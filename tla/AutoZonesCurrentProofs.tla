------------------------ MODULE AutoZonesCurrentProofs ------------------------
(***************************************************************************)
(* The zones that rebuilds keep are disjoint, current and stable, for      *)
(* every set of technologies, addresses, buffers and zones, and any number *)
(* of concurrent transactions, as long as the only edit of an automatic    *)
(* zone by hand is to hide it.                                             *)
(***************************************************************************)
EXTENDS AutoZonesProofs

HideOnly == HandEdits \subseteq {"hide"} \X Zone

-----------------------------------------------------------------------------
(* The inductive invariant, second part: the zones of a technology.        *)

Used(row, t) == row.state # "unused" /\ row.tech = t

\* A zone offers the technology it was built for, and no other.
Linked ==
  \A z \in Zone, t \in Tech : <<z, t>> \in link <=> Used(zone[z], t)

\* A transaction writes zones of the technologies it has locked, once each, and a
\* zone keeps its technology.
Writes(p, z) ==
  LET j == job[p] IN
  /\ j.put[z] # None =>
       /\ j.put[z].tech \in j.held
       /\ zone[z].state # "unused" => j.put[z].tech = zone[z].tech
       /\ zone[z].state = "unused" => <<z, j.put[z].tech>> \in j.links
       /\ Rebuilds(j) => j.put[z].tech # j.tech
  /\ \A t \in Tech : <<z, t>> \in j.links => j.put[z].tech = t

\* What a rebuild has read is still so when it flushes, but for a zone hidden by
\* hand since.
ReadIsFresh(j) ==
  j.pc = "flush" =>
    /\ j.loaded = {z \in Zone : Used(zone[z], j.tech)}
    /\ \A z \in j.hidden : z \in j.loaded /\ zone[z].state = "hidden"
    /\ Matching(zone, j.loaded, j.comps, j.match)

\* Visible zones are apart, and a hidden zone that covers a visible one is the
\* younger: it would lose the area to the visible one.
Apart(zs, y, z) ==
  zs[y].state = "visible" /\ zs[y].tech = zs[z].tech /\ y # z =>
    /\ zs[z].state = "visible" => Cells(zs[y].poly) \cap Cells(zs[z].poly) = {}
    /\ zs[z].state = "hidden" /\ Cells(zs[y].poly) \subseteq Cells(zs[z].poly) => y < z

Good(zs) ==
  /\ \A z \in Zone : zs[z].state = "visible" => Cells(zs[z].poly) # {}
  /\ \A y, z \in Zone : Apart(zs, y, z)

\* An area that a visible zone has had, and has in the eyes of a transaction, is still
\* the area of that zone.
Twin(p, y, z) ==
  /\ zone[z].state = "visible"
  /\ Zones(p)[y].state = "visible"
  /\ Zones(p)[y].tech = zone[z].tech
  /\ Zones(p)[y].poly = zone[z].poly
  => Zones(p)[z] = zone[z]

OwnedBy(p) ==
  /\ \A z \in Zone : Writes(p, z)
  /\ ReadIsFresh(job[p])
  /\ Good(Zones(p))
  /\ \A y, z \in Zone : Twin(p, y, z)

Owned ==
  /\ Linked
  /\ Good(zone)
  /\ \A p \in Proc : OwnedBy(p)

-----------------------------------------------------------------------------
(* What a transaction sees of the zones of one technology *)

LEMMA ViewFrame ==
  ASSUME Base, NEW p \in Proc, NEW z \in Zone, Writes(p, z), NEW t \in Tech,
         t \notin job[p].held \/ (Rebuilds(job[p]) /\ job[p].tech = t),
         Used(Zones(p)[z], t) \/ Used(zone[z], t)
  PROVE  Zones(p)[z] = zone[z] /\ job[p].put[z] = None
<1>1. TypeOK /\ JobSound(job[p])
  BY DEF Base
<1>2. CASE job[p].put[z] = None
  BY <1>1, <1>2, Views
<1>3. CASE job[p].put[z] # None
  <2>1. job[p].put[z].tech # t /\ Zones(p)[z] = job[p].put[z]
        /\ (zone[z].state # "unused" => zone[z].tech # t)
    BY <1>1, <1>3, Views DEF Writes
  <2> QED
    BY <2>1 DEF Used
<1> QED
  BY <1>2, <1>3

LEMMA TechKept ==
  ASSUME Base, NEW p \in Proc, NEW z \in Zone, Writes(p, z), NEW t, Used(zone[z], t)
  PROVE  Used(Zones(p)[z], t)
<1>1. TypeOK /\ JobSound(job[p])
  BY DEF Base
<1> QED
  BY <1>1, Views DEF Writes, Used, JobSound

\* What another transaction sees after a COMMIT: of the technologies the first had
\* locked what it wrote, of the others what it saw before.
LEMMA CommitFrame ==
  ASSUME Base, NEW p \in Proc, NEW q \in Proc \ {p}, NEW z \in Zone, NEW t \in Tech,
         Writes(p, z), Writes(q, z), zone' = Zones(p), job'[q] = job[q]
  PROVE  /\ t \in job[p].held /\ (Used(Zones(q)'[z], t) \/ Used(Zones(p)[z], t)) =>
              Zones(q)'[z] = Zones(p)[z]
         /\ t \notin job[p].held /\ (Used(Zones(q)'[z], t) \/ Used(Zones(q)[z], t)) =>
              Zones(q)'[z] = Zones(q)[z]
<1>1. TypeOK /\ (job[q].put[z] = None \/ job[p].put[z] = None)
  BY DEF Base, Exclusive
<1>2. Zones(q)'[z] = IF job[q].put[z] = None THEN Zones(p)[z] ELSE job[q].put[z]
  BY DEF Zones, Over
<1>3. CASE job[q].put[z] = None
  <2>1. Zones(q)[z] = zone[z]
    BY <1>3, Views DEF Base
  <2> QED
    BY <1>2, <1>3, <2>1, ViewFrame
<1>4. CASE job[q].put[z] # None
  <2>1. /\ Zones(q)[z] = job[q].put[z] /\ Zones(p)[z] = zone[z]
        /\ job[q].put[z].tech \in job[q].held
        /\ zone[z].state # "unused" => job[q].put[z].tech = zone[z].tech
    BY <1>1, <1>4, Views DEF Base, Writes
  <2>2. t \in job[p].held => t \notin job[q].held
    BY DEF Base, Exclusive
  <2> QED
    BY <1>2, <1>4, <2>1, <2>2 DEF Used
<1> QED
  BY <1>3, <1>4

-----------------------------------------------------------------------------
(* Steps that write no zone *)

LEMMA OwnedOwnStep ==
  ASSUME Owned, Base, Base', NEW p \in Proc, zone' = zone, link' = link,
         \A q \in Proc \ {p} : job'[q] = job[q], OwnedBy(p)'
  PROVE  Owned'
<1>1. Linked' /\ Good(zone)'
  BY DEF Owned, Linked
<1>2. ASSUME NEW q \in Proc \ {p}  PROVE OwnedBy(q)'
  <2>1. OwnedBy(q)
    BY DEF Owned
  <2>2. job'[q] = job[q]
    OBVIOUS
  <2>3. Zones(q)' = Zones(q)
    BY <2>2 DEF Zones
  <2> QED
    BY <2>1, <2>2, <2>3 DEF OwnedBy, Writes, ReadIsFresh, Matching, Touching, Greedy, Precedes, Twin
<1> QED
  BY <1>1, <1>2 DEF Owned

LEMMA FresherOwns ==
  ASSUME Base', NEW p \in Proc, Fresher(job'[p]), Good(zone)'
  PROVE  OwnedBy(p)'
<1>1. \A z \in Zone : job'[p].put[z] = None
  BY DEF Fresher, NoZones
<1>2. Zones(p)' = zone'
  <2>1. zone' \in [Zone -> ZoneRow]
    BY DEF Base, TypeOK
  <2>2. \A z \in Zone : Zones(p)'[z] = zone'[z]
    BY <1>1 DEF Zones, Over
  <2> QED
    BY <2>1, <2>2 DEF Zones
<1>3. (\A z \in Zone : Writes(p, z))'
  BY <1>1 DEF Fresher, Writes
<1>4. ReadIsFresh(job[p])'
  BY DEF Fresher, ReadIsFresh
<1>5. Good(Zones(p))' /\ (\A y, z \in Zone : Twin(p, y, z))'
  BY <1>2 DEF Twin
<1> QED
  BY <1>3, <1>4, <1>5 DEF OwnedBy

LEMMA OwnedFresher ==
  ASSUME Owned, Base, Base', NEW p \in Proc, zone' = zone, link' = link,
         \A q \in Proc \ {p} : job'[q] = job[q], Fresher(job'[p])
  PROVE  Owned'
<1>1. Good(zone)'
  BY DEF Owned
<1> QED
  BY <1>1, FresherOwns, OwnedOwnStep

LEMMA OwnedUnchanged ==
  ASSUME Owned, Base, Base', zone' = zone, link' = link, job' = job
  PROVE  Owned'
<1>1. Linked' /\ Good(zone)'
  BY DEF Owned, Linked
<1>2. \A q \in Proc : Zones(q)' = Zones(q)
  BY DEF Zones
<1> QED
  BY <1>1, <1>2 DEF Owned, OwnedBy, Writes, ReadIsFresh, Matching, Touching, Greedy, Precedes, Twin

LEMMA OwnedAcquire ==
  ASSUME Owned, Base, NEW p \in Proc, Acquire(p)
  PROVE  Owned'
<1>1. /\ Base' /\ \A q \in Proc \ {p} : job'[q] = job[q]
  BY AcquireOutcome
<1>2. PICK t \in Tech : Acquires(p, t, job'[p])
  BY AcquireOutcome
<1>3. OwnedBy(p)
  BY DEF Owned
<1>4. /\ t \notin job[p].held /\ job'[p].tech = t /\ job'[p].pc = "zones"
      /\ job'[p].held = job[p].held \cup {t}
      /\ job'[p].put = job[p].put /\ job'[p].links = job[p].links
      /\ zone' = zone /\ link' = link
  BY <1>2 DEF Acquires
<1>5. Zones(p)' = Zones(p)
  BY <1>4 DEF Zones
<1>6. ASSUME NEW z \in Zone  PROVE Writes(p, z)'
  <2>1. Writes(p, z)
    BY <1>3 DEF OwnedBy
  <2> QED
    BY <1>4, <2>1 DEF Writes
<1>7. OwnedBy(p)'
  BY <1>3, <1>4, <1>5, <1>6 DEF OwnedBy, ReadIsFresh, Twin
<1> QED
  BY <1>1, <1>4, <1>7, OwnedOwnStep

\* A match depends on the areas of the zones it was made of, and on nothing else.
LEMMA MatchingKept ==
  ASSUME NEW zones, NEW others, NEW loaded, NEW comps, NEW match,
         \A z \in loaded : others[z].poly = zones[z].poly,
         Matching(zones, loaded, comps, match)
  PROVE  Matching(others, loaded, comps, match)
<1>1. Touching(others, loaded, comps) = Touching(zones, loaded, comps)
  BY DEF Touching
<1>2. \A m \in match : m[1] \in loaded
  BY DEF Matching, Touching
<1>3. ASSUME NEW n \in Touching(zones, loaded, comps) \ match
      PROVE  \E m \in match : Meet(m, n) /\ Precedes(others, m, n)
  <2>1. PICK m \in match : Meet(m, n) /\ Precedes(zones, m, n)
    BY DEF Matching, Greedy
  <2>2. n[1] \in loaded
    BY DEF Touching
  <2>3. Precedes(others, m, n)
    BY <1>2, <2>1, <2>2 DEF Precedes
  <2> QED
    BY <2>1, <2>3
<1> QED
  BY <1>1, <1>3 DEF Matching, Greedy

LEMMA OwnedRead ==
  ASSUME Owned, Base, NEW p \in Proc, ReadZones(p)
  PROVE  Owned'
<1>1. Base' /\ (\A q \in Proc \ {p} : job'[q] = job[q]) /\ Reads(p, job'[p])
  BY ReadOutcome
<1>2. OwnedBy(p) /\ TypeOK /\ JobSound(job[p]) /\ job[p] \in Job
  BY DEF Owned, Base, TypeOK
<1> DEFINE j == job'[p]
           t == job[p].tech
<1>3. /\ job[p].pc = "zones" /\ j.pc = "flush" /\ j.tech = t /\ j.held = job[p].held
      /\ j.loaded = {z \in Zone : <<z, t>> \in Links(p)}
      /\ j.hidden = {z \in j.loaded : Zones(p)[z].state = "hidden"}
      /\ Matching(Zones(p), j.loaded, j.comps, j.match)
      /\ j.put = job[p].put /\ j.links = job[p].links
      /\ zone' = zone /\ link' = link
  BY <1>1 DEF Reads
<1>4. Rebuilds(job[p]) /\ Rebuilds(j) /\ t \in Tech
  BY <1>2, <1>3 DEF Rebuilds, JobSound, Job
<1>5. j.match \subseteq j.loaded \X j.comps
  BY <1>1, <1>3 DEF Base, JobSound
<1> HIDE DEF j, t
<1>6. ASSUME NEW z \in Zone  PROVE <<z, t>> \in Links(p) <=> Used(zone[z], t)
  <2>1. Writes(p, z) /\ (<<z, t>> \in link <=> Used(zone[z], t))
    BY <1>2, <1>4 DEF OwnedBy, Owned, Linked
  <2>2. <<z, t>> \notin job[p].links
    BY <1>2, <1>4, <2>1 DEF Writes, JobSound, t
  <2> QED
    BY <2>1, <2>2 DEF Links
<1>7. j.loaded = {z \in Zone : Used(zone[z], t)}
  BY <1>3, <1>6
<1>8. \A z \in j.loaded : Zones(p)[z] = zone[z]
  <2> SUFFICES ASSUME NEW z \in j.loaded  PROVE Zones(p)[z] = zone[z]
    OBVIOUS
  <2>1. z \in Zone /\ Used(zone[z], t) /\ Writes(p, z)
    BY <1>2, <1>7 DEF OwnedBy
  <2> QED
    BY <1>4, <2>1, ViewFrame DEF t
<1>9. \A z \in j.hidden : z \in j.loaded /\ zone[z].state = "hidden"
  BY <1>3, <1>8
<1>10. Matching(zone, j.loaded, j.comps, j.match)
  <2>1. \A z \in j.loaded : zone[z].poly = Zones(p)[z].poly
    BY <1>8
  <2>2. Matching(Zones(p), j.loaded, j.comps, j.match)
    BY <1>3
  <2> QED
    BY <1>5, <2>1, <2>2, MatchingKept
<1>11. ReadIsFresh(job[p])'
  BY <1>3, <1>7, <1>9, <1>10 DEF ReadIsFresh, j, Matching, Greedy, Touching, Precedes
<1>12. Zones(p)' = Zones(p)
  BY <1>3 DEF Zones, j
<1>13. ASSUME NEW z \in Zone  PROVE Writes(p, z)'
  <2>1. Writes(p, z)
    BY <1>2 DEF OwnedBy
  <2> QED
    BY <1>3, <1>4, <2>1 DEF Writes, j, t
<1>14. OwnedBy(p)'
  BY <1>2, <1>3, <1>11, <1>12, <1>13 DEF OwnedBy, Twin, j
<1> QED
  BY <1>1, <1>3, <1>14, OwnedOwnStep

-----------------------------------------------------------------------------
(* A zone hidden by hand *)

LEMMA GoodHidden ==
  ASSUME NEW zs, NEW after, NEW y \in Zone, Good(zs), zs[y].state = "visible",
         after[y].state = "hidden", after[y].tech = zs[y].tech, after[y].poly = zs[y].poly,
         \A z \in Zone \ {y} : after[z] = zs[z]
  PROVE  Good(after)
<1>1. ASSUME NEW a \in Zone, NEW b \in Zone  PROVE Apart(after, a, b)
  <2> SUFFICES ASSUME after[a].state = "visible", after[a].tech = after[b].tech, a # b
               PROVE  /\ after[b].state = "visible" =>
                           Cells(after[a].poly) \cap Cells(after[b].poly) = {}
                      /\ after[b].state = "hidden"
                         /\ Cells(after[a].poly) \subseteq Cells(after[b].poly) => a < b
    BY DEF Apart
  <2>1. a # y /\ after[a] = zs[a] /\ Apart(zs, a, b) /\ Cells(zs[a].poly) # {}
    BY DEF Good
  <2>2. CASE b # y
    BY <2>1, <2>2 DEF Apart
  <2>3. CASE b = y
    <3>1. Cells(after[a].poly) \cap Cells(after[b].poly) = {} /\ Cells(after[a].poly) # {}
      BY <2>1, <2>3 DEF Apart
    <3> QED
      BY <2>3, <3>1
  <2> QED
    BY <2>2, <2>3
<1>2. \A z \in Zone : after[z].state = "visible" => Cells(after[z].poly) # {}
  BY DEF Good
<1> QED
  BY <1>1, <1>2 DEF Good

LEMMA OwnedHide ==
  ASSUME Owned, Base, NEW y \in Zone, HideZone(y)
  PROVE  Owned'
<1>1. /\ Base' /\ zone[y].state = "visible"
      /\ \A p \in Proc : job[p].put[y] = None
      /\ zone' = [zone EXCEPT ![y] = HiddenRow(zone[y])]
      /\ link' = link /\ job' = job
  BY HideOutcome
<1>2. /\ zone'[y].state = "hidden" /\ zone'[y].tech = zone[y].tech
      /\ zone'[y].poly = zone[y].poly
      /\ \A z \in Zone \ {y} : zone'[z] = zone[z]
  BY <1>1 DEF HiddenRow, Base, TypeOK, ZoneRow
<1>3. \A z \in Zone, t \in Tech : Used(zone'[z], t) <=> Used(zone[z], t)
  BY <1>1, <1>2 DEF Used
<1>4. Linked'
  BY <1>1, <1>3 DEF Owned, Linked
<1>5. Good(zone)'
  <2>1. Good(zone) /\ zone[y].state = "visible"
    BY <1>1 DEF Owned
  <2> QED
    BY <1>2, <2>1, GoodHidden
<1>6. ASSUME NEW p \in Proc  PROVE OwnedBy(p)'
  <2>1. OwnedBy(p) /\ TypeOK /\ job[p] \in Job /\ JobSound(job[p])
    BY DEF Owned, Base, TypeOK
  <2>2. /\ Zones(p)[y] = zone[y] /\ Zones(p)'[y] = zone'[y]
        /\ \A z \in Zone \ {y} : Zones(p)'[z] = Zones(p)[z]
    BY <1>1, <1>2 DEF Zones, Over
  <2>3. Good(Zones(p))'
    BY <1>1, <1>2, <2>1, <2>2, GoodHidden DEF OwnedBy
  <2>4. ASSUME NEW a \in Zone, NEW b \in Zone  PROVE Twin(p, a, b)'
    <3>1. Twin(p, a, b)
      BY <2>1 DEF OwnedBy
    <3> QED
      BY <1>2, <2>2, <3>1 DEF Twin
  <2>5. ASSUME NEW z \in Zone  PROVE Writes(p, z)'
    <3>1. Writes(p, z) /\ (zone'[z].state # "unused" <=> zone[z].state # "unused")
          /\ zone'[z].tech = zone[z].tech
      BY <1>1, <1>2, <2>1 DEF OwnedBy
    <3> QED
      BY <1>1, <3>1 DEF Writes
  <2>6. ReadIsFresh(job[p])'
    <3> SUFFICES ASSUME job[p].pc = "flush"
                 PROVE  /\ job[p].loaded = {z \in Zone : Used(zone'[z], job[p].tech)}
                        /\ \A z \in job[p].hidden : z \in job[p].loaded /\ zone'[z].state = "hidden"
                        /\ Matching(zone', job[p].loaded, job[p].comps, job[p].match)
      BY <1>1 DEF ReadIsFresh, Matching, Greedy, Precedes, Touching
    <3>1. /\ job[p].loaded = {z \in Zone : Used(zone[z], job[p].tech)}
          /\ \A z \in job[p].hidden : z \in job[p].loaded /\ zone[z].state = "hidden"
          /\ Matching(zone, job[p].loaded, job[p].comps, job[p].match)
      BY <2>1 DEF OwnedBy, ReadIsFresh
    <3>2. job[p].tech \in Tech /\ job[p].match \subseteq job[p].loaded \X job[p].comps
      BY <2>1 DEF JobSound, Rebuilds, Job
    <3>3. \A z \in Zone : zone'[z].poly = zone[z].poly
      BY <1>2
    <3>4. \A z \in job[p].hidden : z # y
      BY <1>1, <3>1
    <3>5. \A z \in job[p].loaded : zone'[z].poly = zone[z].poly
      BY <3>1, <3>3
    <3>6. Matching(zone', job[p].loaded, job[p].comps, job[p].match)
      BY <3>1, <3>2, <3>5, MatchingKept
    <3> QED
      BY <1>2, <1>3, <3>1, <3>2, <3>4, <3>6
  <2> QED
    BY <2>3, <2>4, <2>5, <2>6 DEF OwnedBy
<1> QED
  BY <1>4, <1>5, <1>6 DEF Owned

-----------------------------------------------------------------------------
(* A COMMIT *)

LEMMA CommitLinks ==
  ASSUME Owned, Base, NEW p \in Proc, NEW z \in Zone, NEW t \in Tech
  PROVE  <<z, t>> \in Links(p) <=> Used(Zones(p)[z], t)
<1>1. Writes(p, z) /\ TypeOK /\ JobSound(job[p]) /\ (<<z, t>> \in link <=> Used(zone[z], t))
  BY DEF Owned, OwnedBy, Linked, Base
<1>2. CASE job[p].put[z] = None
  BY <1>1, <1>2, Views DEF Links, JobSound
<1>3. CASE job[p].put[z] # None
  <2>1. Zones(p)[z] = job[p].put[z] /\ job[p].put[z].state # "unused"
    BY <1>1, <1>3, Views DEF JobSound
  <2>2. <<z, t>> \in job[p].links => job[p].put[z].tech = t
    BY <1>1 DEF Writes
  <2>3. CASE zone[z].state # "unused"
    BY <1>1, <1>3, <2>1, <2>2, <2>3 DEF Writes, Links, Used
  <2>4. CASE zone[z].state = "unused"
    BY <1>1, <1>3, <2>1, <2>2, <2>4 DEF Writes, Links, Used
  <2> QED
    BY <2>3, <2>4
<1> QED
  BY <1>2, <1>3

LEMMA CommitOthers ==
  ASSUME Owned, Base, Base', NEW p \in Proc, NEW q \in Proc \ {p},
         zone' = Zones(p), job'[q] = job[q]
  PROVE  OwnedBy(q)'
<1>1. OwnedBy(p) /\ OwnedBy(q) /\ TypeOK /\ job[q] \in Job /\ JobSound(job[q])
  BY DEF Owned, Base, TypeOK
<1>2. \A z \in Zone : Writes(p, z) /\ Writes(q, z)
  BY <1>1 DEF OwnedBy
<1>3. ASSUME NEW z \in Zone, NEW t \in Tech
      PROVE  /\ t \in job[p].held /\ (Used(Zones(q)'[z], t) \/ Used(Zones(p)[z], t)) =>
                  Zones(q)'[z] = Zones(p)[z]
             /\ t \notin job[p].held /\ (Used(Zones(q)'[z], t) \/ Used(Zones(q)[z], t)) =>
                  Zones(q)'[z] = Zones(q)[z]
  BY <1>2, CommitFrame
<1>4. \A z \in Zone : Zones(q)'[z].state # "unused" => Zones(q)'[z].tech \in Tech
  <2>1. \A z \in Zone : Zones(q)'[z].state # "unused" =>
          Zones(q)'[z] = job[q].put[z] \/ Zones(q)'[z] = Zones(p)[z]
    BY DEF Zones, Over
  <2>2. \A z \in Zone : Zones(q)'[z] = Over(job[q].put[z], Zones(p)[z])
    BY DEF Zones
  <2> QED
    BY <1>1, <2>2, UsedStays DEF Over, JobSound
<1>5. ASSUME NEW z \in Zone  PROVE Writes(q, z)'
  <2>1. Writes(q, z)
    BY <1>2
  <2>2. job[q].put[z] # None => zone'[z] = zone[z]
    BY <1>1, Views DEF Base, Exclusive
  <2>3. JobSound(job[q])
    BY <1>1
  <2> QED
    BY <2>1, <2>2, <2>3 DEF Writes, JobSound
<1>6. ReadIsFresh(job[q])'
  <2> SUFFICES ASSUME job[q].pc = "flush"
               PROVE  /\ job[q].loaded = {z \in Zone : Used(zone'[z], job[q].tech)}
                      /\ \A z \in job[q].hidden : z \in job[q].loaded /\ zone'[z].state = "hidden"
                      /\ Matching(zone', job[q].loaded, job[q].comps, job[q].match)
    BY DEF ReadIsFresh, Matching, Greedy, Precedes, Touching
  <2>1. /\ job[q].loaded = {z \in Zone : Used(zone[z], job[q].tech)}
        /\ \A z \in job[q].hidden : z \in job[q].loaded /\ zone[z].state = "hidden"
        /\ Matching(zone, job[q].loaded, job[q].comps, job[q].match)
    BY <1>1 DEF OwnedBy, ReadIsFresh
  <2>2. /\ job[q].tech \in Tech /\ job[q].tech \in job[q].held
        /\ job[q].match \subseteq job[q].loaded \X job[q].comps
    BY <1>1 DEF JobSound, Rebuilds, Job
  <2>3. job[q].tech \notin job[p].held
    BY <2>2 DEF Base, Exclusive
  <2>4. ASSUME NEW z \in Zone, Used(zone'[z], job[q].tech) \/ Used(zone[z], job[q].tech)
        PROVE  zone'[z] = zone[z]
    BY <1>2, <2>2, <2>3, <2>4, ViewFrame
  <2>5. job[q].loaded = {z \in Zone : Used(zone'[z], job[q].tech)}
    BY <2>1, <2>4
  <2>6. \A z \in job[q].loaded : zone'[z] = zone[z]
    BY <2>1, <2>4
  <2>7. \A z \in job[q].loaded : zone'[z].poly = zone[z].poly
    BY <2>6
  <2>8. Matching(zone', job[q].loaded, job[q].comps, job[q].match)
    BY <2>1, <2>2, <2>7, MatchingKept
  <2> QED
    BY <2>1, <2>5, <2>6, <2>8
<1>7. Good(Zones(q))'
  <2>1. ASSUME NEW z \in Zone, Zones(q)'[z].state = "visible"
        PROVE  Cells(Zones(q)'[z].poly) # {}
    <3>1. PICK t \in Tech : Used(Zones(q)'[z], t)
      BY <1>4, <2>1 DEF Used
    <3>2. Zones(q)'[z] = Zones(p)[z] \/ Zones(q)'[z] = Zones(q)[z]
      BY <1>3, <3>1
    <3> QED
      BY <1>1, <2>1, <3>2 DEF OwnedBy, Good
  <2>2. ASSUME NEW y \in Zone, NEW z \in Zone  PROVE Apart(Zones(q)', y, z)
    <3>1. CASE \E t \in Tech : Used(Zones(q)'[y], t) /\ Used(Zones(q)'[z], t)
      <4>1. \/ Zones(q)'[y] = Zones(p)[y] /\ Zones(q)'[z] = Zones(p)[z]
            \/ Zones(q)'[y] = Zones(q)[y] /\ Zones(q)'[z] = Zones(q)[z]
        BY <1>3, <3>1
      <4>2. Apart(Zones(p), y, z) /\ Apart(Zones(q), y, z)
        BY <1>1 DEF OwnedBy, Good
      <4> QED
        BY <4>1, <4>2 DEF Apart
    <3>2. CASE ~ \E t \in Tech : Used(Zones(q)'[y], t) /\ Used(Zones(q)'[z], t)
      BY <1>4, <3>2 DEF Apart, Used
    <3> QED
      BY <3>1, <3>2
  <2> QED
    BY <2>1, <2>2 DEF Good
<1>8. ASSUME NEW y \in Zone, NEW z \in Zone  PROVE Twin(q, y, z)'
  <2> SUFFICES ASSUME zone'[z].state = "visible", Zones(q)'[y].state = "visible",
                      Zones(q)'[y].tech = zone'[z].tech, Zones(q)'[y].poly = zone'[z].poly
               PROVE  Zones(q)'[z] = zone'[z]
    BY DEF Twin
  <2> DEFINE t == zone'[z].tech
  <2>1. t \in Tech /\ Used(zone'[z], t) /\ Used(Zones(q)'[y], t)
    BY <1>4 DEF Used
  <2> HIDE DEF t
  <2>2. CASE t \in job[p].held
    BY <1>3, <2>1, <2>2
  <2>3. CASE t \notin job[p].held
    <3>1. zone'[z] = zone[z]
      BY <1>2, <2>1, <2>3, ViewFrame
    <3>2. Zones(q)'[y] = Zones(q)[y]
      BY <1>3, <2>1, <2>3
    <3>3. Zones(q)[z] = zone[z]
      BY <1>1, <3>1, <3>2 DEF OwnedBy, Twin
    <3> QED
      BY <1>3, <2>1, <2>3, <3>1, <3>3
  <2> QED
    BY <2>2, <2>3
<1> QED
  BY <1>5, <1>6, <1>7, <1>8 DEF OwnedBy

LEMMA OwnedCommit ==
  ASSUME Owned, Base, NEW p \in Proc, Commit(p)
  PROVE  Owned'
<1>1. /\ Base' /\ (\A q \in Proc \ {p} : job'[q] = job[q]) /\ job'[p] = Idle
      /\ zone' = Zones(p) /\ link' = Links(p)
  BY CommitOutcome
<1>2. Linked'
  BY <1>1, CommitLinks DEF Linked
<1>3. Good(zone)'
  BY <1>1 DEF Owned, OwnedBy
<1>4. OwnedBy(p)'
  BY <1>1, <1>3, IdleJob, FresherOwns
<1>5. ASSUME NEW q \in Proc \ {p}  PROVE OwnedBy(q)'
  BY <1>1, CommitOthers
<1> QED
  BY <1>2, <1>3, <1>4, <1>5 DEF Owned

-----------------------------------------------------------------------------
(* A flush *)

\* The zones of the technology after it: those that got a component, those hidden
\* for want of one; the others are as they were.
Kept(p, placed, z) == z \notin job[p].loaded /\ Vacated(p, placed, z)

Flushed(p, placed) ==
  LET j == job[p] IN
  /\ \A c \in j.comps : \E s \in {"visible", "hidden"} :
       /\ Zones(p)'[placed[c]] = [state |-> s, tech |-> j.tech, poly |-> c]
       /\ placed[c] \notin j.loaded \/ placed[c] \in j.hidden
            \/ zone[placed[c]].state = "visible" => s = "visible"
  /\ \A z \in j.loaded : Vacated(p, placed, z) =>
       /\ Zones(p)'[z].state = "hidden" /\ Zones(p)'[z].tech = j.tech
       /\ Zones(p)'[z].poly = zone[z].poly
  /\ \A z \in Zone : Kept(p, placed, z) =>
       Zones(p)'[z] = Zones(p)[z] /\ ~ Used(Zones(p)[z], j.tech)

LEMMA FlushView ==
  ASSUME Owned, Base, Base', NEW p \in Proc, NEW placed, Flushes(p, placed, job'[p])
  PROVE  Flushed(p, placed)
<1> DEFINE j == job[p]
           t == j.tech
           put == job'[p].put
<1>1. /\ TypeOK /\ j \in Job /\ JobSound(j) /\ j.pc = "flush"
      /\ OwnedBy(p) /\ Places(p, placed) /\ zone' = zone
      /\ \A c \in j.comps : put[placed[c]] = PlacedRow(p, placed[c], c)
      /\ \A z \in Zone : Vacated(p, placed, z) =>
           put[z] = IF z \in j.loaded \ j.hidden THEN HiddenRow(Zones(p)[z]) ELSE j.put[z]
  BY DEF Flushes, Owned, Base, TypeOK
<1>2. /\ t \in Tech /\ Rebuilds(j) /\ j.comps \in SUBSET SUBSET Address
      /\ j.loaded = {z \in Zone : Used(zone[z], t)}
      /\ \A z \in j.hidden : z \in j.loaded /\ zone[z].state = "hidden"
  BY <1>1 DEF JobSound, Rebuilds, Job, OwnedBy, ReadIsFresh
<1>3. ASSUME NEW z \in Zone, Used(Zones(p)[z], t) \/ Used(zone[z], t)
      PROVE  Zones(p)[z] = zone[z] /\ j.put[z] = None
  <2>1. Writes(p, z)
    BY <1>1 DEF OwnedBy
  <2> QED
    BY <1>2, <1>3, <2>1, ViewFrame
<1>4. \A z \in Zone : Zones(p)'[z] = IF put[z] = None THEN zone[z] ELSE put[z]
  BY <1>1 DEF Zones, Over
<1>5. \A z \in Zone : zone[z] \in ZoneRow /\ Zones(p)[z] \in ZoneRow
  BY <1>1, Views DEF TypeOK
<1> HIDE DEF put, t
<1>6. ASSUME NEW c \in j.comps
      PROVE  \E s \in {"visible", "hidden"} :
               /\ Zones(p)'[placed[c]] = [state |-> s, tech |-> t, poly |-> c]
               /\ placed[c] \notin j.loaded \/ placed[c] \in j.hidden
                    \/ zone[placed[c]].state = "visible" => s = "visible"
  <2> DEFINE z == placed[c]
             s == IF z \in j.hidden \/ Zones(p)[z].state = "unused" THEN "visible"
                  ELSE Zones(p)[z].state
  <2>1. z \in Zone /\ (z \in j.loaded \/ z \in Unused)
    BY <1>1 DEF Places
  <2>2. put[z] = [state |-> s, tech |-> t, poly |-> c]
    BY <1>1 DEF PlacedRow, t
  <2>3. z \in j.loaded => Zones(p)[z] = zone[z] /\ zone[z].state # "unused"
    BY <1>2, <1>3 DEF Used
  <2>4. z \in Unused => Zones(p)[z].state = "unused"
    BY <1>1, UnusedZones
  <2>5. Zones(p)[z] \in ZoneRow
    BY <1>5, <2>1
  <2> HIDE DEF z
  <2>6. s \in {"visible", "hidden"}
    BY <2>5 DEF ZoneRow
  <2>7. z \notin j.loaded \/ z \in j.hidden \/ zone[z].state = "visible" => s = "visible"
    BY <2>1, <2>3, <2>4
  <2> HIDE DEF s
  <2>8. put[z] \in ZoneRow
    BY <1>2, <2>2, <2>6 DEF ZoneRow
  <2>9. Zones(p)'[z] = put[z]
    BY <1>4, <2>1, <2>8, NoneNotAValue
  <2> QED
    BY <2>2, <2>6, <2>7, <2>9 DEF z
<1>7. ASSUME NEW z \in j.loaded, Vacated(p, placed, z)
      PROVE  Zones(p)'[z].state = "hidden" /\ Zones(p)'[z].tech = t
             /\ Zones(p)'[z].poly = zone[z].poly
  <2>1. z \in Zone /\ Zones(p)[z] = zone[z] /\ j.put[z] = None /\ zone[z].tech = t
        /\ zone[z] \in ZoneRow
    BY <1>2, <1>3, <1>5 DEF Used
  <2>2. CASE z \in j.hidden
    BY <1>1, <1>2, <1>4, <1>7, <2>1, <2>2
  <2>3. CASE z \notin j.hidden
    <3>1. put[z] = HiddenRow(zone[z])
      BY <1>1, <1>7, <2>1, <2>3 DEF put
    <3>2. HiddenRow(zone[z]) \in ZoneRow /\ HiddenRow(zone[z]).state = "hidden"
          /\ HiddenRow(zone[z]).tech = t /\ HiddenRow(zone[z]).poly = zone[z].poly
      BY <2>1 DEF HiddenRow, ZoneRow
    <3> QED
      BY <1>4, <2>1, <3>1, <3>2, NoneNotAValue
  <2> QED
    BY <2>2, <2>3
<1>8. ASSUME NEW z \in Zone, Kept(p, placed, z)
      PROVE  Zones(p)'[z] = Zones(p)[z] /\ ~ Used(Zones(p)[z], t)
  <2>1. put[z] = j.put[z]
    BY <1>1, <1>8 DEF Kept, put
  <2>2. Zones(p)[z] = IF j.put[z] = None THEN zone[z] ELSE j.put[z]
    BY <1>1, Views
  <2> QED
    BY <1>2, <1>3, <1>4, <1>8, <2>1, <2>2 DEF Kept
<1> QED
  BY <1>6, <1>7, <1>8 DEF Flushed, t

\* No pair is better than that of a component with a zone that covers it: it is
\* matched, or an older zone that covers the component is, or the zone has another.
LEMMA NoBetter ==
  ASSUME Owned, Base, NEW p \in Proc, job[p].pc = "flush",
         NEW z \in job[p].loaded, NEW c \in job[p].comps,
         Cells(c) \subseteq Cells(zone[z].poly)
  PROVE  \/ <<z, c>> \in job[p].match
         \/ \E x \in job[p].loaded : /\ <<x, c>> \in job[p].match /\ x # z /\ x < z
                                     /\ Cells(c) \subseteq Cells(zone[x].poly)
         \/ \E d \in job[p].comps \ {c} : <<z, d>> \in job[p].match
<1> DEFINE j == job[p]
           n == <<z, c>>
<1>1. /\ j \in Job /\ JobSound(j) /\ TypeOK /\ ReadIsFresh(j)
  BY DEF Owned, OwnedBy, Base, TypeOK
<1>2. PICK C \in SUBSET Address : j.comps = Clusters(C)
  BY <1>1 DEF JobSound, Rebuilds
<1>3. c \in SUBSET Address /\ Cells(c) # {}
  BY <1>2, ClustersNonempty
<1>4. /\ j.loaded \subseteq Zone /\ j.match \subseteq j.loaded \X j.comps
      /\ Matching(zone, j.loaded, j.comps, j.match)
      /\ \A x \in Zone : zone[x].poly \in SUBSET Address
  BY <1>1 DEF Job, JobSound, ReadIsFresh, TypeOK, ZoneRow
<1>5. /\ Overlap(zone[z].poly, c) = Overlap(c, c) /\ Overlap(zone[z].poly, c) \in Nat
      /\ Overlap(zone[z].poly, c) # 0
  BY <1>3, <1>4, OverlapBounds
<1>6. n \in Touching(zone, j.loaded, j.comps)
  BY <1>5 DEF Touching
<1> SUFFICES ASSUME n \notin j.match
             PROVE  \/ \E x \in j.loaded : /\ <<x, c>> \in j.match /\ x # z /\ x < z
                                           /\ Cells(c) \subseteq Cells(zone[x].poly)
                    \/ \E d \in j.comps \ {c} : <<z, d>> \in j.match
  OBVIOUS
<1>7. PICK m \in j.match : Meet(m, n) /\ Precedes(zone, m, n)
  BY <1>4, <1>6 DEF Matching, Greedy
<1>8. m = <<m[1], m[2]>> /\ m[1] \in j.loaded /\ m[2] \in j.comps
  BY <1>4
<1>9. CASE m[2] = c
  <2>1. m[1] # z
    BY <1>7, <1>8, <1>9 DEF Meet
  <2>2. /\ Overlap(zone[m[1]].poly, c) \in Nat
        /\ Overlap(zone[m[1]].poly, c) <= Overlap(c, c)
        /\ Overlap(zone[m[1]].poly, c) = Overlap(c, c) <=> Cells(c) \subseteq Cells(zone[m[1]].poly)
    BY <1>3, <1>4, <1>8, OverlapBounds
  <2>3. Overlap(zone[m[1]].poly, c) = Overlap(c, c) /\ m[1] < z
    BY <1>5, <1>7, <1>9, <2>1, <2>2 DEF Precedes
  <2> QED
    BY <1>8, <1>9, <2>1, <2>2, <2>3
<1>10. CASE m[2] # c
  BY <1>7, <1>8, <1>10 DEF Meet
<1> QED
  BY <1>9, <1>10

LEMMA FlushGood ==
  ASSUME Owned, Base, Base', NEW p \in Proc, NEW placed, Flushes(p, placed, job'[p])
  PROVE  Good(Zones(p))'
<1> DEFINE j == job[p]
           t == j.tech
           after == Zones(p)'
<1>1. /\ j \in Job /\ JobSound(j) /\ j.pc = "flush" /\ Places(p, placed)
      /\ OwnedBy(p) /\ Good(Zones(p)) /\ TypeOK
  BY DEF Flushes, Owned, OwnedBy, Base, TypeOK
<1>2. PICK C \in SUBSET Address : j.comps = Clusters(C)
  BY <1>1 DEF JobSound, Rebuilds
<1>3. /\ \A c \in j.comps : Cells(c) # {}
      /\ \A c, d \in j.comps : c # d => Cells(c) \cap Cells(d) = {}
  BY <1>2, ClustersNonempty, ClustersDisjoint
<1>4. /\ \A c \in j.comps : \E s \in {"visible", "hidden"} :
           after[placed[c]] = [state |-> s, tech |-> t, poly |-> c]
      /\ \A z \in j.loaded : Vacated(p, placed, z) =>
           after[z].state = "hidden" /\ after[z].tech = t /\ after[z].poly = zone[z].poly
      /\ \A z \in Zone : Kept(p, placed, z) =>
           after[z] = Zones(p)[z] /\ ~ Used(Zones(p)[z], t)
  BY FlushView DEF Flushed
<1> HIDE DEF after, t
<1>5. \A z \in Zone :
        \/ \E c \in j.comps : placed[c] = z /\ after[z].tech = t /\ after[z].poly = c
        \/ /\ Vacated(p, placed, z) /\ z \in j.loaded
           /\ after[z].state = "hidden" /\ after[z].tech = t /\ after[z].poly = zone[z].poly
        \/ after[z] = Zones(p)[z] /\ ~ Used(after[z], t)
  <2> SUFFICES ASSUME NEW z \in Zone
               PROVE
        \/ \E c \in j.comps : placed[c] = z /\ after[z].tech = t /\ after[z].poly = c
        \/ /\ Vacated(p, placed, z) /\ z \in j.loaded
           /\ after[z].state = "hidden" /\ after[z].tech = t /\ after[z].poly = zone[z].poly
        \/ after[z] = Zones(p)[z] /\ ~ Used(after[z], t)
    OBVIOUS
  <2>1. CASE \E c \in j.comps : placed[c] = z
    <3>1. PICK c \in j.comps : placed[c] = z
      BY <2>1
    <3>2. PICK s \in {"visible", "hidden"} :
             after[placed[c]] = [state |-> s, tech |-> t, poly |-> c]
      BY <1>4
    <3>3. after[z].tech = t /\ after[z].poly = c
      BY <3>1, <3>2
    <3> QED
      BY <3>1, <3>3
  <2>2. CASE Vacated(p, placed, z) /\ z \in j.loaded
    BY <1>4, <2>2
  <2>3. CASE Vacated(p, placed, z) /\ z \notin j.loaded
    BY <1>4, <2>3 DEF Kept
  <2> QED
    BY <2>1, <2>2, <2>3 DEF Vacated
<1>6. ASSUME NEW z \in Zone, after[z].state = "visible"  PROVE Cells(after[z].poly) # {}
  BY <1>1, <1>3, <1>5, <1>6 DEF Good
<1>7. ASSUME NEW y \in Zone, NEW z \in Zone,
             after[y].state = "visible", after[y].tech = after[z].tech, y # z
      PROVE  /\ after[z].state = "visible" => Cells(after[y].poly) \cap Cells(after[z].poly) = {}
             /\ after[z].state = "hidden" /\ Cells(after[y].poly) \subseteq Cells(after[z].poly)
                  => y < z
  <2>1. CASE after[y].tech # t
    <3>1. after[y] = Zones(p)[y] /\ after[z] = Zones(p)[z]
      BY <1>5, <1>7, <2>1
    <3>2. Apart(Zones(p), y, z)
      BY <1>1 DEF Good
    <3> QED
      BY <1>7, <3>1, <3>2 DEF Apart
  <2>2. CASE after[y].tech = t
    <3>1. PICK c \in j.comps : placed[c] = y /\ after[y].poly = c
      BY <1>5, <1>7, <2>2 DEF Used
    <3>2. ASSUME NEW d \in j.comps, placed[d] = z, after[z].poly = d
          PROVE  Cells(c) \cap Cells(d) = {} /\ ~ (Cells(c) \subseteq Cells(d))
      <4>1. c # d
        BY <1>7, <3>1, <3>2
      <4> QED
        BY <1>3, <4>1
    <3>3. CASE \E d \in j.comps : placed[d] = z /\ after[z].poly = d
      BY <3>1, <3>2, <3>3
    <3>4. CASE /\ Vacated(p, placed, z) /\ z \in j.loaded
               /\ after[z].state = "hidden" /\ after[z].poly = zone[z].poly
      <4>1. ASSUME Cells(c) \subseteq Cells(zone[z].poly)
            PROVE  y < z
        <5>1. \A d \in j.comps : <<z, d>> \notin j.match
          BY <1>1, <3>4 DEF Places, Vacated
        <5>2. PICK x \in j.loaded : <<x, c>> \in j.match /\ x < z
          BY <1>1, <3>4, <4>1, <5>1, NoBetter
        <5>3. x \in Zone
          BY <1>1 DEF Job
        <5>4. placed[c] = x
          BY <1>1, <5>2, <5>3 DEF Places
        <5> QED
          BY <3>1, <5>2, <5>4
      <4> QED
        BY <3>1, <3>4, <4>1
    <3>5. CASE ~ Used(after[z], t)
      BY <1>7, <2>2, <3>5 DEF Used
    <3> QED
      BY <1>5, <3>3, <3>4, <3>5
  <2> QED
    BY <2>1, <2>2
<1>8. Good(after)
  BY <1>6, <1>7 DEF Good, Apart
<1> QED
  BY <1>8 DEF after

LEMMA FlushTwin ==
  ASSUME Owned, Base, Base', NEW p \in Proc, NEW placed, Flushes(p, placed, job'[p]),
         NEW y \in Zone, NEW z \in Zone
  PROVE  Twin(p, y, z)'
<1> DEFINE j == job[p]
           t == j.tech
           after == Zones(p)'
<1>1. /\ j \in Job /\ JobSound(j) /\ j.pc = "flush" /\ Places(p, placed) /\ zone' = zone
      /\ OwnedBy(p) /\ Good(zone) /\ TypeOK /\ ReadIsFresh(j)
  BY DEF Flushes, Owned, OwnedBy, Base, TypeOK
<1>2. PICK C \in SUBSET Address : j.comps = Clusters(C)
  BY <1>1 DEF JobSound, Rebuilds
<1>3. /\ \A c \in j.comps : c \in SUBSET Address /\ Cells(c) # {}
      /\ \A c, d \in j.comps : c # d => Cells(c) \cap Cells(d) = {}
  BY <1>2, ClustersNonempty, ClustersDisjoint
<1>4. /\ j.loaded = {x \in Zone : Used(zone[x], t)}
  BY <1>1 DEF ReadIsFresh
<1>5. /\ \A c \in j.comps : \E s \in {"visible", "hidden"} :
           /\ after[placed[c]] = [state |-> s, tech |-> t, poly |-> c]
           /\ zone[placed[c]].state = "visible" => s = "visible"
      /\ \A x \in j.loaded : Vacated(p, placed, x) =>
           after[x].state = "hidden" /\ after[x].tech = t /\ after[x].poly = zone[x].poly
      /\ \A x \in Zone : Kept(p, placed, x) =>
           after[x] = Zones(p)[x] /\ ~ Used(Zones(p)[x], t)
  BY FlushView DEF Flushed
<1> HIDE DEF after, t
<1>6. ASSUME NEW c \in j.comps
      PROVE  /\ after[placed[c]].tech = t /\ after[placed[c]].poly = c
             /\ zone[placed[c]].state = "visible" =>
                  after[placed[c]] = [state |-> "visible", tech |-> t, poly |-> c]
  <2>1. PICK s \in {"visible", "hidden"} :
           /\ after[placed[c]] = [state |-> s, tech |-> t, poly |-> c]
           /\ zone[placed[c]].state = "visible" => s = "visible"
    BY <1>5
  <2> QED
    BY <2>1
<1> SUFFICES ASSUME zone[z].state = "visible", after[y].state = "visible",
                    after[y].tech = zone[z].tech, after[y].poly = zone[z].poly
             PROVE  after[z] = zone[z]
  BY <1>1 DEF Twin, after
<1>7. CASE zone[z].tech # t
  <2>1. \A x \in Zone : x \in j.loaded /\ Vacated(p, placed, x) => after[x].tech = t
    BY <1>5
  <2>2. Vacated(p, placed, y) /\ y \notin j.loaded
    <3>1. ASSUME NEW c \in j.comps, placed[c] = y  PROVE FALSE
      <4>1. after[placed[c]].tech = t
        BY <1>6
      <4> QED
        BY <1>7, <3>1, <4>1
    <3> QED
      BY <1>7, <2>1, <3>1 DEF Vacated
  <2>3. z \notin j.loaded
    BY <1>4, <1>7 DEF Used
  <2>4. Vacated(p, placed, z)
    BY <1>1, <2>3, UnusedZones DEF Places, Vacated
  <2>5. after[y] = Zones(p)[y] /\ after[z] = Zones(p)[z]
    BY <1>5, <2>2, <2>3, <2>4 DEF Kept
  <2>6. Twin(p, y, z)
    BY <1>1 DEF OwnedBy
  <2> QED
    BY <2>5, <2>6 DEF Twin
<1>8. CASE zone[z].tech = t
  <2>1. z \in j.loaded
    BY <1>4, <1>8 DEF Used
  <2>2. PICK c \in j.comps : placed[c] = y
    <3>1. ~ Vacated(p, placed, y)
      BY <1>5, <1>8 DEF Kept, Used
    <3> QED
      BY <3>1 DEF Vacated
  <2>3. c = zone[z].poly
    BY <1>6, <2>2
  <2>4. <<z, c>> \in j.match
    <3>1. ASSUME NEW x \in j.loaded, x # z, x < z, Cells(c) \subseteq Cells(zone[x].poly)
          PROVE  FALSE
      <4>1. x \in Zone /\ Used(zone[x], t) /\ zone[x].state \in {"visible", "hidden"}
        BY <1>1, <1>4 DEF Used, TypeOK, ZoneRow
      <4>2. Apart(zone, z, x)
        BY <1>1, <4>1 DEF Good
      <4>3. zone[x].state # "visible"
        BY <1>3, <1>8, <2>3, <3>1, <4>1, <4>2 DEF Apart, Used
      <4>4. z < x
        BY <1>8, <2>3, <3>1, <4>1, <4>2, <4>3 DEF Apart, Used
      <4> QED
        BY <3>1, <4>1, <4>4, ZoneAssumption
    <3>2. ASSUME NEW d \in j.comps \ {c}, <<z, d>> \in j.match
          PROVE  FALSE
      <4>1. Overlap(zone[z].poly, d) > 0
        BY <1>1, <3>2 DEF ReadIsFresh, Matching, Touching
      <4>2. Overlap(c, d) = 0
        BY <1>3, OverlapBounds
      <4> QED
        BY <2>3, <4>1, <4>2
    <3> QED
      BY <1>1, <2>1, <2>3, <3>1, <3>2, NoBetter
  <2>5. placed[c] = z
    BY <1>1, <2>4 DEF Places
  <2>6. after[z] = [state |-> "visible", tech |-> t, poly |-> c]
    BY <1>6, <2>5
  <2> QED
    BY <1>1, <1>8, <2>3, <2>6 DEF TypeOK, ZoneRow
<1> QED
  BY <1>7, <1>8

LEMMA FlushWrites ==
  ASSUME Owned, Base, Base', NEW p \in Proc, NEW placed, Flushes(p, placed, job'[p]),
         NEW z \in Zone
  PROVE  Writes(p, z)'
<1> DEFINE j == job[p]
           t == j.tech
           put == job'[p].put
           links == job'[p].links
<1>1. /\ TypeOK /\ j \in Job /\ JobSound(j) /\ ReadIsFresh(j) /\ Writes(p, z)
      /\ Places(p, placed) /\ zone' = zone /\ j.pc = "flush"
      /\ job'[p].held = j.held /\ job'[p].pc = "next"
      /\ \A c \in j.comps : put[placed[c]] = PlacedRow(p, placed[c], c)
      /\ Vacated(p, placed, z) =>
           put[z] = IF z \in j.loaded \ j.hidden THEN HiddenRow(Zones(p)[z]) ELSE j.put[z]
      /\ links = j.links \cup {<<placed[c], t>> : c \in j.comps}
  BY DEF Flushes, Owned, OwnedBy, Base, TypeOK
<1>2. /\ t \in Tech /\ t \in j.held /\ Rebuilds(j)
      /\ j.loaded = {x \in Zone : Used(zone[x], t)}
  BY <1>1 DEF JobSound, Rebuilds, Job, ReadIsFresh
<1> HIDE DEF put, links, t
<1>3. z \in j.loaded => /\ Zones(p)[z] = zone[z] /\ j.put[z] = None /\ zone[z].tech = t
                        /\ zone[z].state # "unused"
  BY <1>1, <1>2, ViewFrame DEF Used, t
<1>4. \A u \in Tech : <<z, u>> \in j.links => j.put[z] # None /\ j.put[z].tech = u /\ u # t
  BY <1>1, <1>2 DEF JobSound, Writes, t
<1>5. CASE \E c \in j.comps : placed[c] = z
  <2>1. PICK c \in j.comps : placed[c] = z
    BY <1>5
  <2>2. put[z].tech = t
    <3>1. put[z] = PlacedRow(p, z, c)
      BY <1>1, <2>1
    <3>2. PlacedRow(p, z, c).tech = t
      BY DEF PlacedRow, t
    <3> QED
      BY <3>1, <3>2
  <2>3. <<z, t>> \in links
    BY <1>1, <2>1
  <2>4. z \in j.loaded \/ z \in Unused
    BY <1>1, <2>1 DEF Places
  <2>5. j.put[z] = None /\ (zone[z].state # "unused" => zone[z].tech = t)
    BY <1>1, <1>3, <2>4, UnusedZones
  <2>6. \A u \in Tech : <<z, u>> \in links => u = t
    BY <1>1, <1>4, <2>5
  <2> QED
    BY <1>1, <1>2, <2>2, <2>3, <2>5, <2>6 DEF Writes, put, links, Rebuilds
<1>6. CASE Vacated(p, placed, z) /\ z \in j.loaded \ j.hidden
  <2>1. put[z].tech = t
    <3>1. zone[z] \in ZoneRow
      BY <1>1 DEF TypeOK
    <3> QED
      BY <1>1, <1>3, <1>6, <3>1 DEF HiddenRow, ZoneRow
  <2>2. \A u \in Tech : <<z, u>> \notin links
    BY <1>1, <1>3, <1>4, <1>6 DEF Vacated
  <2> QED
    BY <1>1, <1>2, <1>3, <1>6, <2>1, <2>2 DEF Writes, put, links, Rebuilds
<1>7. CASE Vacated(p, placed, z) /\ ~ (z \in j.loaded \ j.hidden)
  <2>1. put[z] = j.put[z]
    BY <1>1, <1>7
  <2>2. \A u \in Tech : <<z, u>> \in links <=> <<z, u>> \in j.links
    BY <1>1, <1>7 DEF Vacated
  <2>3. j.put[z] # None => j.put[z].tech \in Tech
    BY <1>1 DEF JobSound
  <2> QED
    BY <1>1, <2>1, <2>2, <2>3 DEF Writes, put, links, Rebuilds
<1> QED
  BY <1>5, <1>6, <1>7 DEF Vacated

LEMMA OwnedFlush ==
  ASSUME Owned, Base, NEW p \in Proc, Flush(p)
  PROVE  Owned'
<1>1. Base' /\ \A q \in Proc \ {p} : job'[q] = job[q]
  BY FlushOutcome
<1>2. PICK placed : Flushes(p, placed, job'[p])
  BY FlushOutcome
<1>3. zone' = zone /\ link' = link /\ job'[p].pc = "next"
  BY <1>2 DEF Flushes
<1>4. (\A z \in Zone : Writes(p, z))'
  BY <1>1, <1>2, FlushWrites
<1>5. ReadIsFresh(job[p])'
  BY <1>3 DEF ReadIsFresh
<1>6. Good(Zones(p))'
  BY <1>1, <1>2, FlushGood
<1>7. (\A y, z \in Zone : Twin(p, y, z))'
  BY <1>1, <1>2, FlushTwin
<1>8. OwnedBy(p)'
  BY <1>4, <1>5, <1>6, <1>7 DEF OwnedBy
<1> QED
  BY <1>1, <1>3, <1>8, OwnedOwnStep

-----------------------------------------------------------------------------
(* The second part of the invariant *)

LEMMA OwnedInit == Init => Owned
<1> SUFFICES ASSUME Init  PROVE Owned
  OBVIOUS
<1>1. /\ \A z \in Zone : zone[z] = NoZone /\ NoZone.state = "unused"
      /\ link = {} /\ zone = [z \in Zone |-> NoZone]
      /\ \A p \in Proc : job[p] = Idle
  BY DEF Init, NoZone
<1>2. \A z \in Zone : Idle.put[z] = None
  BY IdleJob DEF Fresher, NoZones
<1>3. \A p \in Proc : Zones(p) = zone
  BY <1>1, <1>2 DEF Zones, Over
<1>4. Good(zone)
  BY <1>1 DEF Good, Apart
<1>5. ASSUME NEW p \in Proc  PROVE OwnedBy(p)
  <2>1. \A z \in Zone : Writes(p, z)
    BY <1>1, <1>2, IdleJob DEF Writes, Fresher
  <2>2. ReadIsFresh(job[p])
    BY <1>1, IdleJob DEF ReadIsFresh, Fresher
  <2>3. \A y, z \in Zone : Twin(p, y, z)
    BY <1>3 DEF Twin
  <2> QED
    BY <1>3, <1>4, <2>1, <2>2, <2>3 DEF OwnedBy
<1> QED
  BY <1>1, <1>4, <1>5 DEF Owned, Linked, Used

LEMMA OwnedStep ==
  ASSUME HideOnly, Base, Owned, [Next]_vars
  PROVE  Owned'
<1>1. Base'
  BY BaseStep
<1>2. ASSUME NEW p \in Proc, Trigger(p)  PROVE Owned'
  <2>1. PICK kind, todo, j : /\ Starts(p, kind, todo, j)
                             /\ offering' \in [Tech -> [Address -> Status]]
    BY <1>2, TriggerStarts
  <2>2. job'[p] = j /\ \A q \in Proc \ {p} : job'[q] = job[q]
    BY <2>1, StartsBase
  <2>3. Fresher(job'[p]) /\ zone' = zone /\ link' = link
    BY <2>1, <2>2 DEF Starts
  <2> QED
    BY <1>1, <2>2, <2>3, OwnedFresher
<1>3. ASSUME NEW p \in Proc, Rebuild(p)  PROVE Owned'
  BY <1>3, OwnedAcquire, OwnedRead, OwnedFlush, OwnedCommit DEF Rebuild
<1>4. ASSUME NEW p \in Proc, Fail(p) \/ DeadlockAbort(p)  PROVE Owned'
  <2>1. (\A q \in Proc \ {p} : job'[q] = job[q]) /\ Fails(p)
    BY <1>4, FailOutcome DEF DeadlockAbort
  <2>2. Fresher(job'[p]) /\ zone' = zone /\ link' = link
    BY <2>1, IdleJob DEF Fails
  <2> QED
    BY <1>1, <2>1, <2>2, OwnedFresher
<1>5. CASE HandEdit
  <2>1. PICK y \in Zone : HideZone(y)
    BY <1>5 DEF HandEdit, HideOnly, DeleteZoneOffering, CreateZoneOffering
  <2> QED
    BY <2>1, OwnedHide
<1>6. ASSUME NEW a \in Synced, SyncAddress(a)  PROVE Owned'
  BY <1>1, <1>6, OwnedUnchanged DEF SyncAddress
<1>7. CASE UNCHANGED vars
  BY <1>1, <1>7, OwnedUnchanged DEF vars
<1> QED
  BY <1>2, <1>3, <1>4, <1>5, <1>6, <1>7 DEF Next

-----------------------------------------------------------------------------
(* No two visible zones of one technology overlap *)

LEMMA OwnedDisjoint ==
  ASSUME Owned
  PROVE  ZonesDisjoint
<1> SUFFICES ASSUME NEW t \in Tech, NEW y \in Visible(t), NEW z \in Visible(t), y # z
             PROVE  Cells(zone[y].poly) \cap Cells(zone[z].poly) = {}
  BY DEF ZonesDisjoint
<1>1. Apart(zone, y, z)
  BY DEF Owned, Good, Visible
<1> QED
  BY <1>1 DEF Apart, Visible

\* At no time do two visible zones of one technology overlap, whatever the order in
\* which rebuilds, changes, imports and hiding by hand interleave (the greedy matching
\* of _rebuild_for_technology under its advisory lock).
THEOREM ZonesDisjointCorrect ==
  ASSUME HideOnly
  PROVE  Spec => []ZonesDisjoint
<1>1. Init => Base /\ Owned
  BY BaseInit, OwnedInit
<1>2. Base /\ Owned /\ [Next]_vars => Base' /\ Owned'
  BY BaseStep, OwnedStep
<1>3. Owned => ZonesDisjoint
  BY OwnedDisjoint
<1> QED
  BY <1>1, <1>2, <1>3, PTL DEF Spec

-----------------------------------------------------------------------------
(* An area stays with its zone *)

Stable(t) ==
  Current(t) /\ Current(t)' /\ Components(t)' = Components(t)
    => \A z \in Visible(t) : zone'[z] = zone[z]

\* Among the zones shown after a step of a stable coverage, one has each earlier area.
LEMMA SameArea ==
  ASSUME NEW t \in Tech, Current(t), Current(t)', Components(t)' = Components(t),
         NEW z \in Visible(t)
  PROVE  \E y \in Zone : /\ zone'[y].state = "visible" /\ zone'[y].tech = t
                         /\ zone'[y].poly = zone[z].poly
<1>1. zone[z].poly \in Components(t)
  BY DEF Current
<1>2. Components(t)' = {zone'[y].poly : y \in Visible(t)'}
  BY DEF Current
<1>3. PICK y \in Visible(t)' : zone'[y].poly = zone[z].poly
  BY <1>1, <1>2
<1> QED
  BY <1>3 DEF Visible

LEMMA StableStep ==
  ASSUME HideOnly, Base, Owned, [Next]_vars, NEW t \in Tech
  PROVE  Stable(t)
<1>1. CASE zone' = zone
  BY <1>1 DEF Stable
<1>2. ASSUME NEW p \in Proc, Commit(p)  PROVE Stable(t)
  <2> SUFFICES ASSUME Current(t), Current(t)', Components(t)' = Components(t),
                      NEW z \in Visible(t)
               PROVE  zone'[z] = zone[z]
    BY DEF Stable
  <2>1. PICK y \in Zone : /\ zone'[y].state = "visible" /\ zone'[y].tech = t
                          /\ zone'[y].poly = zone[z].poly
    BY SameArea
  <2>2. zone' = Zones(p)
    BY <1>2, CommitOutcome
  <2>3. z \in Zone /\ zone[z].state = "visible" /\ zone[z].tech = t
    BY DEF Visible
  <2>4. Twin(p, y, z)
    BY <2>3 DEF Owned, OwnedBy
  <2> QED
    BY <2>1, <2>2, <2>3, <2>4 DEF Twin
<1>3. ASSUME NEW x \in Zone, HideZone(x)  PROVE Stable(t)
  <2> SUFFICES ASSUME Current(t), Current(t)', Components(t)' = Components(t),
                      NEW z \in Visible(t)
               PROVE  zone'[z] = zone[z]
    BY DEF Stable
  <2>1. /\ zone' = [zone EXCEPT ![x] = HiddenRow(zone[x])]
        /\ TypeOK
    BY <1>3, HideOutcome DEF Base
  <2>2. CASE z # x
    BY <2>1, <2>2 DEF TypeOK, Visible
  <2>3. CASE z = x
    <3>1. PICK y \in Zone : /\ zone'[y].state = "visible" /\ zone'[y].tech = t
                            /\ zone'[y].poly = zone[z].poly
      BY SameArea
    <3>2. zone'[x].state = "hidden"
      BY <2>1 DEF TypeOK, HiddenRow, ZoneRow
    <3>3. y # x /\ zone'[y] = zone[y]
      BY <2>1, <3>1, <3>2 DEF TypeOK
    <3>4. z \in Zone /\ zone[z].state = "visible" /\ zone[z].tech = t
      BY DEF Visible
    <3>5. Apart(zone, y, z) /\ Cells(zone[z].poly) # {}
      BY <3>4 DEF Owned, Good
    <3> QED
      BY <2>3, <3>1, <3>3, <3>4, <3>5 DEF Apart
  <2> QED
    BY <2>2, <2>3
<1>4. ASSUME NEW p \in Proc, Trigger(p)  PROVE Stable(t)
  BY <1>1, <1>4, TriggerStarts DEF Starts
<1>5. ASSUME NEW p \in Proc, Rebuild(p)  PROVE Stable(t)
  BY <1>1, <1>2, <1>5 DEF Rebuild, Acquire, ReadZones, Flush
<1>6. ASSUME NEW p \in Proc, Fail(p) \/ DeadlockAbort(p)  PROVE Stable(t)
  BY <1>1, <1>6 DEF DeadlockAbort, Fail
<1>7. CASE HandEdit
  BY <1>3, <1>7 DEF HandEdit, HideOnly, DeleteZoneOffering, CreateZoneOffering
<1>8. ASSUME NEW a \in Synced, SyncAddress(a)  PROVE Stable(t)
  BY <1>1, <1>8 DEF SyncAddress
<1>9. CASE UNCHANGED vars
  BY <1>1, <1>9 DEF vars
<1> QED
  BY <1>4, <1>5, <1>6, <1>7, <1>8, <1>9 DEF Next

\* No step moves an area that stays covered to another zone, and with it its custom
\* name (hidden zones take part in the matching, and overlaps may be equal).
THEOREM IdentityStableCorrect ==
  ASSUME HideOnly
  PROVE  Spec => IdentityStable
<1>1. Init => Base /\ Owned
  BY BaseInit, OwnedInit
<1>2. Base /\ Owned /\ [Next]_vars => Base' /\ Owned'
  BY BaseStep, OwnedStep
<1>3. Base /\ Owned /\ [Next]_vars =>
        [\A t \in Tech : Current(t) /\ Current(t)' /\ Components(t)' = Components(t)
           => \A z \in Visible(t) : zone'[z] = zone[z]]_vars
  BY StableStep DEF Stable
<1> QED
  BY <1>1, <1>2, <1>3, PTL DEF Spec, IdentityStable

-----------------------------------------------------------------------------
(* The inductive invariant, third part: the zones of a technology are those of *)
(* its coverage, or will be.                                                   *)

Shown(zs, t) == {zs[z].poly : z \in {y \in Zone : zs[y].state = "visible" /\ zs[y].tech = t}}

Pending(t) == \E p \in Proc : job[p].kind = "task" /\ t \in ToSet(job[p].todo)

\* Of a transaction that holds the lock: what it will write, or has written, is the
\* coverage it sees.
At(j, t) == Rebuilds(j) /\ j.tech = t

Fit(p, t) ==
  IF At(job[p], t)
  THEN /\ job[p].comps = Clusters(Seen(p, t))
       /\ job[p].pc = "flush" =>
            \A z \in job[p].loaded \ job[p].hidden : zone[z].state = "visible"
  ELSE Shown(Zones(p), t) = Clusters(Seen(p, t))

UpToDate(t) ==
  /\ \A p \in Proc : t \in job[p].held => Fit(p, t)
  /\ (\A p \in Proc : t \notin job[p].held) => Shown(zone, t) = Components(t)

Settled == \A t \in Tech : t \in owed \/ Pending(t) \/ UpToDate(t)

\* The distinct areas shown are counted by their zones.
LEMMA CurrentShown ==
  ASSUME Base, Owned, NEW t \in Tech, Shown(zone, t) = Components(t)
  PROVE  Current(t)
<1>1. Shown(zone, t) = {zone[z].poly : z \in Visible(t)}
  BY DEF Shown, Visible
<1>2. IsFiniteSet(Components(t))
  <2>1. Coverage(t) \in SUBSET Address
    BY DEF Coverage, Base, TypeOK
  <2>2. Components(t) \in SUBSET SUBSET Address
    BY <2>1, ClustersTyped DEF Components
  <2>3. IsFiniteSet(SUBSET Address)
    BY FiniteAssumption, FS_SUBSET
  <2> QED
    BY <2>2, <2>3, FS_Subset
<1>3. \A y, z \in Visible(t) : zone[y].poly = zone[z].poly => y = z
  <2> SUFFICES ASSUME NEW y \in Visible(t), NEW z \in Visible(t),
                      zone[y].poly = zone[z].poly, y # z
               PROVE  FALSE
    OBVIOUS
  <2>1. Apart(zone, y, z) /\ Cells(zone[y].poly) # {}
    BY DEF Owned, Good, Visible
  <2> QED
    BY <2>1 DEF Apart, Visible
<1> DEFINE f == [c \in Components(t) |-> CHOOSE z \in Visible(t) : zone[z].poly = c]
<1>4. \A c \in Components(t) : f[c] \in Visible(t) /\ zone[f[c]].poly = c
  BY <1>1
<1>5. \A z \in Visible(t) : zone[z].poly \in Components(t) /\ f[zone[z].poly] = z
  <2> SUFFICES ASSUME NEW z \in Visible(t)
               PROVE  zone[z].poly \in Components(t) /\ f[zone[z].poly] = z
    OBVIOUS
  <2>1. zone[z].poly \in Components(t)
    BY <1>1
  <2>2. f[zone[z].poly] \in Visible(t) /\ zone[f[zone[z].poly]].poly = zone[z].poly
    BY <1>4, <2>1
  <2> QED
    BY <1>3, <2>1, <2>2
<1>6. f \in Bijection(Components(t), Visible(t))
  <2>1. f \in [Components(t) -> Visible(t)]
    BY <1>4
  <2> HIDE DEF f
  <2>2. f \in Injection(Components(t), Visible(t))
    BY <1>4, <2>1 DEF Injection, IsInjective
  <2>3. f \in Surjection(Components(t), Visible(t))
    BY <1>5, <2>1 DEF Surjection
  <2> QED
    BY <2>2, <2>3 DEF Bijection
<1>7. Cardinality(Visible(t)) = Cardinality(Components(t))
  BY <1>2, <1>6, FS_Bijection DEF ExistsBijection
<1> QED
  BY <1>1, <1>7 DEF Current

LEMMA SettledCurrent ==
  ASSUME Base, Owned, Settled
  PROVE  ZonesCurrent
<1> SUFFICES ASSUME NEW t \in Tech, t \notin owed, ~ Rebuilding(t)
             PROVE  Current(t)
  BY DEF ZonesCurrent
<1>1. ~ Pending(t) /\ \A p \in Proc : t \notin job[p].held
  BY DEF Rebuilding, Pending
<1> QED
  BY <1>1, CurrentShown DEF Settled, UpToDate

\* A step that leaves the coverage and the zones of a technology alone.
LEMMA ShownSame ==
  ASSUME NEW zs, NEW after, NEW t,
         \A z \in Zone : Used(zs[z], t) \/ Used(after[z], t) => after[z] = zs[z]
  PROVE  Shown(after, t) = Shown(zs, t)
<1>1. \A z \in Zone : after[z].state = "visible" /\ after[z].tech = t
                        <=> zs[z].state = "visible" /\ zs[z].tech = t
  BY DEF Used
<1>2. \A z \in Zone : zs[z].state = "visible" /\ zs[z].tech = t => after[z] = zs[z]
  BY DEF Used
<1> QED
  BY <1>1, <1>2 DEF Shown

LEMMA SeenSame ==
  ASSUME NEW q \in Proc, NEW t \in Tech, live' = live, job'[q].rows = job[q].rows,
         \A a \in Address : offering'[t][a] = offering[t][a], live \subseteq Address
  PROVE  Seen(q, t)' = Seen(q, t)
<1>1. \A a \in Address : Rows(q)'[t][a] = Rows(q)[t][a]
  BY DEF Rows
<1> QED
  BY <1>1 DEF Seen

Alone(q, t) ==
  /\ At(job'[q], t) <=> At(job[q], t)
  /\ At(job[q], t) =>
       /\ job'[q].comps = job[q].comps
       /\ job'[q].pc = "flush" =>
            \A z \in job'[q].loaded \ job'[q].hidden : zone'[z].state = "visible"
  /\ Shown(Zones(q), t)' = Shown(Zones(q), t)
  /\ Seen(q, t)' = Seen(q, t)

LEMMA Undisturbed ==
  ASSUME NEW t \in Tech, UpToDate(t),
         \A q \in Proc : t \in job'[q].held <=> t \in job[q].held,
         \A q \in Proc : t \in job[q].held => Alone(q, t),
         (\A q \in Proc : t \notin job[q].held) =>
            Shown(zone, t)' = Shown(zone, t) /\ Components(t)' = Components(t)
  PROVE  UpToDate(t)'
<1>1. ASSUME NEW q \in Proc, t \in job'[q].held  PROVE Fit(q, t)'
  <2>1. Fit(q, t) /\ Alone(q, t)
    BY <1>1 DEF UpToDate
  <2>2. CASE At(job[q], t)
    BY <2>1, <2>2 DEF Fit, Alone, At, Rebuilds
  <2>3. CASE ~ At(job[q], t)
    BY <2>1, <2>3 DEF Fit, Alone, At, Rebuilds
  <2> QED
    BY <2>2, <2>3
<1>2. (\A q \in Proc : t \notin job'[q].held) => Shown(zone, t)' = Components(t)'
  BY DEF UpToDate
<1> QED
  BY <1>1, <1>2 DEF UpToDate

\* A transaction that did not move, in a step that leaves the technology alone.
LEMMA OtherAlone ==
  ASSUME Base, Base', Owned, NEW q \in Proc, NEW t \in Tech, t \in job[q].held,
         job'[q] = job[q], live' = live, Fit(q, t),
         \A a \in Address : offering'[t][a] = offering[t][a],
         \A z \in Zone : Used(zone[z], t) => zone'[z] = zone[z],
         \A z \in Zone : Used(Zones(q)[z], t) \/ Used(Zones(q)'[z], t) =>
                           Zones(q)'[z] = Zones(q)[z]
  PROVE  Alone(q, t)
<1>1. job[q] \in Job /\ JobSound(job[q]) /\ ReadIsFresh(job[q]) /\ live \subseteq Address
  BY DEF Base, TypeOK, Owned, OwnedBy
<1>2. Seen(q, t)' = Seen(q, t)
  BY <1>1, SeenSame
<1>3. Shown(Zones(q), t)' = Shown(Zones(q), t)
  BY ShownSame
<1>4. ASSUME At(job[q], t), job[q].pc = "flush", NEW z \in job[q].loaded \ job[q].hidden
      PROVE  zone'[z].state = "visible"
  <2>1. z \in Zone /\ Used(zone[z], t)
    BY <1>1, <1>4 DEF ReadIsFresh, At
  <2> QED
    BY <1>4, <2>1 DEF Fit
<1> QED
  BY <1>2, <1>3, <1>4 DEF Alone

\* A step of one transaction that writes no row another sees.
LEMMA OwnUpToDate ==
  ASSUME Base, Base', Owned, NEW p \in Proc, NEW t \in Tech, UpToDate(t),
         \A q \in Proc \ {p} : job'[q] = job[q], live' = live, zone' = zone,
         \A a \in Address : offering'[t][a] = offering[t][a],
         t \in job'[p].held <=> t \in job[p].held,
         t \in job[p].held => Alone(p, t)
  PROVE  UpToDate(t)'
<1>1. ASSUME NEW q \in Proc, t \in job[q].held  PROVE Alone(q, t)
  <2>1. CASE q = p
    BY <1>1, <2>1
  <2>2. CASE q # p
    <3>1. job'[q] = job[q] /\ Fit(q, t)
      BY <1>1, <2>2 DEF UpToDate
    <3>2. Zones(q)' = Zones(q)
      BY <3>1 DEF Zones
    <3> QED
      BY <1>1, <3>1, <3>2, OtherAlone
  <2> QED
    BY <2>1, <2>2
<1>2. Shown(zone, t)' = Shown(zone, t) /\ Components(t)' = Components(t)
  <2>1. live \subseteq Address
    BY DEF Base, TypeOK
  <2>2. Coverage(t)' = Coverage(t)
    BY <2>1 DEF Coverage
  <2> QED
    BY <2>2 DEF Components, Shown
<1>3. \A q \in Proc : t \in job'[q].held <=> t \in job[q].held
  OBVIOUS
<1> QED
  BY <1>1, <1>2, <1>3, Undisturbed

Settles(t) == t \in owed \/ Pending(t) \/ UpToDate(t)

LEMMA SettledTrigger ==
  ASSUME Base, Owned, NEW p \in Proc, Trigger(p), NEW t \in Tech, Settles(t)
  PROVE  Settles(t)'
<1>1. PICK kind \in {"task", "all", "import"}, todo \in Seq(Tech), j \in Job :
        /\ Starts(p, kind, todo, j)
        /\ offering' \in [Tech -> [Address -> Status]]
        /\ \A u \in Tech, a \in Address :
             offering'[u][a] # offering[u][a] => kind = "task" /\ u \in ToSet(todo)
  BY TriggerStarts
<1>2. Base' /\ job'[p] = j /\ \A q \in Proc \ {p} : job'[q] = job[q]
  BY <1>1, StartsBase
<1>3. /\ job[p] = Idle /\ j.kind = kind /\ j.todo = todo /\ j.held = {}
      /\ live' = live /\ zone' = zone /\ owed' = owed
  BY <1>1 DEF Starts, Fresher
<1>4. Idle.held = {} /\ Idle.todo = <<>>
  BY DEF Idle
<1>5. CASE t \in owed
  BY <1>3, <1>5 DEF Settles
<1>6. CASE Pending(t)
  <2>1. PICK q \in Proc : job[q].kind = "task" /\ t \in ToSet(job[q].todo)
    BY <1>6 DEF Pending
  <2>2. q # p
    BY <1>3, <1>4, <2>1 DEF ToSet
  <2> QED
    BY <1>2, <2>1, <2>2 DEF Settles, Pending
<1>7. CASE UpToDate(t) /\ kind = "task" /\ t \in ToSet(todo)
  BY <1>2, <1>3, <1>7 DEF Settles, Pending
<1>8. CASE UpToDate(t) /\ ~ (kind = "task" /\ t \in ToSet(todo))
  <2>1. \A a \in Address : offering'[t][a] = offering[t][a]
    BY <1>1, <1>8
  <2>2. t \notin job'[p].held /\ t \notin job[p].held
    BY <1>2, <1>3, <1>4
  <2> QED
    BY <1>2, <1>3, <1>8, <2>1, <2>2, OwnUpToDate DEF Settles
<1> QED
  BY <1>5, <1>6, <1>7, <1>8 DEF Settles

LEMMA SettledAcquire ==
  ASSUME Base, Owned, NEW p \in Proc, Acquire(p), NEW t \in Tech, Settles(t)
  PROVE  Settles(t)'
<1>1. Base' /\ \A q \in Proc \ {p} : job'[q] = job[q]
  BY AcquireOutcome
<1>2. PICK u \in Tech : Acquires(p, u, job'[p])
  BY AcquireOutcome
<1>3. /\ job[p].pc = "next" /\ u \notin job[p].held
      /\ \A q \in Proc \ {p} : u \notin job[q].held
      /\ ToSet(job[p].todo) = {u} \cup ToSet(job'[p].todo)
      /\ job'[p].pc = "zones" /\ job'[p].kind = job[p].kind /\ job'[p].tech = u
      /\ job'[p].held = job[p].held \cup {u} /\ job'[p].comps = Clusters(Seen(p, u))
      /\ job'[p].rows = job[p].rows /\ job'[p].put = job[p].put
      /\ owed' = owed \ {u}
      /\ offering' = offering /\ live' = live /\ zone' = zone
  BY <1>2 DEF Acquires
<1>4. live \subseteq Address
  BY DEF Base, TypeOK
<1>5. Seen(p, t)' = Seen(p, t)
  BY <1>3, <1>4, SeenSame
<1>6. CASE t = u
  <2>1. At(job'[p], t)
    BY <1>3, <1>6 DEF At, Rebuilds
  <2>2. Fit(p, t)'
    BY <1>3, <1>5, <1>6, <2>1 DEF Fit, At, Rebuilds
  <2>3. \A q \in Proc : t \in job'[q].held <=> q = p
    BY <1>1, <1>3, <1>6
  <2>4. UpToDate(t)'
    BY <2>2, <2>3 DEF UpToDate
  <2> QED
    BY <2>4 DEF Settles
<1>7. CASE t # u /\ t \in owed
  BY <1>3, <1>7 DEF Settles
<1>8. CASE t # u /\ Pending(t)
  <2>1. PICK q \in Proc : job[q].kind = "task" /\ t \in ToSet(job[q].todo)
    BY <1>8 DEF Pending
  <2>2. job'[q].kind = "task" /\ t \in ToSet(job'[q].todo)
    BY <1>1, <1>3, <1>8, <2>1
  <2> QED
    BY <2>2 DEF Settles, Pending
<1>9. CASE t # u /\ UpToDate(t)
  <2>1. ~ At(job'[p], t) /\ ~ At(job[p], t)
    BY <1>3, <1>9 DEF At, Rebuilds
  <2>2. Zones(p)' = Zones(p)
    BY <1>3 DEF Zones
  <2>3. Alone(p, t)
    BY <1>5, <2>1, <2>2 DEF Alone, Shown
  <2> QED
    BY <1>1, <1>3, <1>9, <2>3, OwnUpToDate DEF Settles
<1> QED
  BY <1>6, <1>7, <1>8, <1>9 DEF Settles

LEMMA SettledRead ==
  ASSUME Base, Owned, Owned', NEW p \in Proc, ReadZones(p), NEW t \in Tech, Settles(t)
  PROVE  Settles(t)'
<1>1. Base' /\ (\A q \in Proc \ {p} : job'[q] = job[q]) /\ Reads(p, job'[p])
  BY ReadOutcome
<1> DEFINE j == job'[p]
<1>2. /\ job[p].pc = "zones" /\ j.pc = "flush" /\ j.kind = job[p].kind /\ j.tech = job[p].tech
      /\ j.todo = job[p].todo /\ j.held = job[p].held /\ j.comps = job[p].comps
      /\ j.hidden = {z \in j.loaded : Zones(p)[z].state = "hidden"}
      /\ j.rows = job[p].rows /\ j.put = job[p].put
      /\ owed' = owed /\ offering' = offering /\ live' = live /\ zone' = zone
  BY <1>1 DEF Reads
<1>3. live \subseteq Address /\ TypeOK /\ OwnedBy(p) /\ ReadIsFresh(job[p])' /\ j \in Job
  BY <1>1 DEF Base, TypeOK, Owned, OwnedBy
<1>4. Seen(p, t)' = Seen(p, t)
  BY <1>2, <1>3, SeenSame
<1>5. Zones(p)' = Zones(p)
  BY <1>2 DEF Zones
<1>6. CASE t \in owed
  BY <1>2, <1>6 DEF Settles
<1>7. CASE Pending(t)
  <2>1. PICK q \in Proc : job[q].kind = "task" /\ t \in ToSet(job[q].todo)
    BY <1>7 DEF Pending
  <2> QED
    BY <1>1, <1>2, <2>1 DEF Settles, Pending
<1>8. CASE UpToDate(t)
  <2>1. At(j, t) <=> At(job[p], t)
    BY <1>2 DEF At, Rebuilds
  <2>2. ASSUME At(job[p], t), NEW z \in j.loaded \ j.hidden
        PROVE  zone'[z].state = "visible"
    <3>1. z \in Zone /\ Used(zone[z], t)
      BY <1>2, <1>3, <2>2 DEF ReadIsFresh, At
    <3>2. Zones(p)[z] = zone[z]
      BY <1>3, <2>2, <3>1, ViewFrame DEF OwnedBy, At
    <3>3. zone[z] \in ZoneRow
      BY <1>3, <3>1 DEF TypeOK
    <3> QED
      BY <1>2, <2>2, <3>1, <3>2, <3>3 DEF ZoneRow, Used
  <2>3. Alone(p, t)
    BY <1>2, <1>4, <1>5, <2>1, <2>2 DEF Alone, Shown
  <2> QED
    BY <1>1, <1>2, <1>8, <2>3, OwnUpToDate DEF Settles
<1> QED
  BY <1>6, <1>7, <1>8 DEF Settles

LEMMA FlushShown ==
  ASSUME Owned, Base, Base', NEW p \in Proc, NEW placed, Flushes(p, placed, job'[p]),
         \A z \in job[p].loaded \ job[p].hidden : zone[z].state = "visible"
  PROVE  Shown(Zones(p)', job[p].tech) = job[p].comps
<1> DEFINE j == job[p]
           t == j.tech
           after == Zones(p)'
<1>1. /\ \A c \in j.comps : \E s \in {"visible", "hidden"} :
           /\ after[placed[c]] = [state |-> s, tech |-> t, poly |-> c]
           /\ placed[c] \notin j.loaded \/ placed[c] \in j.hidden
                \/ zone[placed[c]].state = "visible" => s = "visible"
      /\ \A z \in j.loaded : Vacated(p, placed, z) => after[z].state = "hidden"
      /\ \A z \in Zone : Kept(p, placed, z) => after[z] = Zones(p)[z] /\ ~ Used(after[z], t)
  BY FlushView DEF Flushed
<1>2. Places(p, placed)
  BY DEF Flushes
<1> HIDE DEF after, t
<1>3. ASSUME NEW c \in j.comps
      PROVE  /\ placed[c] \in Zone
             /\ after[placed[c]].state = "visible" /\ after[placed[c]].tech = t
             /\ after[placed[c]].poly = c
  <2>1. PICK s \in {"visible", "hidden"} :
           /\ after[placed[c]] = [state |-> s, tech |-> t, poly |-> c]
           /\ placed[c] \notin j.loaded \/ placed[c] \in j.hidden
                \/ zone[placed[c]].state = "visible" => s = "visible"
    BY <1>1
  <2> QED
    BY <1>2, <2>1 DEF Places
<1>4. j.comps \subseteq Shown(after, t)
  <2> SUFFICES ASSUME NEW c \in j.comps  PROVE c \in Shown(after, t)
    OBVIOUS
  <2> DEFINE z == placed[c]
  <2>1. z \in Zone /\ after[z].state = "visible" /\ after[z].tech = t /\ after[z].poly = c
    BY <1>3
  <2> HIDE DEF z
  <2> QED
    BY <2>1 DEF Shown
<1>5. Shown(after, t) \subseteq j.comps
  <2> SUFFICES ASSUME NEW z \in Zone, after[z].state = "visible", after[z].tech = t
               PROVE  after[z].poly \in j.comps
    BY DEF Shown
  <2>1. ~ Vacated(p, placed, z)
    BY <1>1 DEF Kept, Used
  <2>2. PICK c \in j.comps : placed[c] = z
    BY <2>1 DEF Vacated
  <2>3. after[placed[c]].poly = c
    BY <1>3
  <2> QED
    BY <2>2, <2>3
<1> QED
  BY <1>4, <1>5 DEF after, t

\* The zones of the other technologies are not touched.
LEMMA FlushOthers ==
  ASSUME Owned, Base, Base', NEW p \in Proc, NEW placed, Flushes(p, placed, job'[p]),
         NEW t \in Tech, t # job[p].tech, NEW z \in Zone,
         Used(Zones(p)[z], t) \/ Used(Zones(p)'[z], t)
  PROVE  Zones(p)'[z] = Zones(p)[z]
<1> DEFINE j == job[p]
           after == Zones(p)'
<1>1. /\ \A c \in j.comps : \E s \in {"visible", "hidden"} :
           after[placed[c]] = [state |-> s, tech |-> j.tech, poly |-> c]
      /\ \A x \in j.loaded : Vacated(p, placed, x) => after[x].tech = j.tech
      /\ \A x \in Zone : Kept(p, placed, x) => after[x] = Zones(p)[x]
  BY FlushView DEF Flushed
<1>2. /\ Places(p, placed) /\ ReadIsFresh(j) /\ TypeOK /\ Writes(p, z) /\ j.pc = "flush"
      /\ j \in Job /\ JobSound(j)
  BY DEF Flushes, Owned, OwnedBy, Base, TypeOK
<1>3. /\ j.tech \in Tech /\ Rebuilds(j)
      /\ j.loaded = {x \in Zone : Used(zone[x], j.tech)}
  BY <1>2 DEF JobSound, Rebuilds, Job, ReadIsFresh
<1>4. ASSUME z \in j.loaded  PROVE ~ Used(Zones(p)[z], t)
  BY <1>2, <1>3, <1>4, ViewFrame DEF Used
<1>5. ASSUME z \in Unused  PROVE ~ Used(Zones(p)[z], t)
  BY <1>2, <1>5, UnusedZones DEF Used
<1> HIDE DEF after
<1>6. CASE Vacated(p, placed, z) /\ z \notin j.loaded
  BY <1>1, <1>6 DEF Kept, after
<1>7. CASE Vacated(p, placed, z) /\ z \in j.loaded
  BY <1>1, <1>4, <1>7 DEF Used, after
<1>8. CASE \E c \in j.comps : placed[c] = z
  <2>1. PICK c \in j.comps : placed[c] = z
    BY <1>8
  <2>2. PICK s \in {"visible", "hidden"} :
           after[placed[c]] = [state |-> s, tech |-> j.tech, poly |-> c]
    BY <1>1
  <2>3. z \in j.loaded \/ z \in Unused
    BY <1>2, <2>1 DEF Places
  <2>4. after[z].tech = j.tech
    BY <2>1, <2>2
  <2> QED
    BY <1>4, <1>5, <2>3, <2>4 DEF Used, after
<1> QED
  BY <1>6, <1>7, <1>8 DEF Vacated

LEMMA SettledFlush ==
  ASSUME Base, Owned, NEW p \in Proc, Flush(p), NEW t \in Tech, Settles(t)
  PROVE  Settles(t)'
<1>1. Base' /\ \A q \in Proc \ {p} : job'[q] = job[q]
  BY FlushOutcome
<1>2. PICK placed : Flushes(p, placed, job'[p])
  BY FlushOutcome
<1> DEFINE j == job'[p]
<1>3. /\ job[p].pc = "flush" /\ j.pc = "next" /\ j.kind = job[p].kind
      /\ j.todo = job[p].todo /\ j.held = job[p].held /\ j.rows = job[p].rows
      /\ owed' = owed /\ offering' = offering /\ live' = live /\ zone' = zone
  BY <1>2 DEF Flushes
<1>4. live \subseteq Address /\ JobSound(job[p])
  BY DEF Base, TypeOK
<1>5. Seen(p, t)' = Seen(p, t)
  BY <1>3, <1>4, SeenSame
<1>6. CASE t \in owed
  BY <1>3, <1>6 DEF Settles
<1>7. CASE Pending(t)
  <2>1. PICK q \in Proc : job[q].kind = "task" /\ t \in ToSet(job[q].todo)
    BY <1>7 DEF Pending
  <2> QED
    BY <1>1, <1>3, <2>1 DEF Settles, Pending
<1>8. CASE UpToDate(t) /\ t = job[p].tech
  <2>1. At(job[p], t) /\ t \in job[p].held /\ ~ At(j, t)
    BY <1>3, <1>4, <1>8 DEF At, Rebuilds, JobSound
  <2>2. Fit(p, t)
    BY <1>8, <2>1 DEF UpToDate
  <2>3. Shown(Zones(p)', t) = Clusters(Seen(p, t))
    BY <1>1, <1>2, <1>3, <1>8, <2>1, <2>2, FlushShown DEF Fit
  <2>4. Fit(p, t)'
    BY <1>5, <2>1, <2>3 DEF Fit, At, Rebuilds, Shown
  <2>5. \A q \in Proc : t \in job'[q].held <=> q = p
    BY <1>1, <1>3, <2>1 DEF Base, Exclusive
  <2>6. UpToDate(t)'
    BY <2>4, <2>5 DEF UpToDate
  <2> QED
    BY <2>6 DEF Settles
<1>9. CASE UpToDate(t) /\ t # job[p].tech
  <2>1. ~ At(job[p], t) /\ ~ At(j, t)
    BY <1>3, <1>9 DEF At, Rebuilds
  <2>2. \A z \in Zone : Used(Zones(p)[z], t) \/ Used(Zones(p)'[z], t) =>
                          Zones(p)'[z] = Zones(p)[z]
    BY <1>1, <1>2, <1>9, FlushOthers
  <2>3. Shown(Zones(p)', t) = Shown(Zones(p), t)
    BY <2>2, ShownSame
  <2>4. Alone(p, t)
    BY <1>5, <2>1, <2>3 DEF Alone, Shown
  <2> QED
    BY <1>1, <1>3, <1>9, <2>4, OwnUpToDate DEF Settles
<1> QED
  BY <1>6, <1>7, <1>8, <1>9 DEF Settles

LEMMA SettledCommit ==
  ASSUME Base, Owned, NEW p \in Proc, Commit(p), NEW t \in Tech, Settles(t)
  PROVE  Settles(t)'
<1>1. /\ Base' /\ (\A q \in Proc \ {p} : job'[q] = job[q]) /\ job'[p] = Idle
      /\ job[p].pc = "next" /\ ToSet(job[p].todo) = {}
      /\ offering' = Rows(p) /\ zone' = Zones(p)
      /\ live' = live /\ owed' = owed
  BY CommitOutcome
<1>2. /\ TypeOK /\ JobSound(job[p]) /\ \A z \in Zone, q \in Proc : Writes(q, z)
  BY DEF Base, Owned, OwnedBy
<1>3. Idle.held = {}
  BY DEF Idle
<1>4. CASE t \in owed
  BY <1>1, <1>4 DEF Settles
<1>5. CASE Pending(t)
  <2>1. PICK q \in Proc : job[q].kind = "task" /\ t \in ToSet(job[q].todo)
    BY <1>5 DEF Pending
  <2>2. q # p
    BY <1>1, <2>1
  <2> QED
    BY <1>1, <2>1, <2>2 DEF Settles, Pending
<1>6. CASE UpToDate(t) /\ t \in job[p].held
  <2>1. ~ At(job[p], t)
    BY <1>1 DEF At, Rebuilds
  <2>2. Shown(Zones(p), t) = Clusters(Seen(p, t))
    BY <1>6, <2>1 DEF UpToDate, Fit
  <2>3. Shown(zone, t)' = Shown(Zones(p), t)
    BY <1>1 DEF Shown
  <2>4. Components(t)' = Clusters(Seen(p, t))
    <3>1. Coverage(t)' = Seen(p, t)
      BY <1>1 DEF Coverage, Seen
    <3> QED
      BY <3>1 DEF Components
  <2>5. \A q \in Proc : t \notin job'[q].held
    BY <1>1, <1>3, <1>6 DEF Base, Exclusive
  <2>6. UpToDate(t)'
    BY <2>2, <2>3, <2>4, <2>5 DEF UpToDate
  <2> QED
    BY <2>6 DEF Settles
<1>7. CASE UpToDate(t) /\ t \notin job[p].held
  <2>1. \A a \in Address : offering'[t][a] = offering[t][a]
    BY <1>1, <1>2, <1>7, Views DEF JobSound
  <2>2. \A z \in Zone : Used(zone[z], t) \/ Used(Zones(p)[z], t) => zone'[z] = zone[z]
    BY <1>1, <1>2, <1>7, ViewFrame
  <2>3. ASSUME NEW q \in Proc, t \in job[q].held  PROVE Alone(q, t)
    <3>1. q # p /\ job'[q] = job[q] /\ Fit(q, t)
      BY <1>1, <1>7, <2>3 DEF UpToDate
    <3>2. ASSUME NEW z \in Zone, Used(Zones(q)[z], t) \/ Used(Zones(q)'[z], t)
          PROVE  Zones(q)'[z] = Zones(q)[z]
      BY <1>1, <1>2, <1>7, <3>1, <3>2, CommitFrame
    <3> QED
      BY <1>1, <2>1, <2>2, <2>3, <3>1, <3>2, OtherAlone
  <2>4. Shown(zone, t)' = Shown(zone, t)
    <3>1. \A z \in Zone : Used(zone[z], t) \/ Used(zone'[z], t) => zone'[z] = zone[z]
      BY <1>1, <2>2
    <3>2. Shown(zone', t) = Shown(zone, t)
      BY <3>1, ShownSame
    <3> QED
      BY <3>2 DEF Shown
  <2>5. Components(t)' = Components(t)
    <3>1. Coverage(t)' = Coverage(t)
      BY <1>1, <1>2, <2>1 DEF Coverage, TypeOK
    <3> QED
      BY <3>1 DEF Components
  <2>6. \A q \in Proc : t \in job'[q].held <=> t \in job[q].held
    BY <1>1, <1>3, <1>7
  <2>7. UpToDate(t)'
    BY <1>7, <2>3, <2>4, <2>5, <2>6, Undisturbed
  <2> QED
    BY <2>7 DEF Settles
<1> QED
  BY <1>4, <1>5, <1>6, <1>7 DEF Settles

LEMMA SettledFail ==
  ASSUME Base, Owned, NEW p \in Proc, Fail(p), NEW t \in Tech, Settles(t)
  PROVE  Settles(t)'
<1>1. Base' /\ (\A q \in Proc \ {p} : job'[q] = job[q]) /\ Fails(p)
  BY FailOutcome
<1>2. /\ job'[p] = Idle
      /\ owed' = owed \cup job[p].held
                      \cup (IF job[p].kind = "task" THEN ToSet(job[p].todo) ELSE {})
      /\ offering' = offering /\ live' = live /\ zone' = zone
  BY <1>1 DEF Fails
<1>3. CASE t \in owed \/ t \in job[p].held \/ (job[p].kind = "task" /\ t \in ToSet(job[p].todo))
  BY <1>2, <1>3 DEF Settles
<1>4. CASE Pending(t) /\ ~ (job[p].kind = "task" /\ t \in ToSet(job[p].todo))
  BY <1>1, <1>4 DEF Settles, Pending
<1>5. CASE UpToDate(t) /\ t \notin job[p].held
  <2>1. t \notin job'[p].held
    BY <1>2 DEF Idle
  <2> QED
    BY <1>1, <1>2, <1>5, <2>1, OwnUpToDate DEF Settles
<1> QED
  BY <1>3, <1>4, <1>5 DEF Settles

LEMMA SettledHide ==
  ASSUME Base, Owned, NEW y \in Zone, HideZone(y), NEW t \in Tech, Settles(t)
  PROVE  Settles(t)'
<1>1. /\ Base' /\ zone' = [zone EXCEPT ![y] = HiddenRow(zone[y])]
      /\ zone[y].tech \in Tech /\ \A p \in Proc : job[p].put[y] = None
      /\ owed' = owed \cup {zone[y].tech}
      /\ offering' = offering /\ live' = live /\ job' = job
  BY HideOutcome
<1>2. /\ \A z \in Zone \ {y} : zone'[z] = zone[z]
      /\ zone'[y].tech = zone[y].tech
  BY <1>1 DEF HiddenRow, Base, TypeOK, ZoneRow
<1>3. CASE t \in owed \/ t = zone[y].tech
  BY <1>1, <1>3 DEF Settles
<1>4. CASE Pending(t)
  BY <1>1, <1>4 DEF Settles, Pending
<1>5. CASE UpToDate(t) /\ t # zone[y].tech
  <2>1. \A z \in Zone : Used(zone[z], t) \/ Used(zone'[z], t) => zone'[z] = zone[z]
    BY <1>2, <1>5 DEF Used
  <2>2. ASSUME NEW q \in Proc, t \in job[q].held  PROVE Alone(q, t)
    <3>1. ASSUME NEW z \in Zone, Used(Zones(q)[z], t) \/ Used(Zones(q)'[z], t)
          PROVE  Zones(q)'[z] = Zones(q)[z]
      BY <1>1, <2>1, <3>1 DEF Zones, Over
    <3>2. Fit(q, t) /\ job'[q] = job[q]
      BY <1>1, <1>5, <2>2 DEF UpToDate
    <3> QED
      BY <1>1, <2>1, <2>2, <3>1, <3>2, OtherAlone
  <2>3. Shown(zone, t)' = Shown(zone, t)
    <3>1. Shown(zone', t) = Shown(zone, t)
      BY <2>1, ShownSame
    <3> QED
      BY <3>1 DEF Shown
  <2>4. Components(t)' = Components(t)
    BY <1>1 DEF Components, Coverage
  <2>5. UpToDate(t)'
    BY <1>1, <1>5, <2>2, <2>3, <2>4, Undisturbed
  <2> QED
    BY <2>5 DEF Settles
<1> QED
  BY <1>3, <1>4, <1>5 DEF Settles

LEMMA SettledSync ==
  ASSUME Base, Owned, NEW a \in Synced, SyncAddress(a), NEW t \in Tech, Settles(t)
  PROVE  Settles(t)'
<1>1. /\ live' = IF a \in live THEN live \ {a} ELSE live \cup {a}
      /\ owed' = owed \cup {u \in Tech : \/ offering[u][a] = "available"
                                         \/ \E p \in Proc : job[p].rows[u][a] = "available"}
      /\ offering' = offering /\ zone' = zone /\ job' = job /\ a \in Address
  BY SyncedAssumption DEF SyncAddress
<1>2. TypeOK
  BY DEF Base
<1>3. CASE t \in owed'
  BY <1>3 DEF Settles
<1>4. CASE t \notin owed' /\ Pending(t)
  BY <1>1, <1>4 DEF Settles, Pending
<1>5. CASE t \notin owed' /\ UpToDate(t)
  <2>1. offering[t][a] # "available" /\ \A q \in Proc : Rows(q)[t][a] # "available"
    BY <1>1, <1>2, <1>5, Views
  <2>2. ASSUME NEW q \in Proc, t \in job[q].held  PROVE Alone(q, t)
    <3>1. Zones(q)' = Zones(q) /\ Rows(q)' = Rows(q)
      BY <1>1 DEF Zones, Rows
    <3>2. Seen(q, t)' = Seen(q, t)
      BY <1>1, <2>1, <3>1 DEF Seen
    <3>3. Fit(q, t)
      BY <1>5, <2>2 DEF UpToDate
    <3> QED
      BY <1>1, <3>1, <3>2, <3>3 DEF Alone, At, Rebuilds, Shown, Fit
  <2>3. Shown(zone, t)' = Shown(zone, t)
    BY <1>1 DEF Shown
  <2>4. Components(t)' = Components(t)
    <3>1. Coverage(t)' = Coverage(t)
      BY <1>1, <2>1 DEF Coverage
    <3> QED
      BY <3>1 DEF Components
  <2>5. UpToDate(t)'
    BY <1>1, <1>5, <2>2, <2>3, <2>4, Undisturbed
  <2> QED
    BY <2>5 DEF Settles
<1> QED
  BY <1>1, <1>3, <1>4, <1>5 DEF Settles

LEMMA SettledInit == Init => Settled
<1> SUFFICES ASSUME Init, NEW t \in Tech  PROVE UpToDate(t)
  BY DEF Settled
<1>1. \A p \in Proc : t \notin job[p].held
  BY DEF Init, Idle
<1>2. Shown(zone, t) = {}
  BY DEF Init, NoZone, Shown
<1>3. Components(t) = {}
  <2>1. Coverage(t) = {}
    BY DEF Init, Coverage
  <2> QED
    BY <2>1 DEF Components, Clusters
<1> QED
  BY <1>1, <1>2, <1>3 DEF UpToDate

LEMMA SettledStep ==
  ASSUME HideOnly, Base, Owned, Settled, [Next]_vars
  PROVE  Settled'
<1> SUFFICES ASSUME NEW t \in Tech  PROVE Settles(t)'
  BY DEF Settled, Settles, Pending
<1>1. Settles(t) /\ Owned'
  BY OwnedStep DEF Settled, Settles
<1>2. ASSUME NEW p \in Proc, Rebuild(p)  PROVE Settles(t)'
  BY <1>1, <1>2, SettledAcquire, SettledRead, SettledFlush, SettledCommit DEF Rebuild
<1>3. ASSUME NEW p \in Proc, Fail(p) \/ DeadlockAbort(p)  PROVE Settles(t)'
  BY <1>1, <1>3, SettledFail DEF DeadlockAbort
<1>4. CASE HandEdit
  BY <1>1, <1>4, SettledHide DEF HandEdit, HideOnly, DeleteZoneOffering, CreateZoneOffering
<1>5. CASE UNCHANGED vars
  <2>1. /\ offering' = offering /\ live' = live /\ zone' = zone /\ job' = job /\ owed' = owed
    BY <1>5 DEF vars
  <2>2. Shown(zone, t)' = Shown(zone, t) /\ Components(t)' = Components(t)
    BY <2>1 DEF Shown, Components, Coverage
  <2>3. ASSUME NEW q \in Proc, UpToDate(t), t \in job[q].held  PROVE Alone(q, t)
    <3>1. Zones(q)' = Zones(q) /\ Rows(q)' = Rows(q)
      BY <2>1 DEF Zones, Rows
    <3>2. Fit(q, t)
      BY <2>3 DEF UpToDate
    <3> QED
      BY <2>1, <3>1, <3>2 DEF Alone, At, Rebuilds, Shown, Fit, Seen
  <2>4. UpToDate(t) => UpToDate(t)'
    BY <2>1, <2>2, <2>3, Undisturbed
  <2> QED
    BY <1>1, <2>1, <2>4 DEF Settles, Pending
<1> QED
  BY <1>1, <1>2, <1>3, <1>4, <1>5, SettledTrigger, SettledSync DEF Next

\* Once no rebuild of a technology is pending or running, its visible zones are the areas
\* its offerings cover, each once, whatever the order in which concurrent changes, imports
\* and rebuilds took their lock, read and committed.
THEOREM ZonesCurrentCorrect ==
  ASSUME HideOnly
  PROVE  Spec => []ZonesCurrent
<1>1. Init => Base /\ Owned /\ Settled
  BY BaseInit, OwnedInit, SettledInit
<1>2. Base /\ Owned /\ Settled /\ [Next]_vars => Base' /\ Owned' /\ Settled'
  BY BaseStep, OwnedStep, SettledStep
<1>3. Base /\ Owned /\ Settled => ZonesCurrent
  BY SettledCurrent
<1> QED
  BY <1>1, <1>2, <1>3, PTL DEF Spec
=============================================================================
