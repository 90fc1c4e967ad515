------------------------- MODULE RegisterSyncProofs -------------------------
(***************************************************************************)
(* Theorems about RegisterSync for every set of addresses, any number of   *)
(* overlapping runs, every log, number of failed lookups and lag.          *)
(***************************************************************************)
EXTENDS RegisterSync, WellFoundedInduction, SequenceTheorems, TLAPS

-----------------------------------------------------------------------------
(* A log, a row and a set of lost changes: what of the log the row shows.  *)

\* The changes of an address in a log, up to a position.
At(log, a, kinds, n) ==
  {c \in 1..Len(log) : c <= n /\ log[c].kind \in kinds /\ log[c].code = a}

\* A building has an address first.
Ordered(log) ==
  \A c \in 1..Len(log) : log[c].kind \in Pastatas =>
    \E e \in 1..(c - 1) : log[e] = [kind |-> "enlist", code |-> log[c].code]

Latest(log, a, n) == Last(At(log, a, Pastatas, n))

Stands(log, a, n) ==
  /\ At(log, a, {"enlist"}, n) # {}
  /\ At(log, a, {"strike"}, n) = {}
  /\ Latest(log, a, n) # 0
  /\ log[Latest(log, a, n)].kind # "raze"

Text(log, a, n) == Last(At(log, a, Full \cup {"patch"}, n))

IsLive(row) == row # None /\ ~ row.deleted

Agrees(log, row, a, n) ==
  /\ IsLive(row) = Stands(log, a, n)
  /\ IsLive(row) => row.ver = Text(log, a, n)

Struck(log, a) == At(log, a, {"strike"}, Len(log)) # {}

\* The last change up to k is lost, or the row shows a position no earlier than k.
Shows(log, row, gone, a, k) ==
  Latest(log, a, k) \in gone \/ \E n \in k..Len(log) : Agrees(log, row, a, n)

\* The cursor a run that fetched its streams from a log saves.
CidIn(log, s) ==
  Max({c \in 1..Len(log) : /\ s.since <= c
                           /\ \/ log[c].kind \in Adresas /\ c <= s.adresas
                              \/ log[c].kind \in Pastatas /\ c <= s.pastatas}
      \cup {s.since})

ShowsUpTo(log, row, gone, a, m) ==
  Struck(log, a) \/ \A k \in 0..m : Shows(log, row, gone, a, k)

DeadUpTo(log, row, gone, a, m) ==
  \A c \in At(log, a, {"strike"}, m) : c \in gone \/ ~ IsLive(row)

-----------------------------------------------------------------------------
(* The inductive invariant *)

LogSound == Ordered(changes)

SyncSound(s) ==
  /\ s.since <= Len(changes) /\ s.adresas <= Len(changes) /\ s.pastatas <= Len(changes)
  /\ s.pc \in {"delete", "upsert", "cid"} => s.adresas <= s.pastatas

PositionsSound ==
  /\ adresai_cid <= Len(changes)
  /\ places <= Len(changes)
  /\ resync.at <= Len(changes)
  /\ \A p \in Run : SyncSound(sync[p])

ResyncSound ==
  /\ \A a \in resync.todo : Stands(changes, a, resync.at)
  /\ resync.pc = "mark" => resync.marks /\ resync.todo = {}

Base == TypeOK /\ LogSound /\ PositionsSound /\ ResyncSound

\* What a resync has seen is as in its files, unless a nightly sync wrote it.
Mirrored ==
  resync.marks =>
    /\ \A a \in Address : Stands(changes, a, resync.at) => a \in resync.todo \cup resync.seen
    /\ \A a \in resync.seen \ resync.written :
         /\ Stands(changes, a, resync.at)
         /\ IsLive(addresses[a])
         /\ addresses[a].ver = Text(changes, a, resync.at)

Dead(a, m) == DeadUpTo(changes, addresses[a], lost, a, m)

DeadInv ==
  \A a \in Address :
    /\ Dead(a, adresai_cid)
    /\ \A p \in Run :
         /\ Dead(a, sync[p].since)
         /\ sync[p].pc \in {"upsert", "cid"} => Dead(a, sync[p].adresas)

Shown(a, m) == ShowsUpTo(changes, addresses[a], lost, a, m)

ShownInv ==
  \A a \in Address :
    /\ Shown(a, adresai_cid)
    /\ \A p \in Run :
         /\ Shown(a, sync[p].since)
         /\ sync[p].pc = "cid" => Shown(a, CidIn(changes, sync[p]))
    /\ Stands(changes, a, resync.at) /\ a \notin resync.todo => Shown(a, resync.at)
-----------------------------------------------------------------------------
(* Greatest elements *)

\* A set of positions with a bound has a greatest element.
LEMMA MaxExists ==
  ASSUME NEW S \in SUBSET Nat, S # {}, NEW n \in Nat, \A x \in S : x <= n
  PROVE  Max(S) \in S /\ \A x \in S : x <= Max(S)
<1> DEFINE Below == OpToRel(<, Nat)
           Bounds == {b \in Nat : \A x \in S : x <= b}
<1>a. IsWellFoundedOn(Below, Nat)
  BY NatLessThanWellFounded
<1>b. \A y, b \in Nat : y < b => <<y, b>> \in Below
  BY DEF OpToRel
<1> HIDE DEF Below
<1>1. PICK b \in Bounds : \A y \in Bounds : ~ (<<y, b>> \in Below)
  <2>1. n \in Bounds /\ Bounds \subseteq Nat
    OBVIOUS
  <2> HIDE DEF Bounds
  <2> QED
    BY <2>1, <1>a, WFMin
<1>2. ASSUME NEW y \in Bounds PROVE b <= y
  <2>1. b \in Nat /\ y \in Nat
    OBVIOUS
  <2>2. ~ (<<y, b>> \in Below)
    BY <1>1
  <2>3. y < b => <<y, b>> \in Below
    BY <1>b, <2>1
  <2> QED
    BY <2>1, <2>2, <2>3
<1>3. b \in S
  <2> SUFFICES ASSUME b \notin S PROVE FALSE
    OBVIOUS
  <2>1. b # 0
    <3>1. PICK x \in S : x \in Nat
      BY S # {}
    <3> QED
      BY <3>1
  <2>2. b - 1 \in Bounds
    BY <2>1
  <2> QED
    BY <1>2, <2>2
<1> QED
  BY <1>3 DEF Max

LEMMA LastProperties ==
  ASSUME NEW S \in SUBSET Nat, NEW n \in Nat, \A x \in S : x <= n
  PROVE  /\ Last(S) \in Nat /\ Last(S) <= n
         /\ Last(S) \in S \cup {0}
         /\ \A x \in S : x <= Last(S)
         /\ Last(S) = 0 => S \subseteq {0}
<1>1. S \cup {0} \in SUBSET Nat /\ S \cup {0} # {} /\ \A x \in S \cup {0} : x <= n
  OBVIOUS
<1>2. Last(S) \in S \cup {0} /\ \A x \in S \cup {0} : x <= Last(S)
  BY <1>1, MaxExists DEF Last
<1>3. \A x \in S \cup {0} : x \in Nat /\ x <= n
  BY <1>1
<1>4. Last(S) \in Nat /\ Last(S) <= n /\ \A x \in S : x <= Last(S)
  BY <1>2, <1>3
<1>5. Last(S) = 0 => S \subseteq {0}
  <2> SUFFICES ASSUME Last(S) = 0, NEW x \in S PROVE x = 0
    OBVIOUS
  <2> QED
    BY <1>3, <1>4
<1> QED
  BY <1>2, <1>4, <1>5

\* The greatest element is one that is.
LEMMA LastIs ==
  ASSUME NEW S \in SUBSET Nat, NEW d \in S, \A x \in S : x <= d
  PROVE  Last(S) = d
<1>1. Last(S) \in Nat /\ Last(S) \in S \cup {0} /\ \A x \in S : x <= Last(S)
  <2>1. d \in Nat
    OBVIOUS
  <2> QED
    BY <2>1, LastProperties
<1> QED
  <2>1. d \in Nat /\ Last(S) \in Nat
    BY <1>1
  <2>2. d <= Last(S)
    BY <1>1
  <2>3. Last(S) \in S => Last(S) <= d
    OBVIOUS
  <2>4. Last(S) = 0 \/ Last(S) \in S
    BY <1>1
  <2> QED
    BY <2>1, <2>2, <2>3, <2>4
-----------------------------------------------------------------------------
(* Logs *)

LEMMA AtBounds ==
  ASSUME NEW log \in Seq(Change), NEW a, NEW kinds, NEW n \in Nat
  PROVE  /\ At(log, a, kinds, n) \in SUBSET Nat
         /\ \A c \in At(log, a, kinds, n) : c <= n /\ c # 0 /\ c <= Len(log)
  BY DEF At

LEMMA LastAt ==
  ASSUME NEW log \in Seq(Change), NEW a, NEW kinds, NEW n \in Nat
  PROVE  LET l == Last(At(log, a, kinds, n)) IN
         /\ l \in Nat /\ l <= n /\ l <= Len(log)
         /\ l # 0 => l \in At(log, a, kinds, n)
         /\ \A c \in At(log, a, kinds, n) : c <= l /\ l # 0
<1> DEFINE S == At(log, a, kinds, n)
           l == Last(S)
<1>1. S \in SUBSET Nat /\ \A c \in S : c \in Nat /\ c <= n /\ c # 0 /\ c <= Len(log)
  BY AtBounds
<1>2. Len(log) \in Nat
  OBVIOUS
<1> HIDE DEF S
<1>3. l \in Nat /\ l <= n /\ l \in S \cup {0} /\ \A c \in S : c <= l
  BY <1>1, LastProperties
<1>4. l # 0 => l \in S
  BY <1>3
<1> HIDE DEF l
<1>5. l <= Len(log)
  BY <1>1, <1>2, <1>3, <1>4
<1>6. \A c \in S : c <= l /\ l # 0
  BY <1>1, <1>3
<1> QED
  BY <1>3, <1>4, <1>5, <1>6 DEF l, S

\* What is appended changes nothing up to the old end.
LEMMA AtAppend ==
  ASSUME NEW log \in Seq(Change), NEW change \in Change, NEW a, NEW kinds,
         NEW n \in Nat, n <= Len(log)
  PROVE  At(Append(log, change), a, kinds, n) = At(log, a, kinds, n)
<1>1. /\ Len(Append(log, change)) = Len(log) + 1 /\ Len(log) \in Nat
      /\ \A c \in 1..Len(log) : Append(log, change)[c] = log[c]
  BY AppendProperties
<1> QED
  BY <1>1 DEF At

LEMMA AgreesAppend ==
  ASSUME NEW log \in Seq(Change), NEW change \in Change, NEW a, NEW row,
         NEW n \in Nat, n <= Len(log)
  PROVE  /\ Latest(Append(log, change), a, n) = Latest(log, a, n)
         /\ Stands(Append(log, change), a, n) = Stands(log, a, n)
         /\ Text(Append(log, change), a, n) = Text(log, a, n)
         /\ Agrees(log, row, a, n) => Agrees(Append(log, change), row, a, n)
<1> DEFINE new == Append(log, change)
<1>1. \A kinds : At(new, a, kinds, n) = At(log, a, kinds, n)
  BY AtAppend
<1>2. \A c \in 1..Len(log) : new[c] = log[c]
  BY AppendProperties
<1>3. Latest(log, a, n) # 0 => Latest(log, a, n) \in 1..Len(log)
  BY LastAt DEF Latest
<1> HIDE DEF new
<1>4. Latest(new, a, n) = Latest(log, a, n) /\ Text(new, a, n) = Text(log, a, n)
  BY <1>1 DEF Latest, Text
<1>5. Stands(new, a, n) = Stands(log, a, n)
  BY <1>1, <1>2, <1>3, <1>4 DEF Stands
<1> QED
  BY <1>4, <1>5 DEF Agrees, new

LEMMA StruckAppend ==
  ASSUME NEW log \in Seq(Change), NEW change \in Change, NEW a, Struck(log, a)
  PROVE  Struck(Append(log, change), a)
<1>1. /\ Len(Append(log, change)) = Len(log) + 1 /\ Len(log) \in Nat
      /\ \A c \in 1..Len(log) : Append(log, change)[c] = log[c]
  BY AppendProperties
<1> QED
  BY <1>1 DEF Struck, At

LEMMA ShowsAppend ==
  ASSUME NEW log \in Seq(Change), NEW change \in Change, NEW a, NEW row, NEW gone,
         NEW m \in Nat, m <= Len(log), ShowsUpTo(log, row, gone, a, m)
  PROVE  ShowsUpTo(Append(log, change), row, gone, a, m)
<1> DEFINE new == Append(log, change)
<1> SUFFICES ASSUME ~ Struck(new, a), NEW k \in 0..m PROVE Shows(new, row, gone, a, k)
  BY DEF ShowsUpTo
<1>1. Len(new) = Len(log) + 1 /\ Len(log) \in Nat
  BY AppendProperties
<1>2. Shows(log, row, gone, a, k)
  BY StruckAppend DEF ShowsUpTo
<1>3. CASE Latest(log, a, k) \in gone
  BY <1>1, <1>3, AgreesAppend DEF Shows
<1>4. ASSUME NEW n \in k..Len(log), Agrees(log, row, a, n)
      PROVE  Shows(new, row, gone, a, k)
  <2>1. n \in k..Len(new) /\ n \in Nat /\ n <= Len(log)
    BY <1>1
  <2>2. Agrees(new, row, a, n)
    BY <1>4, <2>1, AgreesAppend
  <2> QED
    BY <2>1, <2>2 DEF Shows
<1> QED
  BY <1>2, <1>3, <1>4 DEF Shows

\* What a row shows at a position it shows until the next change of the address.
LEMMA Carry ==
  ASSUME NEW log \in Seq(Change), Ordered(log), NEW a \in Address, ~ Struck(log, a), NEW row,
         NEW n \in Nat, NEW m \in Nat, n <= m, Latest(log, a, m) <= n,
         m <= Len(log), Agrees(log, row, a, n)
  PROVE  Agrees(log, row, a, m)
<1>1. At(log, a, Pastatas, n) = At(log, a, Pastatas, m)
  <2>1. \A c \in At(log, a, Pastatas, m) : c <= Latest(log, a, m)
    BY LastAt DEF Latest
  <2>2. \A c \in At(log, a, Pastatas, m) : c <= n
    BY <2>1, LastAt, AtBounds DEF Latest
  <2> QED
    BY <2>2 DEF At
<1>2. At(log, a, Full \cup {"patch"}, n) = At(log, a, Full \cup {"patch"}, m)
  <2>1. \A x : x \in Full \cup {"patch"} => x \in Pastatas
    BY DEF Full, Pastatas, Kind, Adresas
  <2> QED
    BY <1>1, <2>1 DEF At
<1>3. At(log, a, {"strike"}, n) = {} /\ At(log, a, {"strike"}, m) = {}
  BY DEF Struck, At
<1>4. Latest(log, a, n) = Latest(log, a, m) /\ Text(log, a, n) = Text(log, a, m)
  BY <1>1, <1>2 DEF Latest, Text
<1>5. ASSUME Latest(log, a, n) # 0
      PROVE  At(log, a, {"enlist"}, n) # {} /\ At(log, a, {"enlist"}, m) # {}
  <2> DEFINE c == Latest(log, a, n)
  <2>1. c \in At(log, a, Pastatas, n)
    BY <1>5, LastAt DEF Latest
  <2>2. PICK e \in 1..(c - 1) : log[e] = [kind |-> "enlist", code |-> log[c].code]
    BY <2>1 DEF Ordered, At
  <2>3. e \in At(log, a, {"enlist"}, n) /\ e \in At(log, a, {"enlist"}, m)
    BY <2>1, <2>2 DEF At
  <2> QED
    BY <2>3
<1> QED
  BY <1>3, <1>4, <1>5 DEF Agrees, Stands
-----------------------------------------------------------------------------
(* The operators of the module, read off the log of the register *)

LEMMA OfIs ==
  ASSUME NEW a, NEW kinds, NEW m, NEW n, NEW c
  PROVE  c \in Of(a, kinds, m, n) <=>
           /\ c \in 1..Len(changes) /\ m < c /\ c <= n
           /\ changes[c].kind \in kinds /\ changes[c].code = a
  BY DEF Of, Between, Now

LEMMA OfAt ==
  ASSUME TypeOK, NEW a, NEW kinds, NEW n
  PROVE  Of(a, kinds, 0, n) = At(changes, a, kinds, n)
<1>1. Len(changes) \in Nat
  BY DEF TypeOK
<1> QED
  BY <1>1 DEF Of, Between, Now, At

LEMMA RegisterIs ==
  ASSUME TypeOK, NEW a, NEW n
  PROVE  /\ InRegister(a, n) = Stands(changes, a, n)
         /\ Content(a, n) = Text(changes, a, n)
         /\ Listed(a, Len(changes)) => ~ Struck(changes, a)
<1>1. \A kinds, k : Of(a, kinds, 0, k) = At(changes, a, kinds, k)
  BY OfAt
<1>2. InRegister(a, n) = Stands(changes, a, n)
  BY <1>1 DEF InRegister, Listed, Built, Stands, Latest
<1>3. Content(a, n) = Text(changes, a, n)
  BY <1>1 DEF Content, Text
<1>4. Listed(a, Len(changes)) => ~ Struck(changes, a)
  BY <1>1 DEF Listed, Struck
<1> QED
  BY <1>2, <1>3, <1>4

LEMMA FollowsIs ==
  ASSUME TypeOK, NEW a \in Address, NEW n
  PROVE  /\ Live(a) = IsLive(addresses[a])
         /\ Follows(a, n) = Agrees(changes, addresses[a], a, n)
<1>1. Live(a) = IsLive(addresses[a])
  BY DEF Live, IsLive
<1> QED
  BY <1>1, RegisterIs DEF Follows, Agrees

\* What a run fetched, and the cursor it saves.
LEMMA FetchedIs ==
  ASSUME NEW s, s.since \in Nat, NEW c
  PROVE  c \in Fetched(s) <=>
           /\ c \in 1..Len(changes) /\ s.since <= c
           /\ \/ changes[c].kind \in Adresas /\ c <= s.adresas
              \/ changes[c].kind \in Pastatas /\ c <= s.pastatas
<1>1. c \in 1..Len(changes) => (s.since - 1 < c <=> s.since <= c)
  OBVIOUS
<1> QED
  BY <1>1 DEF Fetched, Between, Now

LEMMA MaxCidIs ==
  ASSUME TypeOK, NEW s \in Sync, SyncSound(s)
  PROVE  /\ MaxCidOf(s) \in Nat /\ MaxCidOf(s) <= Len(changes)
         /\ s.since <= MaxCidOf(s)
         /\ MaxCidOf(s) = s.since \/ MaxCidOf(s) \in Fetched(s)
         /\ \A c \in Fetched(s) : c <= MaxCidOf(s)
<1> DEFINE S == Fetched(s) \cup {s.since}
<1>1. s.since \in Nat /\ Len(changes) \in Nat /\ s.since <= Len(changes)
  BY DEF SyncSound, Sync, Position, TypeOK
<1>2. \A c \in S : c \in Nat /\ c <= Len(changes)
  BY <1>1, FetchedIs
<1>3. s.since \in S
  OBVIOUS
<1> HIDE DEF S
<1>4. Max(S) \in S /\ \A c \in S : c <= Max(S)
  BY <1>1, <1>2, <1>3, MaxExists
<1> QED
  BY <1>1, <1>2, <1>3, <1>4 DEF MaxCidOf, S

LEMMA HeadCidIs ==
  ASSUME TypeOK
  PROVE  /\ HeadCid \in Nat /\ HeadCid <= Len(changes)
         /\ HeadCid # 0 => changes[HeadCid].kind \in Adresas
<1> DEFINE S == Between(Adresas, 0, Now)
<1>1. Len(changes) \in Nat
  BY DEF TypeOK
<1>2. \A c \in S : c \in 1..Len(changes) /\ changes[c].kind \in Adresas
  BY DEF Between, Now
<1>3. S \in SUBSET Nat /\ \A c \in S : c <= Len(changes)
  BY <1>1, <1>2
<1> HIDE DEF S
<1>4. Last(S) \in Nat /\ Last(S) <= Len(changes) /\ Last(S) \in S \cup {0}
  BY <1>1, <1>3, LastProperties
<1> QED
  BY <1>2, <1>4 DEF HeadCid, S

\* No position that matters is later than Settled.
LEMMA SettledIs ==
  ASSUME TypeOK, PositionsSound
  PROVE  /\ Settled \in Nat /\ Settled <= Len(changes)
         /\ adresai_cid <= Settled /\ resync.at <= Settled
         /\ \A p \in Run : sync[p].since <= Settled /\ sync[p].pastatas <= Settled
<1> DEFINE S == {adresai_cid, resync.at} \cup UNION {{sync[p].since, sync[p].pastatas} : p \in Run}
<1>1. Len(changes) \in Nat /\ adresai_cid \in Nat /\ resync.at \in Nat
  BY DEF TypeOK, Position, Resync
<1>2. \A p \in Run : sync[p].since \in Nat /\ sync[p].pastatas \in Nat
  BY DEF TypeOK, Position, Sync
<1>3. \A c \in S : c \in Nat /\ c <= Len(changes)
  BY <1>1, <1>2 DEF PositionsSound, SyncSound
<1>4. /\ adresai_cid \in S /\ resync.at \in S
      /\ \A p \in Run : sync[p].since \in S /\ sync[p].pastatas \in S
  OBVIOUS
<1>5. Settled = Max(S)
  BY DEF Settled
<1> HIDE DEF S
<1>6. Max(S) \in S /\ \A c \in S : c <= Max(S)
  BY <1>1, <1>3, <1>4, MaxExists
<1> QED
  BY <1>3, <1>4, <1>5, <1>6
LEMMA CidIs ==
  ASSUME NEW s, s.since \in Nat
  PROVE  MaxCidOf(s) = CidIn(changes, s)
<1>1. Fetched(s) = {c \in 1..Len(changes) :
                      /\ s.since <= c
                      /\ \/ changes[c].kind \in Adresas /\ c <= s.adresas
                         \/ changes[c].kind \in Pastatas /\ c <= s.pastatas}
  BY FetchedIs
<1> QED
  BY <1>1 DEF MaxCidOf, CidIn

LEMMA CidAppend ==
  ASSUME NEW log \in Seq(Change), NEW change \in Change, NEW s \in Sync,
         s.adresas <= Len(log), s.pastatas <= Len(log)
  PROVE  CidIn(Append(log, change), s) = CidIn(log, s)
<1> DEFINE new == Append(log, change)
           Read(l) == {c \in 1..Len(l) : /\ s.since <= c
                                         /\ \/ l[c].kind \in Adresas /\ c <= s.adresas
                                            \/ l[c].kind \in Pastatas /\ c <= s.pastatas}
<1>1. /\ Len(new) = Len(log) + 1 /\ Len(log) \in Nat
      /\ \A c \in 1..Len(log) : new[c] = log[c]
  BY AppendProperties
<1>2. s.adresas \in Nat /\ s.pastatas \in Nat /\ s.since \in Nat
  BY DEF Sync, Position
<1> HIDE DEF new
<1>3. Read(new) = Read(log)
  BY <1>1, <1>2
<1> QED
  BY <1>3 DEF CidIn, new

-----------------------------------------------------------------------------
(* The first invariant *)

LEMMA RowIs ==
  ASSUME TypeOK, NEW a, NEW n \in Nat, n <= Len(changes)
  PROVE  Upserted(Content(a, n)) \in Row
<1>1. Content(a, n) = Text(changes, a, n)
  BY RegisterIs
<1>2. Content(a, n) \in Nat /\ Content(a, n) <= Len(changes)
  BY <1>1, LastAt DEF TypeOK, Text
<1>3. Len(changes) \in Nat /\ Len(changes) <= MaxCid
  BY DEF TypeOK, Now
<1>4. Content(a, n) \in Position
  BY <1>2, <1>3, MaxCidAssumption DEF Position
<1> QED
  BY <1>4 DEF Upserted, Row

LEMMA SoftDeletedIs ==
  ASSUME NEW row \in Row \cup {None}
  PROVE  SoftDeleted(row) \in Row \cup {None} /\ ~ IsLive(SoftDeleted(row))
  BY NoneAssumption DEF SoftDeleted, Row, IsLive

\* What the batch makes of a row: the last record decides.
LEMMA AfterIs ==
  ASSUME TypeOK, NEW row \in Row \cup {None}, NEW records \in SUBSET (1..Len(changes)),
         \A c \in records : changes[c].kind \in Full \cup {"raze"}
  PROVE  /\ After(row, records) \in Row \cup {None}
         /\ records = {} => After(row, records) = row
         /\ records # {} =>
              LET d == Max(records) IN
              /\ d \in records /\ \A c \in records : c <= d
              /\ changes[d].kind = "raze" => ~ IsLive(After(row, records))
              /\ changes[d].kind # "raze" => After(row, records) = [ver |-> d, deleted |-> FALSE]
<1> DEFINE full == FullOf(records)
           d == Max(records)
           base == IF full = {} THEN row ELSE Upserted(Max(full))
<1>1. Len(changes) \in Nat /\ Len(changes) <= MaxCid
  BY DEF TypeOK, Now
<1>2. full \subseteq records /\ \A c \in full : changes[c].kind \in Full
  BY DEF FullOf
<1>3. ASSUME NEW S \in SUBSET (1..Len(changes)), S # {}
      PROVE  /\ Max(S) \in S /\ Max(S) \in 1..Len(changes) /\ Max(S) \in Position
             /\ \A c \in S : c <= Max(S)
  <2>1. S \in SUBSET Nat /\ \A c \in S : c <= Len(changes)
    BY <1>1
  <2>2. Max(S) \in S /\ \A c \in S : c <= Max(S)
    BY <1>1, <1>3, <2>1, MaxExists
  <2>3. Max(S) \in 1..Len(changes)
    BY <2>2
  <2>4. 1..Len(changes) \subseteq Position
    BY <1>1, MaxCidAssumption DEF Position
  <2> QED
    BY <2>2, <2>3, <2>4
<1>4. base \in Row \cup {None}
  BY <1>2, <1>3 DEF Upserted, Row
<1>5. After(row, records) =
        IF records # {} /\ changes[d].kind = "raze" THEN SoftDeleted(base) ELSE base
  BY DEF After
<1>6. CASE records = {}
  BY <1>2, <1>4, <1>5, <1>6
<1>7. CASE records # {}
  <2>1. d \in records /\ d \in 1..Len(changes) /\ \A c \in records : c <= d
    BY <1>3, <1>7
  <2>2. CASE changes[d].kind = "raze"
    <3>1. After(row, records) = SoftDeleted(base)
      BY <1>5, <1>7, <2>2
    <3>2. SoftDeleted(base) \in Row \cup {None} /\ ~ IsLive(SoftDeleted(base))
      BY <1>4, SoftDeletedIs
    <3> QED
      BY <1>7, <2>1, <2>2, <3>1, <3>2
  <2>3. CASE changes[d].kind # "raze"
    <3>1. d \in full
      BY <2>1, <2>3 DEF FullOf
    <3>2. /\ Max(full) \in full /\ Max(full) \in 1..Len(changes)
          /\ \A c \in full : c <= Max(full)
      BY <1>2, <1>3, <3>1
    <3>3. Max(full) = d
      <4>1. Max(full) \in Int /\ d \in Int
        BY <2>1, <3>2
      <4>2. Max(full) <= d /\ d <= Max(full)
        BY <1>2, <2>1, <3>1, <3>2
      <4> QED
        BY <4>1, <4>2
    <3>4. base = [ver |-> d, deleted |-> FALSE]
      BY <3>1, <3>3 DEF Upserted
    <3>5. After(row, records) = base
      BY <1>5, <2>3
    <3> HIDE DEF d, base
    <3>6. /\ After(row, records) \in Row \cup {None}
          /\ After(row, records) = [ver |-> d, deleted |-> FALSE]
      BY <1>4, <3>4, <3>5
    <3> QED
      BY <1>7, <2>1, <2>3, <3>6 DEF d
  <2> QED
    BY <2>2, <2>3
<1> QED
  BY <1>6, <1>7

\* The nightly sync writes the rows of W, some of them as upserts.
Written(W) ==
  /\ W \in SUBSET Address
  /\ addresses' \in [Address -> Row \cup {None}]
  /\ \A a \in Address \ W : addresses'[a] = addresses[a]
  /\ resync' \in Resync
  /\ resync'.pc = resync.pc /\ resync'.marks = resync.marks
  /\ resync'.at = resync.at /\ resync'.todo = resync.todo
  /\ resync.seen \subseteq resync'.seen
  /\ resync.marks => /\ W \subseteq resync'.written /\ resync.written \subseteq resync'.written
                     /\ resync'.seen \subseteq resync.seen \cup W

LEMMA TouchIs ==
  ASSUME resync \in Resync, NEW W \in SUBSET Address, NEW S \in SUBSET W, Touch(W, S),
         addresses' \in [Address -> Row \cup {None}],
         \A a \in Address \ W : addresses'[a] = addresses[a]
  PROVE  Written(W)
<1>1. CASE resync.marks
  <2>1. resync' = [resync EXCEPT !.written = resync.written \cup W, !.seen = resync.seen \cup S]
    BY <1>1 DEF Touch
  <2> QED
    BY <1>1, <2>1 DEF Written, Resync
<1>2. CASE ~ resync.marks
  BY <1>2 DEF Touch, Written
<1> QED
  BY <1>1, <1>2

\* apply_adresas_changes deletes exactly the addresses the stream strikes off.
StruckBy(p) ==
  {a \in Address : \E c \in Fetched(sync[p]) : changes[c].kind = "strike" /\ changes[c].code = a}

LEMMA AdresasOutcome ==
  ASSUME TypeOK, NEW p \in Run, ApplyAdresas(p)
  PROVE  /\ Written(StruckBy(p))
         /\ \A a \in StruckBy(p) : ~ IsLive(addresses'[a]) /\ Struck(changes, a)
         /\ lost' = lost \ {c \in Fetched(sync[p]) : changes[c].kind = "strike"}
         /\ sync[p].pc = "delete" /\ sync' = [sync EXCEPT ![p].pc = "upsert"]
<1> DEFINE struck == {a \in Address : Of(a, {"strike"}, 0, Now) \cap Fetched(sync[p]) # {}}
<1>1. /\ addresses' = [a \in Address |->
           IF a \in struck THEN SoftDeleted(addresses[a]) ELSE addresses[a]]
      /\ Touch(struck, {})
  BY DEF ApplyAdresas
<1>2. Len(changes) \in Nat /\ sync[p].since \in Nat
  BY DEF TypeOK, Sync, Position
<1>3. ASSUME NEW a \in Address, NEW c
      PROVE  c \in Of(a, {"strike"}, 0, Now) \cap Fetched(sync[p]) <=>
               c \in Fetched(sync[p]) /\ changes[c].kind = "strike" /\ changes[c].code = a
  BY <1>2, OfIs, FetchedIs DEF Now
<1>4. struck = StruckBy(p)
  BY <1>3 DEF StruckBy
<1>5. ASSUME NEW a \in struck PROVE Struck(changes, a)
  <2>1. PICK c \in Fetched(sync[p]) : changes[c].kind = "strike" /\ changes[c].code = a
    BY <1>3
  <2>2. c \in At(changes, a, {"strike"}, Len(changes))
    BY <1>2, <2>1, FetchedIs DEF At
  <2> QED
    BY <2>2 DEF Struck
<1>6. addresses \in [Address -> Row \cup {None}] /\ resync \in Resync
  BY DEF TypeOK
<1> HIDE DEF struck
<1>7. /\ addresses' \in [Address -> Row \cup {None}]
      /\ \A a \in Address \ struck : addresses'[a] = addresses[a]
  BY <1>1, <1>6, SoftDeletedIs
<1>8. \A a \in struck : ~ IsLive(addresses'[a])
  BY <1>1, <1>4, <1>6, SoftDeletedIs DEF StruckBy
<1>9. Written(struck)
  <2>1. struck \in SUBSET Address
    BY <1>4 DEF StruckBy
  <2> QED
    BY <1>1, <1>6, <1>7, <2>1, TouchIs
<1>10. /\ lost' = lost \ {c \in Fetched(sync[p]) : changes[c].kind = "strike"}
       /\ sync[p].pc = "delete" /\ sync' = [sync EXCEPT ![p].pc = "upsert"]
  BY DEF ApplyAdresas, Goto
<1> QED
  BY <1>4, <1>5, <1>8, <1>9, <1>10

\* apply_pastatas_changes leaves a row alone and its changes of the batch lost, or
\* writes it from the last record d it applied, and what follows d is lost.
Unwritten(p, a) ==
  /\ addresses'[a] = addresses[a]
  /\ \A c \in 1..Len(changes) : changes[c].code = a =>
       /\ c \in lost => c \in lost'
       /\ c \in Fetched(sync[p]) /\ changes[c].kind \in Pastatas => c \in lost'

WrittenFrom(p, a, d) ==
  /\ d \in Fetched(sync[p]) /\ changes[d].kind \in Full \cup {"raze"} /\ changes[d].code = a
  /\ ~ Struck(changes, a)
  /\ changes[d].kind = "raze" => ~ IsLive(addresses'[a])
  /\ changes[d].kind # "raze" => addresses'[a] = [ver |-> d, deleted |-> FALSE]
  /\ \A c \in 1..Len(changes) :
       changes[c].code = a /\ changes[c].kind \in Pastatas /\ d < c /\ c <= Settled => c \in lost'

PastatasOutcome(p, W) ==
  /\ Written(W)
  /\ \A a \in Address \ W : Unwritten(p, a)
  /\ \A a \in W : \E d \in 1..Len(changes) : WrittenFrom(p, a, d)
  /\ lost' \subseteq 1..MaxCid
  /\ \A c \in 1..Len(changes) : changes[c].kind = "strike" /\ c \in lost => c \in lost'

LEMMA PastatasStep ==
  ASSUME TypeOK, PositionsSound, NEW p \in Run, ApplyPastatas(p)
  PROVE  /\ \E W \in SUBSET Address : PastatasOutcome(p, W)
         /\ sync[p].pc = "upsert" /\ sync' = [sync EXCEPT ![p].pc = "cid"]
<1> DEFINE batch == Fetched(sync[p]) \cap Between(Pastatas, 0, Now)
           resolvable == Resolvable(batch)
<1>1. /\ sync[p].pc = "upsert" /\ sync' = [sync EXCEPT ![p].pc = "cid"]
      /\ changes' = changes
  BY DEF ApplyPastatas, Goto
<1>2. Len(changes) \in Nat /\ Len(changes) <= MaxCid /\ sync[p] \in Sync /\ sync[p].since \in Nat
  BY DEF TypeOK, Now, Sync, Position
<1>3. \A c : c \in batch <=> c \in Fetched(sync[p]) /\ changes[c].kind \in Pastatas
  BY <1>2, FetchedIs DEF Between, Now
<1>4. PICK skipped \in UpTo(Failures, resolvable) :
        \E bare \in UpTo(Failures - Cardinality(skipped), FullOf(resolvable \ skipped)) :
          LET applied == resolvable \ skipped
              written == Codes(applied)
              covered == {c \in Between(Pastatas, 0, Now) :
                            \E d \in applied : c <= d /\ changes[c].code = changes[d].code}
              undone == UNION {Of(a, Pastatas, sync[p].pastatas, Settled) : a \in written}
          IN
          \/ /\ Poisoned(applied)
             /\ lost' = lost \cup batch
             /\ UNCHANGED <<addresses, resync>>
          \/ /\ ~ Poisoned(applied)
             /\ addresses' = [a \in Address |->
                  After(addresses[a], {c \in applied : changes[c].code = a})]
             /\ lost' = ((lost \cup batch) \ covered) \cup bare \cup undone
             /\ Touch(written, Codes(FullOf(applied)))
  BY DEF ApplyPastatas
<1> DEFINE applied == resolvable \ skipped
           written == Codes(applied)
           covered == {c \in Between(Pastatas, 0, Now) :
                         \E d \in applied : c <= d /\ changes[c].code = changes[d].code}
           undone == UNION {Of(a, Pastatas, sync[p].pastatas, Settled) : a \in written}
<1>5. PICK bare \in UpTo(Failures - Cardinality(skipped), FullOf(applied)) :
          \/ /\ Poisoned(applied)
             /\ lost' = lost \cup batch
             /\ UNCHANGED <<addresses, resync>>
          \/ /\ ~ Poisoned(applied)
             /\ addresses' = [a \in Address |->
                  After(addresses[a], {c \in applied : changes[c].code = a})]
             /\ lost' = ((lost \cup batch) \ covered) \cup bare \cup undone
             /\ Touch(written, Codes(FullOf(applied)))
  BY <1>4
<1>6. /\ applied \subseteq batch /\ batch \subseteq 1..Len(changes)
      /\ \A c \in applied : /\ changes[c].kind \in Full \cup {"raze"}
                            /\ ~ Struck(changes, changes[c].code)
                            /\ changes[c].code \in Address
  <2>1. batch \subseteq 1..Len(changes)
    BY <1>3, FetchedIs, <1>2
  <2>2. ASSUME NEW c \in applied
        PROVE  c \in batch /\ changes[c].kind # "patch" /\ Listed(changes[c].code, Len(changes))
    BY DEF Resolvable, Now
  <2>3. \A c \in 1..Len(changes) : changes[c] \in Change
    BY DEF TypeOK
  <2> HIDE DEF applied, batch
  <2>4. ASSUME NEW c \in applied
        PROVE  /\ changes[c].kind \in Full \cup {"raze"}
               /\ ~ Struck(changes, changes[c].code)
               /\ changes[c].code \in Address
    BY <1>3, <2>1, <2>2, <2>3, RegisterIs DEF Change, Full, Pastatas, Kind, Adresas
  <2> QED
    BY <2>1, <2>2, <2>4
<1>7. bare \subseteq applied
  BY DEF UpTo, FullOf
<1>8. addresses \in [Address -> Row \cup {None}] /\ resync \in Resync /\ lost \subseteq 1..MaxCid
  BY DEF TypeOK
<1>9. 1..Len(changes) \subseteq 1..MaxCid
  BY <1>2, MaxCidAssumption
<1> HIDE DEF batch, resolvable, applied
\* The whole transaction is rolled back.
<1>10. CASE Poisoned(applied) /\ lost' = lost \cup batch /\ UNCHANGED <<addresses, resync>>
  <2>1. Written({})
    BY <1>8, <1>10 DEF Written
  <2>2. \A a \in Address : Unwritten(p, a)
    BY <1>3, <1>10 DEF Unwritten
  <2>3. lost' \subseteq 1..MaxCid
    BY <1>6, <1>8, <1>9, <1>10
  <2>4. PastatasOutcome(p, {})
    BY <1>10, <2>1, <2>2, <2>3 DEF PastatasOutcome
  <2> QED
    BY <1>1, <2>4
<1>11. CASE /\ addresses' = [a \in Address |->
                 After(addresses[a], {c \in applied : changes[c].code = a})]
            /\ lost' = ((lost \cup batch) \ covered) \cup bare \cup undone
            /\ Touch(written, Codes(FullOf(applied)))
  <2> DEFINE Records(a) == {c \in applied : changes[c].code = a}
  <2>1. ASSUME NEW a \in Address
        PROVE  /\ Records(a) \in SUBSET (1..Len(changes))
               /\ \A c \in Records(a) : changes[c].kind \in Full \cup {"raze"}
               /\ Records(a) # {} <=> a \in written
    BY <1>6 DEF Codes
  <2>2. written \in SUBSET Address
    BY <1>6 DEF Codes
  <2>3. \A a \in Address : addresses'[a] = After(addresses[a], Records(a))
    BY <1>11
  <2> HIDE DEF Records
  <2>4. \A c \in 1..Len(changes) : c \in covered => changes[c].code \in written /\ changes[c].kind \in Pastatas
    BY <1>6 DEF Codes, Between
  <2>5. /\ addresses' \in [Address -> Row \cup {None}]
        /\ \A a \in Address \ written : addresses'[a] = addresses[a]
    <3>1. ASSUME NEW a \in Address
          PROVE  /\ addresses'[a] \in Row \cup {None}
                 /\ a \notin written => addresses'[a] = addresses[a]
      <4>1. addresses[a] \in Row \cup {None}
        BY <1>8
      <4>2. /\ After(addresses[a], Records(a)) \in Row \cup {None}
            /\ Records(a) = {} => After(addresses[a], Records(a)) = addresses[a]
        BY <2>1, <4>1, AfterIs
      <4> HIDE DEF written
      <4> QED
        BY <2>1, <2>3, <4>2
    <3>2. \A a \in Address \ written : addresses'[a] = addresses[a]
      BY <3>1
    <3>3. addresses' = [a \in Address |-> addresses'[a]]
      BY <1>11
    <3> QED
      BY <3>1, <3>2, <3>3
  <2>6. Written(written)
    <3>1. Codes(FullOf(applied)) \in SUBSET written
      BY DEF Codes, FullOf
    <3> HIDE DEF written
    <3> QED
      BY <1>8, <1>11, <2>2, <2>5, <3>1, TouchIs
  <2>7. ASSUME NEW a \in Address \ written PROVE Unwritten(p, a)
    <3>1. \A c \in 1..Len(changes) : changes[c].code = a => c \notin covered
      BY <2>4
    <3> HIDE DEF covered, undone, written
    <3>2. \A c \in 1..Len(changes) : changes[c].code = a => (c \in lost \cup batch => c \in lost')
      BY <1>11, <3>1
    <3> QED
      BY <1>3, <2>5, <3>2 DEF Unwritten
  <2>8. ASSUME NEW a \in written PROVE \E d \in 1..Len(changes) : WrittenFrom(p, a, d)
    <3> DEFINE d == Max(Records(a))
    <3>1. a \in Address /\ Records(a) # {} /\ addresses[a] \in Row \cup {None}
      BY <1>8, <2>1, <2>2
    <3>2. /\ d \in Records(a) /\ \A c \in Records(a) : c <= d
          /\ changes[d].kind = "raze" => ~ IsLive(addresses'[a])
          /\ changes[d].kind # "raze" => addresses'[a] = [ver |-> d, deleted |-> FALSE]
      BY <2>1, <2>3, <3>1, AfterIs
    <3> HIDE DEF d
    <3>3. d \in applied /\ changes[d].code = a /\ d \in 1..Len(changes)
      BY <1>6, <3>2 DEF Records
    <3>4. /\ d \in Fetched(sync[p]) /\ changes[d].kind \in Full \cup {"raze"}
          /\ ~ Struck(changes, a)
      BY <1>3, <1>6, <3>3
    <3>5. ASSUME NEW c \in 1..Len(changes), changes[c].code = a, changes[c].kind \in Pastatas,
                 d < c, c <= Settled
          PROVE  c \in lost'
      <4>1. CASE c <= sync[p].pastatas
        <5>1. c \in batch
          <6>1. sync[p].since <= d
            BY <1>2, <3>4, FetchedIs
          <6>2. sync[p].since <= c
            BY <1>2, <3>3, <3>5, <6>1
          <6>3. c \in Fetched(sync[p])
            BY <1>2, <3>5, <4>1, <6>2, FetchedIs
          <6> QED
            BY <1>3, <3>5, <6>3
        <5>2. c \notin covered
          <6> SUFFICES ASSUME NEW e \in applied, c <= e, changes[e].code = a PROVE FALSE
            BY <3>5
          <6>1. e \in Records(a) /\ e \in 1..Len(changes)
            BY <1>6 DEF Records
          <6> QED
            BY <1>2, <3>2, <3>3, <3>5, <6>1
        <5> HIDE DEF covered, undone
        <5> QED
          BY <1>11, <5>1, <5>2
      <4>2. CASE ~ (c <= sync[p].pastatas)
        <5>1. sync[p].pastatas \in Nat
          BY <1>2 DEF Sync, Position
        <5>2. sync[p].pastatas < c
          BY <4>2, <5>1
        <5>3. c \in Of(a, Pastatas, sync[p].pastatas, Settled)
          BY <3>5, <5>2, OfIs
        <5>4. c \in undone
          BY <5>3
        <5> HIDE DEF covered, undone
        <5> QED
          BY <1>11, <5>4
      <4> QED
        BY <4>1, <4>2
    <3> QED
      BY <3>2, <3>3, <3>4, <3>5 DEF WrittenFrom
  <2>9. lost' \subseteq 1..MaxCid
    <3>1. undone \subseteq 1..Len(changes)
      BY OfIs
    <3> HIDE DEF covered, undone
    <3> QED
      BY <1>6, <1>7, <1>8, <1>9, <1>11, <3>1
  <2>10. \A c \in 1..Len(changes) : changes[c].kind = "strike" /\ c \in lost => c \in lost'
    <3>1. "strike" \notin Pastatas
      BY DEF Pastatas, Adresas
    <3>2. \A c \in 1..Len(changes) : changes[c].kind = "strike" => c \notin covered
      BY <2>4, <3>1
    <3> HIDE DEF covered, undone
    <3> QED
      BY <1>11, <3>2
  <2> HIDE DEF written, covered, undone
  <2>11. PastatasOutcome(p, written)
    BY <2>6, <2>7, <2>8, <2>9, <2>10 DEF PastatasOutcome
  <2> QED
    BY <1>1, <2>2, <2>11
<1> QED
  BY <1>5, <1>10, <1>11

LEMMA BaseInit == Init => Base
<1> SUFFICES ASSUME Init PROVE Base
  OBVIOUS
<1> USE DEF Init
<1>1. Len(changes) \in Nat /\ Len(changes) <= MaxCid /\ 0 \in Position
  BY PastAssumption, MaxCidAssumption DEF Position
<1>2. TypeOK
  BY <1>1, PastAssumption DEF TypeOK, Now, Sync, SyncIdle, Resync, ResyncIdle
<1>3. LogSound
  BY PastAssumption DEF LogSound, Ordered
<1>4. PositionsSound
  BY <1>1 DEF PositionsSound, SyncSound, SyncIdle, ResyncIdle
<1>5. ResyncSound
  BY DEF ResyncSound, ResyncIdle
<1> QED
  BY <1>2, <1>3, <1>4, <1>5 DEF Base

LEMMA BasePublish ==
  ASSUME Base, NEW change \in Published, Publish(change)
  PROVE  Base'
<1>1. /\ Len(changes) < MaxCid /\ Possible(change) /\ change \in Change
      /\ changes' = Append(changes, change) /\ changes \in Seq(Change)
      /\ UNCHANGED etlVars
  BY PublishedAssumption DEF Publish, Now, Base, TypeOK
<1>2. /\ changes' \in Seq(Change) /\ Len(changes') = Len(changes) + 1 /\ Len(changes) \in Nat
      /\ changes'[Len(changes) + 1] = change
      /\ \A c \in 1..Len(changes) : changes'[c] = changes[c]
  BY <1>1, AppendProperties
<1>3. TypeOK'
  BY <1>1, <1>2, MaxCidAssumption DEF Base, TypeOK, Now, etlVars
<1>4. LogSound'
  <2> SUFFICES ASSUME NEW c \in 1..Len(changes'), changes'[c].kind \in Pastatas
               PROVE  \E e \in 1..(c - 1) : changes'[e] = [kind |-> "enlist", code |-> changes'[c].code]
    BY DEF LogSound, Ordered
  <2>1. CASE c \in 1..Len(changes)
    <3>1. PICK e \in 1..(c - 1) : changes[e] = [kind |-> "enlist", code |-> changes[c].code]
      BY <1>2, <2>1 DEF Base, LogSound, Ordered
    <3> QED
      BY <1>2, <2>1, <3>1
  <2>2. CASE c = Len(changes) + 1
    <3>1. Listed(change.code, Now)
      BY <1>1, <1>2, <2>2 DEF Possible, InRegister, Pastatas, Adresas
    <3>2. PICK e \in Of(change.code, {"enlist"}, 0, Now) : TRUE
      BY <3>1 DEF Listed
    <3>3. e \in 1..Len(changes) /\ changes[e].kind = "enlist" /\ changes[e].code = change.code
      BY <3>2, OfIs
    <3>4. changes[e] \in Change
      BY <1>1, <3>3
    <3>5. changes[e] = [kind |-> "enlist", code |-> change.code]
      BY <3>3, <3>4 DEF Change
    <3>6. e \in 1..(c - 1) /\ changes'[e] = changes[e] /\ changes'[c] = change
      BY <1>2, <2>2, <3>3
    <3> QED
      BY <3>5, <3>6
  <2> QED
    BY <1>2, <2>1, <2>2
<1>5. PositionsSound'
  BY <1>1, <1>2 DEF Base, TypeOK, PositionsSound, SyncSound, Position, Resync, Sync, etlVars
<1>6. ResyncSound'
  <2>1. resync.at \in Nat /\ resync.at <= Len(changes)
    BY DEF Base, TypeOK, PositionsSound, Position, Resync
  <2>2. \A a \in resync.todo : Stands(changes', a, resync.at)
    BY <1>1, <2>1, AgreesAppend DEF Base, ResyncSound
  <2> QED
    BY <1>1, <2>2 DEF Base, ResyncSound, etlVars
<1> QED
  BY <1>3, <1>4, <1>5, <1>6 DEF Base

\* A step of a nightly sync that writes no address.
LEMMA BaseSync ==
  ASSUME Base, NEW p \in Run, NEW s \in Sync, SyncSound(s), sync' = [sync EXCEPT ![p] = s],
         adresai_cid' \in Position, adresai_cid' <= Len(changes), syncedToday' \in BOOLEAN,
         lost' \subseteq 1..MaxCid, UNCHANGED <<changes, addresses, places, resync>>
  PROVE  Base'
<1>1. sync' \in [Run -> Sync] /\ \A q \in Run : sync'[q] = IF q = p THEN s ELSE sync[q]
  BY DEF Base, TypeOK
<1>2. TypeOK'
  BY <1>1 DEF Base, TypeOK, Now
<1>3. PositionsSound'
  BY <1>1 DEF Base, PositionsSound, SyncSound
<1> QED
  BY <1>2, <1>3 DEF Base, LogSound, ResyncSound

LEMMA BaseNightly ==
  ASSUME Base, NEW p \in Run, Start(p) \/ FetchAdresas(p) \/ FetchPastatas(p) \/ SaveDate(p) \/ Crash(p)
  PROVE  Base'
<1>1. /\ Len(changes) \in Nat /\ Len(changes) \in Position /\ 0 \in Position
      /\ sync[p] \in Sync /\ SyncSound(sync[p])
      /\ adresai_cid \in Position /\ adresai_cid <= Len(changes)
      /\ syncedToday \in BOOLEAN /\ lost \subseteq 1..MaxCid /\ sync \in [Run -> Sync]
  BY MaxCidAssumption DEF Base, TypeOK, PositionsSound, Now, Position
<1>2. CASE Start(p)
  <2> DEFINE s == [SyncIdle EXCEPT !.pc = "adresas", !.since = adresai_cid]
  <2>1. SyncIdle \in Sync
    BY <1>1 DEF SyncIdle, Sync
  <2>3. /\ s \in Sync /\ s.pc = "adresas" /\ s.since = adresai_cid
        /\ s.adresas = 0 /\ s.pastatas = 0
    BY <1>1, <2>1 DEF Sync, SyncIdle
  <2>2. s \in Sync /\ SyncSound(s)
    BY <1>1, <2>3 DEF SyncSound
  <2> HIDE DEF s
  <2> QED
    BY <1>1, <1>2, <2>2, BaseSync DEF Start, s
<1>3. CASE FetchAdresas(p)
  <2> DEFINE s == [sync[p] EXCEPT !.pc = "pastatas", !.adresas = Len(changes)]
  <2>1. /\ s \in Sync /\ s.pc = "pastatas" /\ s.since = sync[p].since
        /\ s.adresas = Len(changes) /\ s.pastatas = sync[p].pastatas
    BY <1>1 DEF Sync
  <2>3. SyncSound(s)
    BY <1>1, <2>1 DEF SyncSound
  <2>2. sync' = [sync EXCEPT ![p] = s]
    BY <1>1, <1>3 DEF FetchAdresas, Now
  <2> HIDE DEF s
  <2> QED
    BY <1>1, <1>3, <2>1, <2>2, <2>3, BaseSync DEF FetchAdresas
<1>4. CASE FetchPastatas(p)
  <2> DEFINE fetched == [sync[p] EXCEPT !.pc = "delete", !.pastatas = Len(changes)]
             s == IF MaxCidOf(fetched) # fetched.since THEN fetched
                  ELSE [SyncIdle EXCEPT !.pc = "date"]
  <2>0. /\ fetched \in Sync /\ fetched.pc = "delete" /\ fetched.since = sync[p].since
        /\ fetched.adresas = sync[p].adresas /\ fetched.pastatas = Len(changes)
    BY <1>1 DEF Sync
  <2>1. SyncSound(fetched)
    BY <1>1, <2>0 DEF SyncSound
  <2>2. [SyncIdle EXCEPT !.pc = "date"] \in Sync /\ SyncSound([SyncIdle EXCEPT !.pc = "date"])
    BY <1>1 DEF SyncIdle, Sync, SyncSound
  <2>3. sync' = [sync EXCEPT ![p] = s]
    BY <1>4 DEF FetchPastatas, Now
  <2> HIDE DEF fetched
  <2>4. s \in Sync /\ SyncSound(s)
    BY <2>0, <2>1, <2>2
  <2> HIDE DEF s
  <2> QED
    BY <1>1, <1>4, <2>3, <2>4, BaseSync DEF FetchPastatas
<1>5. CASE SaveDate(p) \/ Crash(p)
  <2>1. SyncIdle \in Sync /\ SyncSound(SyncIdle)
    BY <1>1 DEF SyncIdle, Sync, SyncSound
  <2> QED
    BY <1>1, <1>5, <2>1, BaseSync DEF SaveDate, Crash
<1> QED
  BY <1>2, <1>3, <1>4, <1>5

LEMMA BaseSaveCid ==
  ASSUME Base, NEW p \in Run, SaveCid(p)
  PROVE  Base'
<1> USE DEF Base
<1> DEFINE s == [SyncIdle EXCEPT !.pc = "date"]
<1>1. Len(changes) \in Nat /\ Len(changes) <= MaxCid /\ 0 \in Position /\ syncedToday' \in BOOLEAN
  BY MaxCidAssumption DEF TypeOK, Now, Position, SaveCid
<1>2. s \in Sync /\ SyncSound(s)
  BY <1>1 DEF SyncIdle, Sync, SyncSound, Position
<1>3. sync[p] \in Sync /\ SyncSound(sync[p])
  BY DEF TypeOK, PositionsSound
<1>4. MaxCidOf(sync[p]) \in Position /\ MaxCidOf(sync[p]) <= Len(changes)
  BY <1>1, <1>3, MaxCidIs, MaxCidAssumption DEF Position
<1>5. lost' \subseteq 1..MaxCid
  <2>1. Gap(p) \subseteq 1..MaxCid
    BY <1>1, MaxCidAssumption DEF Gap, Between, Now
  <2> QED
    BY <2>1 DEF SaveCid, TypeOK
<1> QED
  BY <1>1, <1>2, <1>4, <1>5, BaseSync DEF SaveCid

\* A step of a nightly sync that writes addresses.
LEMMA BaseWritten ==
  ASSUME Base, NEW p \in Run, NEW W, Written(W), sync[p].pc \in {"delete", "upsert"},
         NEW pc \in {"upsert", "cid"}, sync' = [sync EXCEPT ![p].pc = pc],
         lost' \subseteq 1..MaxCid, UNCHANGED <<changes, places, adresai_cid, syncedToday>>
  PROVE  Base'
<1>1. /\ sync' \in [Run -> Sync]
      /\ \A q \in Run : /\ sync'[q].since = sync[q].since /\ sync'[q].adresas = sync[q].adresas
                        /\ sync'[q].pastatas = sync[q].pastatas
                        /\ q # p => sync'[q].pc = sync[q].pc
  BY DEF Base, TypeOK, Sync
<1>2. TypeOK'
  BY <1>1 DEF Base, TypeOK, Now, Written
<1>3. PositionsSound'
  BY <1>1 DEF Base, PositionsSound, SyncSound, Written
<1>4. ResyncSound'
  BY DEF Base, ResyncSound, Written
<1> QED
  BY <1>2, <1>3, <1>4 DEF Base, LogSound

LEMMA BaseApply ==
  ASSUME Base, NEW p \in Run, ApplyAdresas(p) \/ ApplyPastatas(p)
  PROVE  Base'
<1>1. CASE ApplyAdresas(p)
  <2>1. /\ Written(StruckBy(p)) /\ lost' \subseteq lost
        /\ sync[p].pc = "delete" /\ sync' = [sync EXCEPT ![p].pc = "upsert"]
    BY <1>1, AdresasOutcome DEF Base
  <2>2. lost' \subseteq 1..MaxCid
    BY <2>1 DEF Base, TypeOK
  <2> QED
    BY <1>1, <2>1, <2>2, BaseWritten DEF ApplyAdresas
<1>2. CASE ApplyPastatas(p)
  <2>1. PICK W \in SUBSET Address : PastatasOutcome(p, W)
    BY <1>2, PastatasStep DEF Base
  <2>2. sync[p].pc = "upsert" /\ sync' = [sync EXCEPT ![p].pc = "cid"]
    BY <1>2, PastatasStep DEF Base
  <2> QED
    BY <1>2, <2>1, <2>2, BaseWritten DEF ApplyPastatas, PastatasOutcome
<1> QED
  BY <1>1, <1>2

\* A step of the resync.
LEMMA BaseResync ==
  ASSUME Base, addresses' \in [Address -> Row \cup {None}], resync' \in Resync,
         resync'.at <= Len(changes), \A a \in resync'.todo : Stands(changes, a, resync'.at),
         resync'.pc = "mark" => resync'.marks /\ resync'.todo = {},
         places' \in Position, places' <= Len(changes),
         adresai_cid' \in Position, adresai_cid' <= Len(changes),
         lost' \subseteq 1..MaxCid, UNCHANGED <<changes, sync, syncedToday>>
  PROVE  Base'
<1>1. TypeOK'
  BY DEF Base, TypeOK, Now
<1>2. PositionsSound'
  BY DEF Base, PositionsSound, SyncSound
<1>3. ResyncSound'
  BY DEF ResyncSound
<1> QED
  BY <1>1, <1>2, <1>3 DEF Base, LogSound

\* Every row of a file is an address the register has at its position.
LEMMA InDumpIs ==
  ASSUME Base, NEW a, NEW n
  PROVE  a \in InDump(n) <=> a \in Address /\ Stands(changes, a, n)
  BY RegisterIs DEF InDump, Base

LEMMA BaseLoading ==
  ASSUME Base,
         \/ \E at \in places..Now : BeginResync(at)
         \/ SaveHeadCid \/ StopResync \/ ResumeImport
  PROVE  Base'
<1>1. /\ Len(changes) \in Nat /\ Len(changes) <= MaxCid
      /\ addresses \in [Address -> Row \cup {None}] /\ resync \in Resync
      /\ places \in Nat /\ places \in Position /\ places <= Len(changes)
      /\ adresai_cid \in Position /\ adresai_cid <= Len(changes)
      /\ lost \subseteq 1..MaxCid
      /\ \A n \in Nat : n <= Len(changes) => n \in Position
  BY MaxCidAssumption DEF Base, TypeOK, PositionsSound, Position, Now
<1>2. /\ resync.at \in Position /\ resync.at <= Len(changes)
      /\ \A a \in resync.todo : Stands(changes, a, resync.at)
      /\ resync.todo \subseteq Address
      /\ resync.pc = "mark" => resync.marks /\ resync.todo = {}
  BY <1>1 DEF Base, PositionsSound, ResyncSound, Resync
<1>3. ResyncIdle \in Resync /\ ResyncIdle.pc = "idle" /\ ResyncIdle.at = 0 /\ ResyncIdle.todo = {}
  BY <1>1 DEF ResyncIdle, Resync
<1>4. ASSUME NEW at \in places..Now, BeginResync(at) PROVE Base'
  <2>1. at \in Nat /\ at \in Position /\ at <= Len(changes)
    BY <1>1 DEF Now
  <2>2. InDump(at) \subseteq Address /\ \A a \in InDump(at) : Stands(changes, a, at)
    BY InDumpIs
  <2>3. resync' = [ResyncIdle EXCEPT !.pc = "load", !.marks = TRUE, !.at = at, !.todo = InDump(at)]
    BY <1>4 DEF BeginResync
  <2>4. resync' \in Resync /\ resync'.pc = "load" /\ resync'.at = at /\ resync'.todo = InDump(at)
    BY <1>3, <2>1, <2>2, <2>3 DEF Resync
  <2> QED
    BY <1>1, <1>4, <2>1, <2>2, <2>4, BaseResync DEF BeginResync
<1>5. CASE SaveHeadCid
  <2>1. HeadCid \in Position /\ HeadCid <= Len(changes)
    BY <1>1, HeadCidIs DEF Base
  <2>2. lost' \subseteq 1..MaxCid
    <3>1. Passed \subseteq 1..MaxCid
      BY <1>1, MaxCidAssumption DEF Passed, Between, Now
    <3> QED
      BY <1>1, <1>5, <3>1 DEF SaveHeadCid
  <2>3. CASE resync.marks
    <3>1. resync' = [resync EXCEPT !.pc = "mark"] /\ resync.todo = {}
      BY <1>5, <2>3 DEF SaveHeadCid
    <3>2. /\ resync' \in Resync /\ resync'.at = resync.at /\ resync'.todo = {} /\ resync'.marks
      BY <1>1, <2>3, <3>1 DEF Resync
    <3> QED
      BY <1>1, <1>2, <1>5, <2>1, <2>2, <3>2, BaseResync DEF SaveHeadCid
  <2>4. CASE ~ resync.marks
    <3>1. /\ resync' \in Resync /\ resync'.pc = "idle" /\ resync'.todo = {}
          /\ resync'.at = 0 /\ 0 <= Len(changes)
      BY <1>1, <1>3, <1>5, <2>4 DEF SaveHeadCid
    <3> QED
      BY <1>1, <1>3, <1>5, <2>1, <2>2, <3>1, BaseResync DEF SaveHeadCid
  <2> QED
    BY <2>3, <2>4
<1>6. CASE StopResync
  <2>1. PICK todo \in {InDump(resync.at)} \cup ({resync.todo} \cap {{}}) :
          resync' = IF resync.pc = "mark" THEN ResyncIdle
                    ELSE [ResyncIdle EXCEPT !.pc = "stopped", !.at = resync.at, !.todo = todo]
    BY <1>6 DEF StopResync
  <2>2. todo \subseteq Address /\ \A a \in todo : Stands(changes, a, resync.at)
    BY InDumpIs
  <2>3. CASE resync.pc = "mark"
    BY <1>1, <1>3, <1>6, <2>1, <2>3, BaseResync DEF StopResync
  <2>4. CASE resync.pc # "mark"
    <3>1. /\ resync' \in Resync /\ resync'.pc = "stopped" /\ resync'.at = resync.at
          /\ resync'.todo = todo
      BY <1>2, <1>3, <2>1, <2>2, <2>4 DEF Resync
    <3> QED
      BY <1>1, <1>2, <1>6, <2>2, <3>1, BaseResync DEF StopResync
  <2> QED
    BY <2>3, <2>4
<1>7. CASE ResumeImport
  <2>1. resync' = [resync EXCEPT !.pc = "load"]
    BY <1>7 DEF ResumeImport
  <2>2. /\ resync' \in Resync /\ resync'.pc = "load" /\ resync'.at = resync.at
        /\ resync'.todo = resync.todo
    BY <1>1, <2>1 DEF Resync
  <2> QED
    BY <1>1, <1>2, <1>7, <2>2, BaseResync DEF ResumeImport
<1> QED
  BY <1>4, <1>5, <1>6, <1>7

\* _import_addresses, row by row: the row becomes that of the file.
LoadOutcome(a) ==
  /\ a \in resync.todo /\ resync.pc = "load" /\ Stands(changes, a, resync.at)
  /\ addresses'[a] = [ver |-> Text(changes, a, resync.at), deleted |-> FALSE]
  /\ addresses' \in [Address -> Row \cup {None}]
  /\ \A b \in Address \ {a} : addresses'[b] = addresses[b]
  /\ resync' \in Resync /\ resync'.pc = "load" /\ resync'.marks = resync.marks
  /\ resync'.at = resync.at /\ resync'.todo = resync.todo \ {a}
  /\ resync'.written = resync.written
  /\ resync'.seen = IF resync.marks THEN resync.seen \cup {a} ELSE resync.seen
  /\ lost' \subseteq 1..MaxCid
  /\ \A c \in 1..Len(changes) :
       changes[c].code # a \/ changes[c].kind = "strike" => (c \in lost => c \in lost')
  /\ \A c \in 1..Len(changes) :
       changes[c].code = a /\ resync.at < c /\ c <= Settled => c \in lost'

LEMMA LoadStep ==
  ASSUME Base, NEW a \in Address, Load(a)
  PROVE  LoadOutcome(a)
<1>1. /\ Len(changes) \in Nat /\ Len(changes) <= MaxCid
      /\ addresses \in [Address -> Row \cup {None}] /\ resync \in Resync /\ lost \subseteq 1..MaxCid
      /\ resync.at \in Nat /\ resync.at <= Len(changes)
      /\ \A b \in resync.todo : Stands(changes, b, resync.at)
  BY DEF Base, TypeOK, PositionsSound, Resync, Position, Now, ResyncSound
<1>2. /\ a \in resync.todo /\ resync.pc = "load"
      /\ addresses' = [addresses EXCEPT ![a] = Upserted(Content(a, resync.at))]
      /\ resync' = [resync EXCEPT !.todo = resync.todo \ {a},
                     !.seen = IF resync.marks THEN resync.seen \cup {a} ELSE resync.seen]
      /\ lost' = (lost \ Of(a, Pastatas, 0, resync.at)) \cup Of(a, Kind, resync.at, Settled)
  BY DEF Load
<1>3. /\ Upserted(Content(a, resync.at)) \in Row
      /\ Upserted(Content(a, resync.at)) = [ver |-> Text(changes, a, resync.at), deleted |-> FALSE]
  BY <1>1, RowIs, RegisterIs DEF Base, Upserted
<1>4. /\ resync' \in Resync /\ resync'.pc = "load" /\ resync'.marks = resync.marks
      /\ resync'.at = resync.at /\ resync'.todo = resync.todo \ {a}
      /\ resync'.written = resync.written
      /\ resync'.seen = IF resync.marks THEN resync.seen \cup {a} ELSE resync.seen
  BY <1>1, <1>2 DEF Resync
<1>5. /\ addresses'[a] = [ver |-> Text(changes, a, resync.at), deleted |-> FALSE]
      /\ addresses' \in [Address -> Row \cup {None}]
      /\ \A b \in Address \ {a} : addresses'[b] = addresses[b]
  BY <1>1, <1>2, <1>3
<1>6. \A c \in Of(a, Kind, resync.at, Settled) : c \in 1..Len(changes)
  BY OfIs
<1>7. lost' \subseteq 1..MaxCid
  BY <1>1, <1>2, <1>6, MaxCidAssumption
<1>8. ASSUME NEW c \in 1..Len(changes), changes[c].code # a \/ changes[c].kind = "strike", c \in lost
      PROVE  c \in lost'
  <2>1. c \notin Of(a, Pastatas, 0, resync.at)
    BY <1>8, OfIs DEF Pastatas, Adresas
  <2> QED
    BY <1>2, <1>8, <2>1
<1>9. ASSUME NEW c \in 1..Len(changes), changes[c].code = a, resync.at < c, c <= Settled
      PROVE  c \in lost'
  <2>1. changes[c] \in Change
    BY DEF Base, TypeOK
  <2>2. c \in Of(a, Kind, resync.at, Settled)
    BY <1>9, <2>1, OfIs DEF Change
  <2> QED
    BY <1>2, <2>2
<1> QED
  BY <1>1, <1>2, <1>4, <1>5, <1>7, <1>8, <1>9 DEF LoadOutcome

LEMMA BaseLoad ==
  ASSUME Base, NEW a \in Address, Load(a)
  PROVE  Base'
<1>1. LoadOutcome(a)
  BY LoadStep
<1> QED
  BY <1>1, BaseResync DEF Base, TypeOK, PositionsSound, ResyncSound, LoadOutcome, Load

\* _mark_deleted: what was not seen is deleted; a change that is no longer lost is
\* one the files have, of an address that is not in them and not live.
MarkOutcome ==
  /\ resync.pc = "mark" /\ resync' = ResyncIdle
  /\ addresses' \in [Address -> Row \cup {None}]
  /\ lost' \subseteq 1..MaxCid
  /\ \A a \in Address :
       /\ Stale(a) => ~ IsLive(addresses'[a])
       /\ ~ Stale(a) => addresses'[a] = addresses[a]
       /\ \A c \in 1..Len(changes) : changes[c].code = a =>
            /\ c \in lost /\ c \notin lost' =>
                 ~ Stands(changes, a, resync.at) /\ ~ IsLive(addresses'[a]) /\ c <= resync.at
            /\ Stale(a) /\ resync.at < c /\ c <= Settled => c \in lost'

LEMMA MarkStep ==
  ASSUME Base, MarkDeleted
  PROVE  MarkOutcome
<1> DEFINE gone == {a \in Address : ~ InRegister(a, resync.at) /\ (Stale(a) \/ ~ Live(a))}
           stale == {b \in Address : Stale(b)}
           freed == UNION {Of(a, Kind, 0, resync.at) : a \in gone}
           undone == UNION {Of(a, Kind, resync.at, Settled) : a \in stale}
<1>1. /\ Len(changes) \in Nat /\ Len(changes) <= MaxCid
      /\ addresses \in [Address -> Row \cup {None}] /\ lost \subseteq 1..MaxCid
      /\ \A c \in 1..Len(changes) : changes[c] \in Change
  BY DEF Base, TypeOK, Now
<1>2. /\ resync.pc = "mark" /\ resync' = ResyncIdle
      /\ addresses' = [a \in Address |-> IF Stale(a) THEN SoftDeleted(addresses[a]) ELSE addresses[a]]
      /\ lost' = (lost \ freed) \cup undone
  BY DEF MarkDeleted
<1>3. ASSUME NEW a \in Address
      PROVE  /\ addresses'[a] \in Row \cup {None}
             /\ Stale(a) => ~ IsLive(addresses'[a])
             /\ ~ Stale(a) => addresses'[a] = addresses[a]
  BY <1>1, <1>2, SoftDeletedIs
<1>4. addresses' \in [Address -> Row \cup {None}]
  BY <1>2, <1>3
<1>5. lost' \subseteq 1..MaxCid
  <2>1. undone \subseteq 1..Len(changes)
    BY OfIs
  <2>2. 1..Len(changes) \subseteq 1..MaxCid
    BY <1>1, MaxCidAssumption
  <2> HIDE DEF undone, freed
  <2> QED
    BY <1>1, <1>2, <2>1, <2>2
<1>6. ASSUME NEW a \in Address, NEW c \in 1..Len(changes), changes[c].code = a,
             c \in lost, c \notin lost'
      PROVE  ~ Stands(changes, a, resync.at) /\ ~ IsLive(addresses'[a]) /\ c <= resync.at
  <2>1. c \in freed
    BY <1>2, <1>6
  <2>2. PICK b \in gone : c \in Of(b, Kind, 0, resync.at)
    BY <2>1
  <2>3. b = a /\ c <= resync.at
    BY <1>6, <2>2, OfIs
  <2>4. ~ InRegister(a, resync.at) /\ (Stale(a) \/ ~ Live(a))
    BY <2>2, <2>3
  <2>5. ~ Stands(changes, a, resync.at)
    BY <2>4, RegisterIs DEF Base
  <2>6. ~ IsLive(addresses'[a])
    BY <1>3, <2>4, FollowsIs DEF Base
  <2> QED
    BY <2>3, <2>5, <2>6
<1>7. ASSUME NEW a \in Address, NEW c \in 1..Len(changes), changes[c].code = a,
             Stale(a), resync.at < c, c <= Settled
      PROVE  c \in lost'
  <2>1. c \in Of(a, Kind, resync.at, Settled)
    BY <1>1, <1>7, OfIs DEF Change
  <2>2. c \in undone
    BY <1>7, <2>1
  <2> HIDE DEF undone, freed
  <2> QED
    BY <1>2, <2>2
<1> HIDE DEF undone, freed
<1>8. \A a \in Address : \A c \in 1..Len(changes) : changes[c].code = a =>
        /\ c \in lost /\ c \notin lost' =>
             ~ Stands(changes, a, resync.at) /\ ~ IsLive(addresses'[a]) /\ c <= resync.at
        /\ Stale(a) /\ resync.at < c /\ c <= Settled => c \in lost'
  BY <1>6, <1>7
<1> QED
  BY <1>2, <1>3, <1>4, <1>5, <1>8 DEF MarkOutcome

LEMMA BaseMark ==
  ASSUME Base, MarkDeleted
  PROVE  Base'
<1>1. MarkOutcome
  BY MarkStep
<1>2. /\ ResyncIdle \in Resync /\ ResyncIdle.pc = "idle" /\ ResyncIdle.at = 0
      /\ ResyncIdle.todo = {} /\ 0 <= Len(changes)
  BY MaxCidAssumption DEF ResyncIdle, Resync, Position, Base, TypeOK
<1> QED
  BY <1>1, <1>2, BaseResync DEF Base, TypeOK, PositionsSound, MarkOutcome, MarkDeleted

LEMMA BaseStep ==
  ASSUME Base, [Next]_vars
  PROVE  Base'
<1>1. CASE UNCHANGED vars
  BY <1>1 DEF vars, Base, TypeOK, Now, LogSound, PositionsSound, SyncSound, ResyncSound
<1>2. CASE NewDay
  BY <1>2 DEF NewDay, Base, TypeOK, Now, LogSound, PositionsSound, SyncSound, ResyncSound
<1>3. ASSUME NEW p \in Run, NightlySync(p) \/ Crash(p)
      PROVE  Base'
  BY <1>3, BaseNightly, BaseApply, BaseSaveCid DEF NightlySync
<1>4. CASE MonthlyResync
  BY <1>4, BaseLoading, BaseLoad, BaseMark DEF MonthlyResync
<1> QED
  BY <1>1, <1>2, <1>3, <1>4, BasePublish DEF Next

\* The types hold whatever runs of the nightly sync overlap with each other and
\* with a resync, and wherever either of them stops (etl_state.adresai_cid never
\* passes the end of the change log).
THEOREM TypeCorrect == Spec => []TypeOK
<1>1. Base => TypeOK
  BY DEF Base
<1> QED
  BY <1>1, BaseInit, BaseStep, PTL DEF Spec

-----------------------------------------------------------------------------
(* The resync mirrors its files *)

LEMMA MirroredWritten ==
  ASSUME Base, Mirrored, NEW W, Written(W), changes' = changes
  PROVE  Mirrored'
<1> SUFFICES ASSUME resync'.marks PROVE Mirrored'
  BY DEF Mirrored
<1>1. /\ \A a \in Address : Stands(changes, a, resync.at) => a \in resync.todo \cup resync.seen
      /\ \A a \in resync.seen \ resync.written :
           /\ Stands(changes, a, resync.at)
           /\ IsLive(addresses[a])
           /\ addresses[a].ver = Text(changes, a, resync.at)
  BY DEF Mirrored, Written
<1>2. \A a \in resync'.seen \ resync'.written :
        /\ a \in resync.seen \ resync.written /\ a \in Address /\ addresses'[a] = addresses[a]
  BY DEF Written, Resync
<1> QED
  BY <1>1, <1>2 DEF Mirrored, Written

LEMMA MirroredPublish ==
  ASSUME Base, Mirrored, NEW change \in Published, Publish(change)
  PROVE  Mirrored'
<1>1. /\ changes' = Append(changes, change) /\ changes \in Seq(Change) /\ change \in Change
      /\ addresses' = addresses /\ resync' = resync
      /\ resync.at \in Nat /\ resync.at <= Len(changes)
  BY PublishedAssumption DEF Publish, etlVars, Base, TypeOK, PositionsSound, Resync, Position
<1>2. \A a : /\ Stands(changes', a, resync.at) = Stands(changes, a, resync.at)
             /\ Text(changes', a, resync.at) = Text(changes, a, resync.at)
  BY <1>1, AgreesAppend
<1> QED
  BY <1>1, <1>2 DEF Mirrored

LEMMA MirroredLoad ==
  ASSUME Base, Mirrored, NEW a \in Address, Load(a)
  PROVE  Mirrored'
<1> SUFFICES ASSUME resync'.marks PROVE Mirrored'
  BY DEF Mirrored
<1>1. LoadOutcome(a) /\ changes' = changes
  BY LoadStep DEF Load
<1>2. /\ resync.marks /\ resync'.at = resync.at /\ resync'.written = resync.written
      /\ resync'.todo = resync.todo \ {a} /\ resync'.seen = resync.seen \cup {a}
      /\ resync.seen \subseteq Address
  BY <1>1 DEF LoadOutcome, Base, TypeOK, Resync
<1>3. \A b \in Address : Stands(changes, b, resync.at) => b \in resync'.todo \cup resync'.seen
  BY <1>2 DEF Mirrored
<1>4. ASSUME NEW b \in resync'.seen \ resync'.written
      PROVE  /\ Stands(changes, b, resync.at)
             /\ IsLive(addresses'[b])
             /\ addresses'[b].ver = Text(changes, b, resync.at)
  <2>1. CASE b = a
    <3>1. /\ addresses'[b] = [ver |-> Text(changes, b, resync.at), deleted |-> FALSE]
          /\ Stands(changes, b, resync.at) /\ addresses'[b] \in Row \cup {None}
      BY <1>1, <2>1 DEF LoadOutcome
    <3>2. addresses'[b] # None
      <4>1. Upserted(Content(a, resync.at)) \in Row
        BY RowIs DEF Base, TypeOK, PositionsSound, Resync, Position
      <4>2. Upserted(Content(a, resync.at)) = addresses'[b]
        BY <2>1, <3>1, RegisterIs DEF Upserted, Base
      <4> QED
        BY <4>1, <4>2, NoneAssumption
    <3> QED
      BY <3>1, <3>2 DEF IsLive
  <2>2. CASE b # a
    <3>1. b \in resync.seen \ resync.written /\ b \in Address
      BY <1>2, <2>2
    <3>2. addresses'[b] = addresses[b]
      BY <1>1, <2>2, <3>1 DEF LoadOutcome
    <3> QED
      BY <1>2, <3>1, <3>2 DEF Mirrored
  <2> QED
    BY <2>1, <2>2
<1> QED
  BY <1>1, <1>2, <1>3, <1>4 DEF Mirrored

LEMMA MirroredLoading ==
  ASSUME Base, Mirrored,
         \/ \E at \in places..Now : BeginResync(at)
         \/ SaveHeadCid \/ StopResync \/ ResumeImport \/ MarkDeleted
  PROVE  Mirrored'
<1>1. resync \in Resync /\ ~ ResyncIdle.marks
  BY DEF Base, TypeOK, ResyncIdle
<1>2. ASSUME NEW at \in places..Now, BeginResync(at) PROVE Mirrored'
  <2>1. /\ resync' = [ResyncIdle EXCEPT !.pc = "load", !.marks = TRUE, !.at = at, !.todo = InDump(at)]
        /\ changes' = changes
    BY <1>2 DEF BeginResync
  <2>2. resync'.seen = {} /\ resync'.todo = InDump(at) /\ resync'.at = at
    BY <2>1 DEF ResyncIdle
  <2>3. \A a \in Address : Stands(changes', a, resync'.at) => a \in resync'.todo
    BY <2>1, <2>2, InDumpIs
  <2> QED
    BY <2>2, <2>3 DEF Mirrored
<1>3. CASE SaveHeadCid
  <2>1. resync' = (IF resync.marks THEN [resync EXCEPT !.pc = "mark"] ELSE ResyncIdle)
    BY <1>3 DEF SaveHeadCid
  <2>2. resync'.marks => /\ resync.marks /\ resync'.at = resync.at /\ resync'.todo = resync.todo
                         /\ resync'.seen = resync.seen /\ resync'.written = resync.written
    BY <1>1, <2>1 DEF Resync
  <2> QED
    BY <1>3, <2>2 DEF Mirrored, SaveHeadCid
<1>4. CASE StopResync \/ MarkDeleted
  <2>1. ~ resync'.marks
    <3>1. PICK todo : resync' = ResyncIdle
            \/ resync' = [ResyncIdle EXCEPT !.pc = "stopped", !.at = resync.at, !.todo = todo]
      BY <1>4 DEF StopResync, MarkDeleted
    <3>2. \A todo0 : [ResyncIdle EXCEPT !.pc = "stopped", !.at = resync.at, !.todo = todo0].marks
                     = ResyncIdle.marks
      BY DEF ResyncIdle
    <3> QED
      BY <1>1, <3>1, <3>2
  <2> QED
    BY <2>1 DEF Mirrored
<1>5. CASE ResumeImport
  <2>1. resync' = [resync EXCEPT !.pc = "load"] /\ UNCHANGED <<changes, addresses>>
    BY <1>5 DEF ResumeImport
  <2>2. /\ resync'.marks = resync.marks /\ resync'.at = resync.at /\ resync'.todo = resync.todo
        /\ resync'.seen = resync.seen /\ resync'.written = resync.written
    BY <1>1, <2>1 DEF Resync
  <2> QED
    BY <2>1, <2>2 DEF Mirrored
<1> QED
  BY <1>2, <1>3, <1>4, <1>5

LEMMA MirroredStep ==
  ASSUME Base, Mirrored, [Next]_vars
  PROVE  Mirrored'
<1>1. CASE UNCHANGED vars \/ NewDay
  BY <1>1 DEF vars, NewDay, Mirrored
<1>2. ASSUME NEW p \in Run, NightlySync(p) \/ Crash(p)
      PROVE  Mirrored'
  <2>1. CASE ApplyAdresas(p)
    BY <2>1, AdresasOutcome, MirroredWritten DEF Base, ApplyAdresas
  <2>2. CASE ApplyPastatas(p)
    BY <2>2, PastatasStep, MirroredWritten DEF Base, ApplyPastatas, PastatasOutcome
  <2>3. CASE ~ ApplyAdresas(p) /\ ~ ApplyPastatas(p)
    <3>1. UNCHANGED <<changes, addresses, resync>>
      BY <1>2, <2>3 DEF NightlySync, Start, FetchAdresas, FetchPastatas, SaveCid, SaveDate, Crash
    <3> QED
      BY <3>1 DEF Mirrored
  <2> QED
    BY <2>1, <2>2, <2>3
<1>3. CASE MonthlyResync
  BY <1>3, MirroredLoad, MirroredLoading DEF MonthlyResync
<1> QED
  BY <1>1, <1>2, <1>3, MirroredPublish DEF Next

\* _mark_deleted leaves the table as the files of the resync have it, for every
\* address that no nightly sync wrote beside it.
LEMMA MarkExact ==
  ASSUME Base, Mirrored, MarkDeleted, NEW a \in Address \ resync.written
  PROVE  /\ Live(a)' = InRegister(a, resync.at)
         /\ Live(a)' => addresses'[a].ver = Content(a, resync.at)
<1>1. MarkOutcome /\ changes' = changes
  BY MarkStep DEF MarkDeleted
<1>2. resync.marks /\ resync.todo = {}
  BY <1>1 DEF MarkOutcome, Base, ResyncSound
<1>3. /\ InRegister(a, resync.at) = Stands(changes, a, resync.at)
      /\ Content(a, resync.at) = Text(changes, a, resync.at)
      /\ Live(a) = IsLive(addresses[a]) /\ Live(a)' = IsLive(addresses'[a])
  <2>1. Live(a)' = IsLive(addresses'[a])
    BY DEF Live, IsLive
  <2> QED
    BY <2>1, RegisterIs, FollowsIs DEF Base
<1>4. CASE a \in resync.seen
  <2>1. /\ Stands(changes, a, resync.at) /\ IsLive(addresses[a])
        /\ addresses[a].ver = Text(changes, a, resync.at)
    BY <1>2, <1>4 DEF Mirrored
  <2>2. addresses'[a] = addresses[a]
    BY <1>1, <1>4 DEF MarkOutcome, Stale
  <2> QED
    BY <1>3, <2>1, <2>2
<1>5. CASE a \notin resync.seen
  <2>1. ~ Stands(changes, a, resync.at)
    BY <1>2, <1>5 DEF Mirrored
  <2>2. ~ IsLive(addresses'[a])
    BY <1>1, <1>3, <1>5 DEF MarkOutcome, Stale
  <2>3. Stands(changes, a, resync.at) = FALSE /\ IsLive(addresses'[a]) = FALSE
    BY <2>1, <2>2 DEF Stands, IsLive
  <2> QED
    BY <1>3, <2>3
<1> QED
  BY <1>4, <1>5

\* After the monthly resync the table is the register as of the downloaded files,
\* for every address no nightly sync wrote beside it (sync_start is taken before the
\* import, the upsert clears deleted_at, _mark_deleted comes last).
THEOREM ResyncExactCorrect == Spec => ResyncExact
<1>1. Init => Base /\ Mirrored
  BY BaseInit DEF Init, Mirrored, ResyncIdle
<1>2. Base /\ Mirrored /\ [Next]_vars => Base' /\ Mirrored'
  BY BaseStep, MirroredStep
<1>3. Base /\ Mirrored /\ [Next]_vars =>
        [MarkDeleted =>
          \A a \in Address \ resync.written :
            /\ Live(a)' = InRegister(a, resync.at)
            /\ Live(a)' => addresses'[a].ver = Content(a, resync.at)]_vars
  BY MarkExact
<1> QED
  BY <1>1, <1>2, <1>3, PTL DEF Spec, ResyncExact

-----------------------------------------------------------------------------
(* What is struck off stays deleted *)

\* A nightly sync that writes no address leaves these alone.
LEMMA QuietSync ==
  ASSUME NEW p \in Run, NightlySync(p) \/ Crash(p), ~ ApplyAdresas(p), ~ ApplyPastatas(p)
  PROVE  /\ UNCHANGED <<changes, addresses, resync>>
         /\ lost' = IF SaveCid(p) THEN lost \cup Gap(p) ELSE lost
  BY DEF NightlySync, Start, FetchAdresas, FetchPastatas, SaveCid, SaveDate, Crash

\* No step makes a struck address live again while its change counts as applied.
LEMMA DeadKept ==
  ASSUME Base, [Next]_vars, NEW a \in Address, NEW m \in Nat, m <= Settled, Dead(a, m)
  PROVE  DeadUpTo(changes', addresses'[a], lost', a, m)
<1>1. /\ changes \in Seq(Change) /\ Settled \in Nat /\ Settled <= Len(changes)
      /\ m <= Len(changes) /\ Len(changes) \in Nat
  BY SettledIs DEF Base, TypeOK
<1>2. \A c \in At(changes, a, {"strike"}, m) : c \in lost \/ ~ IsLive(addresses[a])
  BY DEF Dead, DeadUpTo
<1>3. ASSUME NEW c \in At(changes, a, {"strike"}, m)
      PROVE  /\ c \in 1..Len(changes) /\ c <= m
             /\ changes[c].kind = "strike" /\ changes[c].code = a
  BY <1>3 DEF At
<1>4. CASE UNCHANGED <<changes, addresses>> /\ lost \subseteq lost'
  BY <1>2, <1>4 DEF DeadUpTo
<1>5. ASSUME NEW change \in Published, Publish(change)
      PROVE  DeadUpTo(changes', addresses'[a], lost', a, m)
  <2>1. /\ changes' = Append(changes, change) /\ change \in Change
        /\ addresses' = addresses /\ lost' = lost
    BY <1>5, PublishedAssumption DEF Publish, etlVars
  <2>2. At(changes', a, {"strike"}, m) = At(changes, a, {"strike"}, m)
    BY <1>1, <2>1, AtAppend
  <2> QED
    BY <1>2, <2>1, <2>2 DEF DeadUpTo
<1>6. ASSUME NEW p \in Run, NightlySync(p) \/ Crash(p)
      PROVE  DeadUpTo(changes', addresses'[a], lost', a, m)
  <2>1. CASE ApplyAdresas(p)
    <3>1. /\ Written(StruckBy(p)) /\ changes' = changes
          /\ \A b \in StruckBy(p) : ~ IsLive(addresses'[b])
          /\ lost' = lost \ {c \in Fetched(sync[p]) : changes[c].kind = "strike"}
      BY <2>1, AdresasOutcome DEF Base, ApplyAdresas
    <3>2. CASE a \in StruckBy(p)
      BY <3>1, <3>2 DEF DeadUpTo
    <3>3. CASE a \notin StruckBy(p)
      <4>1. addresses'[a] = addresses[a]
        BY <3>1, <3>3 DEF Written
      <4>2. \A c \in At(changes, a, {"strike"}, m) : c \in lost => c \in lost'
        BY <1>3, <3>1, <3>3 DEF StruckBy
      <4> QED
        BY <1>2, <3>1, <4>1, <4>2 DEF DeadUpTo
    <3> QED
      BY <3>2, <3>3
  <2>2. CASE ApplyPastatas(p)
    <3>1. PICK W \in SUBSET Address : PastatasOutcome(p, W)
      BY <2>2, PastatasStep DEF Base
    <3>2. changes' = changes
      BY <2>2 DEF ApplyPastatas
    <3>3. CASE a \in W
      <4>1. ~ Struck(changes, a)
        BY <3>1, <3>3 DEF PastatasOutcome, WrittenFrom
      <4>2. At(changes, a, {"strike"}, m) = {}
        BY <1>1, <4>1 DEF Struck, At
      <4> QED
        BY <3>2, <4>2 DEF DeadUpTo
    <3>4. CASE a \notin W
      <4>1. addresses'[a] = addresses[a]
        BY <3>1, <3>4 DEF PastatasOutcome, Unwritten
      <4>2. \A c \in At(changes, a, {"strike"}, m) : c \in lost => c \in lost'
        BY <1>3, <3>1 DEF PastatasOutcome
      <4> QED
        BY <1>2, <3>2, <4>1, <4>2 DEF DeadUpTo
    <3> QED
      BY <3>3, <3>4
  <2>3. CASE ~ ApplyAdresas(p) /\ ~ ApplyPastatas(p)
    BY <1>4, <1>6, <2>3, QuietSync
  <2> QED
    BY <2>1, <2>2, <2>3
<1>7. ASSUME NEW b \in Address, Load(b)
      PROVE  DeadUpTo(changes', addresses'[a], lost', a, m)
  <2>1. LoadOutcome(b) /\ changes' = changes
    BY <1>7, LoadStep DEF Load
  <2>2. CASE b = a
    <3>1. At(changes, a, {"strike"}, resync.at) = {}
      BY <2>1, <2>2 DEF LoadOutcome, Stands
    <3>2. ASSUME NEW c \in At(changes, a, {"strike"}, m) PROVE c \in lost'
      <4>1. ~ (c <= resync.at)
        BY <1>3, <3>1 DEF At
      <4>2. resync.at < c /\ c <= Settled
        BY <1>1, <1>3, <4>1 DEF Base, TypeOK, Resync, Position
      <4> QED
        BY <1>3, <2>1, <2>2, <4>2 DEF LoadOutcome
    <3> QED
      BY <2>1, <3>2 DEF DeadUpTo
  <2>3. CASE b # a
    <3>1. addresses'[a] = addresses[a]
      BY <2>1, <2>3 DEF LoadOutcome
    <3>2. \A c \in At(changes, a, {"strike"}, m) : c \in lost => c \in lost'
      BY <1>3, <2>1 DEF LoadOutcome
    <3> QED
      BY <1>2, <2>1, <3>1, <3>2 DEF DeadUpTo
  <2> QED
    BY <2>2, <2>3
<1>8. CASE MarkDeleted
  <2>1. MarkOutcome /\ changes' = changes
    BY <1>8, MarkStep DEF MarkDeleted
  <2>2. CASE IsLive(addresses'[a])
    <3>1. addresses'[a] = addresses[a]
      BY <2>1, <2>2 DEF MarkOutcome
    <3>2. \A c \in At(changes, a, {"strike"}, m) : c \in lost => c \in lost'
      BY <1>3, <2>1, <2>2 DEF MarkOutcome
    <3> QED
      BY <1>2, <2>1, <3>1, <3>2 DEF DeadUpTo
  <2>3. CASE ~ IsLive(addresses'[a])
    BY <2>3 DEF DeadUpTo
  <2> QED
    BY <2>2, <2>3
<1>9. CASE MonthlyResync
  <2>1. CASE \/ \E at \in places..Now : BeginResync(at)
             \/ SaveHeadCid \/ StopResync \/ ResumeImport
    BY <1>4, <2>1 DEF BeginResync, SaveHeadCid, StopResync, ResumeImport
  <2> QED
    BY <1>7, <1>8, <1>9, <2>1 DEF MonthlyResync
<1>10. CASE UNCHANGED vars \/ NewDay
  BY <1>4, <1>10 DEF vars, NewDay
<1> QED
  BY <1>5, <1>6, <1>9, <1>10 DEF Next

\* Where the positions of a run and the cursor come from.
LEMMA RunStep ==
  ASSUME Base, [Next]_vars, NEW q \in Run
  PROVE  /\ sync'[q].since \in {sync[q].since, adresai_cid, 0}
         /\ sync'[q].pc = "upsert" =>
              /\ ApplyAdresas(q) \/ sync[q].pc = "upsert"
              /\ sync'[q].adresas = sync[q].adresas
         /\ sync'[q].pc = "cid" =>
              /\ ApplyPastatas(q) \/ sync[q].pc = "cid"
              /\ sync'[q].since = sync[q].since
              /\ sync'[q].adresas = sync[q].adresas
              /\ sync'[q].pastatas = sync[q].pastatas
<1>1. sync \in [Run -> Sync]
  BY DEF Base, TypeOK
<1>2. CASE sync' = sync
  BY <1>1, <1>2
<1>3. ASSUME NEW p \in Run, NightlySync(p) \/ Crash(p)
      PROVE  /\ sync'[q].since \in {sync[q].since, adresai_cid, 0}
             /\ sync'[q].pc = "upsert" =>
                  /\ ApplyAdresas(q) \/ sync[q].pc = "upsert"
                  /\ sync'[q].adresas = sync[q].adresas
             /\ sync'[q].pc = "cid" =>
                  /\ ApplyPastatas(q) \/ sync[q].pc = "cid"
                  /\ sync'[q].since = sync[q].since
                  /\ sync'[q].adresas = sync[q].adresas
                  /\ sync'[q].pastatas = sync[q].pastatas
  <2>1. CASE q # p
    <3>1. sync'[q] = sync[q]
      BY <1>1, <1>3, <2>1 DEF NightlySync, Start, FetchAdresas, FetchPastatas, ApplyAdresas,
                              ApplyPastatas, SaveCid, SaveDate, Crash, Goto
    <3> QED
      BY <3>1
  <2>2. CASE q = p /\ Start(p)
    <3>1. sync'[p] = [SyncIdle EXCEPT !.pc = "adresas", !.since = adresai_cid]
      BY <1>1, <2>2 DEF Start
    <3> QED
      BY <2>2, <3>1 DEF SyncIdle
  <2>3. CASE q = p /\ FetchAdresas(p)
    <3>1. sync'[p] = [sync[p] EXCEPT !.pc = "pastatas", !.adresas = Now]
      BY <1>1, <2>3 DEF FetchAdresas
    <3> QED
      BY <1>1, <2>3, <3>1 DEF Sync
  <2>4. CASE q = p /\ FetchPastatas(p)
    <3>1. \/ sync'[p] = [sync[p] EXCEPT !.pc = "delete", !.pastatas = Now]
          \/ sync'[p] = [SyncIdle EXCEPT !.pc = "date"]
      BY <1>1, <2>4 DEF FetchPastatas
    <3>2. CASE sync'[p] = [sync[p] EXCEPT !.pc = "delete", !.pastatas = Now]
      BY <1>1, <2>4, <3>2 DEF Sync
    <3>3. CASE sync'[p] = [SyncIdle EXCEPT !.pc = "date"]
      BY <2>4, <3>3 DEF SyncIdle
    <3> QED
      BY <3>1, <3>2, <3>3
  <2>5. CASE q = p /\ (ApplyAdresas(p) \/ ApplyPastatas(p))
    <3>1. PICK pc \in {"upsert", "cid"} :
            /\ sync'[p] = [sync[p] EXCEPT !.pc = pc]
            /\ IF pc = "upsert" THEN ApplyAdresas(p) ELSE ApplyPastatas(p)
      BY <1>1, <2>5 DEF ApplyAdresas, ApplyPastatas, Goto
    <3> QED
      BY <1>1, <2>5, <3>1 DEF Sync
  <2>6. CASE q = p /\ SaveCid(p)
    <3>1. sync'[p] = [SyncIdle EXCEPT !.pc = "date"]
      BY <1>1, <2>6 DEF SaveCid
    <3> QED
      BY <2>6, <3>1 DEF SyncIdle
  <2>7. CASE q = p /\ (SaveDate(p) \/ Crash(p))
    <3>1. sync'[p] = SyncIdle
      BY <1>1, <2>7 DEF SaveDate, Crash
    <3> QED
      BY <2>7, <3>1 DEF SyncIdle
  <2> QED
    BY <1>3, <2>1, <2>2, <2>3, <2>4, <2>5, <2>6, <2>7 DEF NightlySync
<1>4. CASE UNCHANGED vars \/ NewDay
  BY <1>2, <1>4 DEF vars, NewDay
<1>5. ASSUME NEW change \in Published, Publish(change) PROVE sync' = sync
  BY <1>5 DEF Publish, etlVars
<1>6. CASE MonthlyResync
  BY <1>2, <1>6 DEF MonthlyResync, BeginResync, Load, SaveHeadCid, MarkDeleted, StopResync,
                    ResumeImport
<1> QED
  BY <1>2, <1>3, <1>4, <1>5, <1>6 DEF Next

LEMMA CursorStep ==
  ASSUME Base, [Next]_vars
  PROVE  \/ adresai_cid' = adresai_cid
         \/ \E p \in Run : SaveCid(p)
         \/ SaveHeadCid
  BY DEF Next, vars, Publish, etlVars, NightlySync, Start, FetchAdresas, FetchPastatas,
         ApplyAdresas, ApplyPastatas, SaveDate, Crash, NewDay, MonthlyResync, BeginResync, Load,
         MarkDeleted, StopResync, ResumeImport

\* The positions of Base, with their types.
LEMMA Typed ==
  ASSUME Base
  PROVE  /\ changes \in Seq(Change) /\ Len(changes) \in Nat
         /\ adresai_cid \in Nat /\ adresai_cid <= Settled
         /\ resync.at \in Nat /\ resync.at <= Settled
         /\ Settled \in Nat /\ Settled <= Len(changes)
         /\ \A p \in Run :
              /\ sync[p] \in Sync /\ SyncSound(sync[p])
              /\ sync[p].since \in Nat /\ sync[p].since <= Settled
              /\ sync[p].pastatas \in Nat /\ sync[p].pastatas <= Settled
              /\ sync[p].adresas \in Nat
              /\ sync[p].pc \in {"delete", "upsert", "cid"} =>
                   sync[p].adresas <= sync[p].pastatas /\ sync[p].adresas <= Settled
<1>1. /\ changes \in Seq(Change) /\ Len(changes) \in Nat
      /\ adresai_cid \in Nat /\ resync.at \in Nat
      /\ \A p \in Run : /\ sync[p] \in Sync /\ SyncSound(sync[p]) /\ sync[p].since \in Nat
                        /\ sync[p].pastatas \in Nat /\ sync[p].adresas \in Nat
  BY DEF Base, TypeOK, PositionsSound, Position, Resync, Sync
<1>2. /\ Settled \in Nat /\ Settled <= Len(changes)
      /\ adresai_cid <= Settled /\ resync.at <= Settled
      /\ \A p \in Run : sync[p].since <= Settled /\ sync[p].pastatas <= Settled
  BY SettledIs DEF Base
<1>3. \A p \in Run : sync[p].pc \in {"delete", "upsert", "cid"} => sync[p].adresas <= sync[p].pastatas
  BY <1>1 DEF SyncSound
<1> QED
  BY <1>1, <1>2, <1>3

LEMMA DeadStep ==
  ASSUME Base, DeadInv, [Next]_vars
  PROVE  DeadInv'
<1> SUFFICES ASSUME NEW a \in Address
             PROVE  /\ DeadUpTo(changes', addresses'[a], lost', a, adresai_cid')
                    /\ \A q \in Run :
                         /\ DeadUpTo(changes', addresses'[a], lost', a, sync'[q].since)
                         /\ sync'[q].pc \in {"upsert", "cid"} =>
                              DeadUpTo(changes', addresses'[a], lost', a, sync'[q].adresas)
  BY DEF DeadInv, Dead
<1>1. \A m \in Nat : m <= Settled /\ Dead(a, m) => DeadUpTo(changes', addresses'[a], lost', a, m)
  BY DeadKept
<1>2. DeadUpTo(changes', addresses'[a], lost', a, adresai_cid)
  BY <1>1, Typed DEF DeadInv
<1>3. \A q \in Run : DeadUpTo(changes', addresses'[a], lost', a, sync[q].since)
  BY <1>1, Typed DEF DeadInv
<1>4. \A q \in Run : sync[q].pc \in {"upsert", "cid"} =>
        DeadUpTo(changes', addresses'[a], lost', a, sync[q].adresas)
  BY <1>1, Typed DEF DeadInv
<1>5. DeadUpTo(changes', addresses'[a], lost', a, adresai_cid')
  <2>1. ASSUME NEW p \in Run, SaveCid(p)
        PROVE  DeadUpTo(changes', addresses'[a], lost', a, adresai_cid')
    <3>1. /\ adresai_cid' = MaxCidOf(sync[p]) /\ lost' = lost \cup Gap(p) /\ changes' = changes
          /\ sync[p].pc = "cid"
      BY <2>1 DEF SaveCid
    <3>2. \A c \in At(changes, a, {"strike"}, sync[p].adresas) : c \in lost' \/ ~ IsLive(addresses'[a])
      BY <1>4, <3>1 DEF DeadUpTo
    <3>3. ASSUME NEW c \in At(changes, a, {"strike"}, MaxCidOf(sync[p]))
          PROVE  c \in lost' \/ ~ IsLive(addresses'[a])
      <4>1. CASE c <= sync[p].adresas
        BY <3>2, <3>3, <4>1 DEF At
      <4>2. CASE ~ (c <= sync[p].adresas)
        <5>1. sync[p].adresas < c /\ c <= MaxCidOf(sync[p]) /\ c \in 1..Len(changes)
          BY <3>3, <4>2, Typed DEF At
        <5>2. c \in Gap(p)
          BY <3>3, <5>1 DEF Gap, Between, Now, At
        <5> QED
          BY <3>1, <5>2
      <4> QED
        BY <4>1, <4>2
    <3> QED
      BY <3>1, <3>3 DEF DeadUpTo
  <2>2. CASE SaveHeadCid
    <3>1. /\ adresai_cid' = HeadCid /\ lost' = lost \cup Passed /\ changes' = changes
      BY <2>2 DEF SaveHeadCid
    <3>2. ASSUME NEW c \in At(changes, a, {"strike"}, HeadCid)
          PROVE  c \in lost' \/ ~ IsLive(addresses'[a])
      <4>1. c \in 1..Len(changes) /\ c <= HeadCid /\ changes[c].kind = "strike" /\ changes[c].code = a
        BY <3>2 DEF At
      <4>2. CASE c <= adresai_cid
        <5>1. c \in At(changes, a, {"strike"}, adresai_cid)
          BY <4>1, <4>2 DEF At
        <5> QED
          BY <1>2, <3>1, <5>1 DEF DeadUpTo
      <4>3. CASE ~ (c <= adresai_cid)
        <5>1. c \in Between(Kind, adresai_cid, HeadCid)
          BY <4>1, <4>3, Typed DEF Between, Now, Kind
        <5>2. CASE c <= resync.at
          <6>1. c \in At(changes, a, {"strike"}, resync.at)
            BY <4>1, <5>2 DEF At
          <6>2. ~ InRegister(a, resync.at)
            BY <6>1, RegisterIs DEF Base, Stands
          <6> QED
            BY <3>1, <4>1, <5>1, <6>2 DEF Passed
        <5>3. CASE ~ (c <= resync.at)
          <6>1. c > resync.at
            BY <4>1, <5>3, Typed
          <6> QED
            BY <3>1, <5>1, <6>1 DEF Passed
        <5> QED
          BY <5>2, <5>3
      <4> QED
        BY <4>2, <4>3
    <3> QED
      BY <3>1, <3>2 DEF DeadUpTo
  <2>3. CASE adresai_cid' = adresai_cid
    BY <1>2, <2>3
  <2> QED
    BY <2>1, <2>2, <2>3, CursorStep
<1>6. ASSUME NEW q \in Run
      PROVE  DeadUpTo(changes', addresses'[a], lost', a, sync'[q].since)
  <2>1. DeadUpTo(changes', addresses'[a], lost', a, 0)
    BY DEF DeadUpTo, At
  <2>2. sync'[q].since \in {sync[q].since, adresai_cid, 0}
    BY RunStep
  <2> QED
    BY <1>2, <1>3, <2>1, <2>2
<1>7. ASSUME NEW q \in Run, sync'[q].pc \in {"upsert", "cid"}
      PROVE  DeadUpTo(changes', addresses'[a], lost', a, sync'[q].adresas)
  <2>1. sync'[q].adresas = sync[q].adresas
    BY <1>7, RunStep
  <2>2. CASE ApplyAdresas(q)
    <3>1. /\ \A b \in StruckBy(q) : ~ IsLive(addresses'[b])
          /\ changes' = changes /\ lost' = lost \ {c \in Fetched(sync[q]) : changes[c].kind = "strike"}
      BY <2>2, AdresasOutcome DEF Base, ApplyAdresas
    <3>2. ASSUME NEW c \in At(changes, a, {"strike"}, sync[q].adresas)
          PROVE  c \in lost' \/ ~ IsLive(addresses'[a])
      <4>1. /\ c \in 1..Len(changes) /\ c <= sync[q].adresas
            /\ changes[c].kind = "strike" /\ changes[c].code = a
        BY <3>2 DEF At
      <4>2. CASE sync[q].since <= c
        <5>1. c \in Fetched(sync[q])
          BY <4>1, <4>2, Typed, FetchedIs DEF Adresas
        <5>2. a \in StruckBy(q)
          BY <4>1, <5>1 DEF StruckBy
        <5> QED
          BY <3>1, <5>2
      <4>3. CASE ~ (sync[q].since <= c)
        <5>1. c <= sync[q].since
          BY <4>1, <4>3, Typed
        <5>2. c \in At(changes, a, {"strike"}, sync[q].since)
          BY <4>1, <5>1 DEF At
        <5> QED
          BY <1>3, <3>1, <5>2 DEF DeadUpTo
      <4> QED
        BY <4>2, <4>3
    <3> QED
      BY <2>1, <3>1, <3>2 DEF DeadUpTo
  <2>3. CASE sync[q].pc \in {"upsert", "cid"}
    BY <1>4, <2>1, <2>3
  <2>4. CASE ApplyPastatas(q)
    BY <1>4, <2>1, <2>4 DEF ApplyPastatas
  <2> QED
    BY <1>7, <2>2, <2>3, <2>4, RunStep
<1> QED
  BY <1>5, <1>6, <1>7

\* An address the register struck off at or before the cursor is deleted, unless the
\* deletion was passed over or undone by older files: crashes, repeated batches and
\* overlapping runs do not revive it (apply_adresas_changes before
\* apply_pastatas_changes, which asks the register for every address it writes).
THEOREM StruckDeletedCorrect == Spec => []StruckDeleted
<1>1. Init => Base /\ DeadInv
  <2>1. Init => DeadInv
    BY DEF Init, DeadInv, Dead, DeadUpTo, IsLive
  <2> QED
    BY <2>1, BaseInit
<1>2. Base /\ DeadInv /\ [Next]_vars => Base' /\ DeadInv'
  BY BaseStep, DeadStep
<1>3. Base /\ DeadInv => StruckDeleted
  <2> SUFFICES ASSUME Base, DeadInv, NEW a \in Address,
                      NEW c \in Of(a, {"strike"}, 0, adresai_cid)
               PROVE  c \in lost \/ ~ Live(a)
    BY DEF StruckDeleted
  <2>1. c \in At(changes, a, {"strike"}, adresai_cid)
    BY OfAt DEF Base
  <2> QED
    BY <2>1, FollowsIs DEF Base, DeadInv, Dead, DeadUpTo
<1> QED
  BY <1>1, <1>2, <1>3, PTL DEF Spec

-----------------------------------------------------------------------------
(* What a row shows *)

\* A row that agrees with the log at n shows it up to k, if nothing between them
\* counts.
LEMMA ShowsFrom ==
  ASSUME NEW log \in Seq(Change), Ordered(log), NEW a \in Address, ~ Struck(log, a),
         NEW row, NEW gone, NEW n \in Nat, n <= Len(log), Agrees(log, row, a, n),
         NEW k \in Nat, k <= Len(log), Latest(log, a, k) \in gone \/ Latest(log, a, k) <= n
  PROVE  Shows(log, row, gone, a, k)
<1>1. CASE Latest(log, a, k) \in gone
  BY <1>1 DEF Shows
<1>2. CASE k <= n
  <2>1. n \in k..Len(log)
    BY <1>2
  <2> QED
    BY <2>1 DEF Shows
<1>3. CASE ~ (k <= n) /\ Latest(log, a, k) <= n
  <2>1. n <= k
    BY <1>3
  <2>2. Agrees(log, row, a, k)
    BY <1>3, <2>1, Carry
  <2>3. k \in k..Len(log)
    OBVIOUS
  <2> QED
    BY <2>2, <2>3 DEF Shows
<1> QED
  BY <1>1, <1>2, <1>3

\* ... and so does one that shows it up to an earlier position.
LEMMA ShowsBeyond ==
  ASSUME NEW log \in Seq(Change), Ordered(log), NEW a \in Address, ~ Struck(log, a),
         NEW row, NEW gone, NEW b \in Nat, Shows(log, row, gone, a, b),
         NEW k \in Nat, b <= k, k <= Len(log), Latest(log, a, k) \in gone \/ Latest(log, a, k) <= b
  PROVE  Shows(log, row, gone, a, k)
<1> SUFFICES ASSUME Latest(log, a, k) \notin gone PROVE Shows(log, row, gone, a, k)
  BY DEF Shows
<1> DEFINE c == Latest(log, a, k)
<1>1. c \in Nat /\ c <= b /\ Len(log) \in Nat
  BY LastAt DEF Latest
<1>2. At(log, a, Pastatas, b) = At(log, a, Pastatas, k)
  <2>1. \A x \in At(log, a, Pastatas, k) : x <= c /\ x \in Nat
    BY LastAt, AtBounds DEF Latest
  <2>2. \A x \in At(log, a, Pastatas, k) : x <= b
    BY <1>1, <2>1
  <2> QED
    BY <2>2, <1>1 DEF At
<1>3. Latest(log, a, b) = c
  BY <1>2 DEF Latest
<1>4. PICK n \in b..Len(log) : Agrees(log, row, a, n)
  BY <1>3 DEF Shows
<1>5. n \in Nat /\ n <= Len(log) /\ c <= n
  BY <1>1, <1>4
<1> QED
  BY <1>4, <1>5, ShowsFrom

\* The last change of an address is one.
LEMMA LatestIs ==
  ASSUME Base, NEW a, NEW k \in Nat
  PROVE  /\ Latest(changes, a, k) \in Nat /\ Latest(changes, a, k) <= k
         /\ Latest(changes, a, k) = 0 \/ Latest(changes, a, k) \in 1..Len(changes)
         /\ Latest(changes, a, k) # 0 =>
              /\ changes[Latest(changes, a, k)].kind \in Pastatas
              /\ changes[Latest(changes, a, k)].code = a
<1>1. LET l == Last(At(changes, a, Pastatas, k)) IN
        l \in Nat /\ l <= k /\ (l # 0 => l \in At(changes, a, Pastatas, k))
  BY LastAt DEF Base, TypeOK
<1> QED
  BY <1>1 DEF Latest, At

LEMMA AgreesLive ==
  ASSUME NEW row \in Row, ~ row.deleted, NEW log, NEW a, NEW n, Stands(log, a, n),
         row.ver = Text(log, a, n)
  PROVE  Agrees(log, row, a, n)
<1>1. row # None
  BY NoneAssumption
<1>2. IsLive(row) = Stands(log, a, n)
  BY <1>1 DEF IsLive, Stands
<1> QED
  BY <1>2 DEF Agrees

\* A row the nightly sync wrote shows the record it was written from.
LEMMA ShowsWritten ==
  ASSUME Base, NEW p \in Run, NEW a \in Address, NEW d \in 1..Len(changes), WrittenFrom(p, a, d),
         NEW k \in Nat, k <= Settled
  PROVE  Shows(changes, addresses'[a], lost', a, k)
<1>1. /\ changes \in Seq(Change) /\ Ordered(changes) /\ Len(changes) \in Nat
      /\ Len(changes) <= MaxCid /\ d \in Nat /\ d <= Len(changes) /\ d # 0
      /\ k <= Len(changes) /\ Settled \in Nat
  BY Typed DEF Base, LogSound, TypeOK, Now
<1>2. /\ changes[d].kind \in Full \cup {"raze"} /\ changes[d].code = a /\ ~ Struck(changes, a)
      /\ changes[d].kind = "raze" => ~ IsLive(addresses'[a])
      /\ changes[d].kind # "raze" => addresses'[a] = [ver |-> d, deleted |-> FALSE]
  BY DEF WrittenFrom
<1>3. Latest(changes, a, d) = d
  <2>1. d \in At(changes, a, Pastatas, d)
    BY <1>2 DEF At, Pastatas, Kind, Adresas, Full
  <2>2. \A c \in At(changes, a, Pastatas, d) : c <= d
    BY DEF At
  <2>3. At(changes, a, Pastatas, d) \in SUBSET Nat
    BY <1>1, AtBounds
  <2> QED
    BY <2>1, <2>2, <2>3, LastIs DEF Latest
<1>4. Agrees(changes, addresses'[a], a, d)
  <2>1. CASE changes[d].kind = "raze"
    BY <1>2, <1>3, <2>1 DEF Agrees, Stands, IsLive
  <2>2. CASE changes[d].kind # "raze"
    <3>1. addresses'[a] = [ver |-> d, deleted |-> FALSE] /\ changes[d].kind \in Full
      BY <1>2, <2>2
    <3>2. addresses'[a] \in Row /\ ~ addresses'[a].deleted /\ addresses'[a].ver = d
      <4>1. d \in Position
        BY <1>1, MaxCidAssumption DEF Position
      <4>2. [ver |-> d, deleted |-> FALSE] \in Row
        BY <4>1 DEF Row
      <4> QED
        BY <3>1, <4>2
    <3>3. Text(changes, a, d) = d
      <4>1. d \in At(changes, a, Full \cup {"patch"}, d)
        BY <1>2, <3>1 DEF At
      <4>2. \A c \in At(changes, a, Full \cup {"patch"}, d) : c <= d
        BY DEF At
      <4>3. At(changes, a, Full \cup {"patch"}, d) \in SUBSET Nat
        BY <1>1, AtBounds
      <4> QED
        BY <4>1, <4>2, <4>3, LastIs DEF Text
    <3>4. Stands(changes, a, d)
      <4>1. changes[d].kind \in Pastatas
        BY <3>1 DEF Full, Pastatas, Kind, Adresas
      <4>2. PICK e \in 1..(d - 1) : changes[e] = [kind |-> "enlist", code |-> a]
        BY <1>1, <1>2, <4>1 DEF Ordered
      <4>3. e \in At(changes, a, {"enlist"}, d)
        BY <1>1, <4>2 DEF At
      <4>4. At(changes, a, {"strike"}, d) = {}
        BY <1>1, <1>2 DEF Struck, At
      <4> QED
        BY <1>1, <1>3, <2>2, <4>3, <4>4 DEF Stands
    <3> QED
      BY <3>2, <3>3, <3>4, AgreesLive
  <2> QED
    BY <2>1, <2>2
<1>5. Latest(changes, a, k) \in lost' \/ Latest(changes, a, k) <= d
  <2> SUFFICES ASSUME ~ (Latest(changes, a, k) <= d) PROVE Latest(changes, a, k) \in lost'
    OBVIOUS
  <2> DEFINE c == Latest(changes, a, k)
  <2>1. c \in Nat /\ c <= k /\ c # 0 /\ c \in 1..Len(changes)
    BY <1>1, LatestIs
  <2>2. changes[c].kind \in Pastatas /\ changes[c].code = a
    BY <2>1, LatestIs
  <2> HIDE DEF c
  <2>3. d < c /\ c <= Settled
    BY <1>1, <2>1 DEF c
  <2> QED
    BY <2>1, <2>2, <2>3 DEF WrittenFrom, c
<1> QED
  BY <1>1, <1>2, <1>4, <1>5, ShowsFrom

\* A row the resync wrote shows its files.
LEMMA ShowsLoaded ==
  ASSUME Base, NEW a \in Address, LoadOutcome(a), ~ Struck(changes, a), NEW k \in Nat, k <= Settled
  PROVE  Shows(changes, addresses'[a], lost', a, k)
<1>1. /\ changes \in Seq(Change) /\ Ordered(changes) /\ Len(changes) \in Nat
      /\ resync.at \in Nat /\ resync.at <= Len(changes) /\ k <= Len(changes) /\ Settled \in Nat
  BY Typed DEF Base, LogSound
<1>2. /\ addresses'[a] = [ver |-> Text(changes, a, resync.at), deleted |-> FALSE]
      /\ Stands(changes, a, resync.at)
  BY DEF LoadOutcome
<1>3. addresses'[a] \in Row
  <2>1. Upserted(Content(a, resync.at)) \in Row
    BY <1>1, RowIs DEF Base
  <2>2. Upserted(Content(a, resync.at)) = addresses'[a]
    BY <1>2, RegisterIs DEF Upserted, Base
  <2> QED
    BY <2>1, <2>2
<1>4. Agrees(changes, addresses'[a], a, resync.at)
  <2>1. ~ addresses'[a].deleted /\ addresses'[a].ver = Text(changes, a, resync.at)
    BY <1>2
  <2> QED
    BY <1>2, <1>3, <2>1, AgreesLive
<1>5. Latest(changes, a, k) \in lost' \/ Latest(changes, a, k) <= resync.at
  <2> DEFINE c == Latest(changes, a, k)
  <2> SUFFICES ASSUME ~ (c <= resync.at) PROVE c \in lost'
    OBVIOUS
  <2>1. c \in Nat /\ c <= k /\ c # 0 /\ c \in 1..Len(changes)
    BY <1>1, LatestIs
  <2>2. changes[c].code = a
    BY <2>1, LatestIs
  <2> HIDE DEF c
  <2>3. resync.at < c /\ c <= Settled
    BY <1>1, <2>1
  <2> QED
    BY <2>1, <2>2, <2>3 DEF LoadOutcome
<1> QED
  BY <1>1, <1>4, <1>5, ShowsFrom

\* A row that is not live, of an address that is not in the files, shows them.
LEMMA ShowsMarked ==
  ASSUME Base, NEW a \in Address, ~ Struck(changes, a), NEW row, ~ IsLive(row), NEW gone,
         ~ Stands(changes, a, resync.at), NEW k \in Nat, k <= Settled,
         Latest(changes, a, k) \in gone \/ Latest(changes, a, k) <= resync.at
  PROVE  Shows(changes, row, gone, a, k)
<1>1. /\ changes \in Seq(Change) /\ Ordered(changes) /\ Len(changes) \in Nat
      /\ resync.at \in Nat /\ resync.at <= Len(changes) /\ k <= Len(changes)
  BY Typed DEF Base, LogSound
<1>2. Agrees(changes, row, a, resync.at)
  BY DEF Agrees, Stands, IsLive
<1> QED
  BY <1>1, <1>2, ShowsFrom

\* No step makes a row forget what it shows, unless the change counts as lost then.
LEMMA ShownKept ==
  ASSUME Base, Mirrored, [Next]_vars, NEW a \in Address, NEW m \in Nat, m <= Settled, Shown(a, m)
  PROVE  ShowsUpTo(changes', addresses'[a], lost', a, m)
<1>1. /\ changes \in Seq(Change) /\ Settled \in Nat /\ Settled <= Len(changes)
      /\ m <= Len(changes) /\ Len(changes) \in Nat /\ lost \subseteq 1..MaxCid
  BY Typed DEF Base, TypeOK
<1>2. ASSUME NEW change \in Published, Publish(change)
      PROVE  ShowsUpTo(changes', addresses'[a], lost', a, m)
  <2>1. /\ changes' = Append(changes, change) /\ change \in Change
        /\ addresses' = addresses /\ lost' = lost
    BY <1>2, PublishedAssumption DEF Publish, etlVars
  <2> QED
    BY <1>1, <2>1, ShowsAppend DEF Shown
\* The other steps, for an address that is not struck off.
<1>3. ASSUME changes' = changes, ~ Struck(changes, a), NEW k \in 0..m
      PROVE  Shows(changes, addresses'[a], lost', a, k)
  <2>1. k \in Nat /\ k <= Settled /\ Shows(changes, addresses[a], lost, a, k)
    BY <1>1, <1>3 DEF Shown, ShowsUpTo
  <2> DEFINE c == Latest(changes, a, k)
  <2>2. c \in lost => c \in 1..Len(changes) /\ changes[c].kind \in Pastatas /\ changes[c].code = a
    BY <1>1, <2>1, LatestIs
  <2> HIDE DEF c
  <2>3. CASE addresses'[a] = addresses[a] /\ (c \in lost => c \in lost')
    BY <2>1, <2>3 DEF Shows, c
  <2>4. ASSUME NEW p \in Run, NightlySync(p) \/ Crash(p)
        PROVE  Shows(changes, addresses'[a], lost', a, k)
    <3>1. CASE ApplyAdresas(p)
      <4>1. /\ Written(StruckBy(p))
            /\ \A b \in StruckBy(p) : Struck(changes, b)
            /\ lost' = lost \ {e \in Fetched(sync[p]) : changes[e].kind = "strike"}
        BY <3>1, AdresasOutcome DEF Base
      <4>2. addresses'[a] = addresses[a]
        BY <1>3, <4>1 DEF Written
      <4>3. c \in lost => c \in lost'
        BY <2>2, <4>1 DEF Pastatas, Adresas
      <4> QED
        BY <2>3, <4>2, <4>3
    <3>2. CASE ApplyPastatas(p)
      <4>1. PICK W \in SUBSET Address : PastatasOutcome(p, W)
        BY <3>2, PastatasStep DEF Base
      <4>2. CASE a \in W
        BY <2>1, <4>1, <4>2, ShowsWritten DEF PastatasOutcome
      <4>3. CASE a \notin W
        <5>1. Unwritten(p, a)
          BY <4>1, <4>3 DEF PastatasOutcome
        <5> QED
          BY <2>2, <2>3, <5>1 DEF Unwritten
      <4> QED
        BY <4>2, <4>3
    <3>3. CASE ~ ApplyAdresas(p) /\ ~ ApplyPastatas(p)
      BY <2>3, <2>4, <3>3, QuietSync
    <3> QED
      BY <3>1, <3>2, <3>3
  <2>5. ASSUME NEW b \in Address, Load(b)
        PROVE  Shows(changes, addresses'[a], lost', a, k)
    <3>1. LoadOutcome(b)
      BY <2>5, LoadStep
    <3>2. CASE b = a
      BY <1>3, <2>1, <3>1, <3>2, ShowsLoaded
    <3>3. CASE b # a
      BY <2>2, <2>3, <3>1, <3>3 DEF LoadOutcome
    <3> QED
      BY <3>2, <3>3
  <2>6. CASE MarkDeleted
    <3>1. MarkOutcome
      BY <2>6, MarkStep
    <3>2. CASE Stale(a)
      <4>1. ~ Stands(changes, a, resync.at)
        BY <3>1, <3>2 DEF Mirrored, MarkOutcome, Stale, Base, ResyncSound
      <4>2. c \in lost' \/ c <= resync.at
        <5> SUFFICES ASSUME ~ (c <= resync.at) PROVE c \in lost'
          OBVIOUS
        <5>1. c \in Nat /\ c <= k /\ c # 0 /\ c \in 1..Len(changes) /\ changes[c].code = a
          BY <2>1, LatestIs, Typed DEF c
        <5>2. resync.at < c /\ c <= Settled
          BY <1>1, <2>1, <5>1, Typed
        <5> QED
          BY <3>1, <3>2, <5>1, <5>2 DEF MarkOutcome
      <4>3. ~ IsLive(addresses'[a])
        BY <3>1, <3>2 DEF MarkOutcome
      <4> QED
        BY <1>3, <2>1, <4>1, <4>2, <4>3, ShowsMarked DEF c
    <3>3. CASE ~ Stale(a)
      <4>1. addresses'[a] = addresses[a]
        BY <3>1, <3>3 DEF MarkOutcome
      <4>2. CASE c \in lost /\ c \notin lost'
        <5>1. ~ Stands(changes, a, resync.at) /\ ~ IsLive(addresses'[a]) /\ c <= resync.at
          BY <2>2, <3>1, <4>2 DEF MarkOutcome
        <5> QED
          BY <1>3, <2>1, <5>1, ShowsMarked DEF c
      <4> QED
        BY <2>3, <4>1, <4>2
    <3> QED
      BY <3>2, <3>3
  <2>7. CASE MonthlyResync
    <3>1. CASE \/ \E at \in places..Now : BeginResync(at)
               \/ SaveHeadCid \/ StopResync \/ ResumeImport
      BY <2>3, <3>1 DEF BeginResync, SaveHeadCid, StopResync, ResumeImport
    <3> QED
      BY <2>5, <2>6, <2>7, <3>1 DEF MonthlyResync
  <2>8. CASE UNCHANGED vars \/ NewDay
    BY <2>3, <2>8 DEF vars, NewDay
  <2>9. CASE \E change \in Published : Publish(change)
    <3>1. addresses' = addresses /\ lost' = lost
      BY <2>9 DEF Publish, etlVars
    <3> QED
      BY <2>3, <3>1
  <2> QED
    BY <2>4, <2>7, <2>8, <2>9 DEF Next
<1>4. CASE changes' = changes
  BY <1>3, <1>4 DEF ShowsUpTo
<1>5. changes' = changes \/ \E change \in Published : Publish(change)
  BY DEF Next, vars, NightlySync, Start, FetchAdresas, FetchPastatas, ApplyAdresas, ApplyPastatas,
         SaveCid, SaveDate, Crash, NewDay, MonthlyResync, BeginResync, Load, SaveHeadCid,
         MarkDeleted, StopResync, ResumeImport
<1> QED
  BY <1>2, <1>4, <1>5

\* The cursor a run will save is one of its positions.
LEMMA CidBound ==
  ASSUME Base, NEW p \in Run, sync[p].pc \in {"upsert", "cid"}
  PROVE  /\ CidIn(changes, sync[p]) = MaxCidOf(sync[p])
         /\ MaxCidOf(sync[p]) \in Nat /\ MaxCidOf(sync[p]) <= Settled
         /\ MaxCidOf(sync[p]) = sync[p].since \/ MaxCidOf(sync[p]) <= sync[p].pastatas
<1>1. /\ MaxCidOf(sync[p]) \in Nat
      /\ MaxCidOf(sync[p]) = sync[p].since \/ MaxCidOf(sync[p]) \in Fetched(sync[p])
  BY Typed, MaxCidIs DEF Base
<1>2. \A c \in Fetched(sync[p]) : c \in Nat /\ c <= sync[p].pastatas
  <2> SUFFICES ASSUME NEW c \in Fetched(sync[p]) PROVE c \in Nat /\ c <= sync[p].pastatas
    OBVIOUS
  <2>1. c \in 1..Len(changes) /\ (c <= sync[p].adresas \/ c <= sync[p].pastatas)
    BY Typed, FetchedIs
  <2>2. sync[p].adresas <= sync[p].pastatas
    BY Typed
  <2> QED
    BY <2>1, <2>2, Typed
<1>3. CidIn(changes, sync[p]) = MaxCidOf(sync[p])
  BY Typed, CidIs
<1> QED
  BY <1>1, <1>2, <1>3, Typed

\* After apply_pastatas_changes a row shows all that the run fetched.
LEMMA ShownBatch ==
  ASSUME Base, Mirrored, ShownInv, [Next]_vars, NEW p \in Run, ApplyPastatas(p), NEW a \in Address
  PROVE  ShowsUpTo(changes, addresses'[a], lost', a, MaxCidOf(sync[p]))
<1> SUFFICES ASSUME ~ Struck(changes, a), NEW k \in 0..MaxCidOf(sync[p])
             PROVE  Shows(changes, addresses'[a], lost', a, k)
  BY DEF ShowsUpTo
<1>1. /\ changes' = changes /\ sync[p].pc = "upsert"
      /\ changes \in Seq(Change) /\ Ordered(changes)
  BY Typed DEF ApplyPastatas, Base, LogSound
<1>2. /\ sync[p].since \in Nat /\ sync[p].since <= Settled /\ sync[p].pastatas \in Nat
      /\ MaxCidOf(sync[p]) \in Nat /\ MaxCidOf(sync[p]) <= Settled
      /\ MaxCidOf(sync[p]) = sync[p].since \/ MaxCidOf(sync[p]) <= sync[p].pastatas
      /\ Settled \in Nat /\ Settled <= Len(changes) /\ Len(changes) \in Nat
  BY <1>1, CidBound, Typed
<1>3. PICK W \in SUBSET Address : PastatasOutcome(p, W)
  BY PastatasStep DEF Base
<1>4. CASE a \in W
  BY <1>2, <1>3, <1>4, ShowsWritten DEF PastatasOutcome
<1>5. CASE a \notin W
  <2>1. Unwritten(p, a)
    BY <1>3, <1>5 DEF PastatasOutcome
  <2>2. ShowsUpTo(changes, addresses'[a], lost', a, sync[p].since)
    BY <1>1, <1>2, ShownKept DEF ShownInv
  <2>3. CASE k <= sync[p].since
    BY <1>2, <2>2, <2>3 DEF ShowsUpTo
  <2>4. CASE ~ (k <= sync[p].since)
    <3> DEFINE c == Latest(changes, a, k)
    <3>1. /\ c \in Nat /\ c <= k
          /\ c # 0 => c \in 1..Len(changes) /\ changes[c].kind \in Pastatas /\ changes[c].code = a
      BY <1>2, LatestIs
    <3> HIDE DEF c
    <3>2. c \in lost' \/ c <= sync[p].since
      <4> SUFFICES ASSUME ~ (c <= sync[p].since) PROVE c \in lost'
        OBVIOUS
      <4>1. c # 0 /\ sync[p].since <= c /\ c <= sync[p].pastatas
        BY <1>2, <2>4, <3>1
      <4>2. c \in Fetched(sync[p])
        BY <1>2, <3>1, <4>1, FetchedIs
      <4> QED
        BY <2>1, <3>1, <4>1, <4>2 DEF Unwritten
    <3>3. Shows(changes, addresses'[a], lost', a, sync[p].since)
      BY <1>2, <2>2 DEF ShowsUpTo
    <3>4. sync[p].since <= k /\ k <= Len(changes) /\ k \in Nat
      BY <1>2, <2>4
    <3> QED
      BY <1>1, <1>2, <3>2, <3>3, <3>4, ShowsBeyond DEF c
  <2> QED
    BY <2>3, <2>4
<1> QED
  BY <1>4, <1>5

\* After _save_head_cid a row shows all that the head of Adresas promises.
LEMMA ShownHead ==
  ASSUME Base, Mirrored, ShownInv, [Next]_vars, SaveHeadCid, NEW a \in Address
  PROVE  ShowsUpTo(changes, addresses'[a], lost', a, HeadCid)
<1> SUFFICES ASSUME ~ Struck(changes, a), NEW k \in 0..HeadCid
             PROVE  Shows(changes, addresses'[a], lost', a, k)
  BY DEF ShowsUpTo
<1>1. /\ changes' = changes /\ lost' = lost \cup Passed /\ resync.todo = {}
      /\ changes \in Seq(Change) /\ Ordered(changes)
  BY Typed DEF SaveHeadCid, Base, LogSound
<1>2. /\ HeadCid \in Nat /\ HeadCid <= Len(changes) /\ Len(changes) \in Nat
      /\ adresai_cid \in Nat /\ adresai_cid <= Settled
      /\ resync.at \in Nat /\ resync.at <= Settled /\ Settled \in Nat
  BY HeadCidIs, Typed DEF Base
<1>3. ShowsUpTo(changes, addresses'[a], lost', a, adresai_cid)
  BY <1>1, <1>2, ShownKept DEF ShownInv
<1>4. k \in Nat /\ k <= Len(changes)
  BY <1>2
<1>5. CASE k <= adresai_cid
  BY <1>2, <1>3, <1>5 DEF ShowsUpTo
<1>6. CASE ~ (k <= adresai_cid)
  <2> DEFINE c == Latest(changes, a, k)
  <2>1. /\ c \in Nat /\ c <= k
        /\ c # 0 => c \in 1..Len(changes) /\ changes[c].kind \in Pastatas /\ changes[c].code = a
    BY <1>4, LatestIs
  <2> HIDE DEF c
  <2>2. CASE c \in lost' \/ c <= adresai_cid
    <3>1. Shows(changes, addresses'[a], lost', a, adresai_cid)
      BY <1>2, <1>3 DEF ShowsUpTo
    <3>2. adresai_cid <= k
      BY <1>2, <1>4, <1>6
    <3> QED
      BY <1>1, <1>2, <1>4, <2>2, <3>1, <3>2, ShowsBeyond DEF c
  <2>3. CASE c \notin lost' /\ ~ (c <= adresai_cid)
    <3>1. c \in Between(Kind, adresai_cid, HeadCid)
      BY <1>2, <2>1, <2>3 DEF Between, Now, Pastatas
    <3>2. ~ (c > resync.at) /\ InRegister(a, resync.at)
      <4>1. c # 0
        BY <1>2, <2>3
      <4> QED
        BY <1>1, <2>1, <2>3, <3>1, <4>1 DEF Passed
    <3>3. Stands(changes, a, resync.at) /\ c <= resync.at
      BY <1>2, <2>1, <3>2, RegisterIs DEF Base
    <3>4. ShowsUpTo(changes, addresses'[a], lost', a, resync.at)
      BY <1>1, <1>2, <3>3, ShownKept DEF ShownInv
    <3>5. CASE k <= resync.at
      BY <1>2, <3>4, <3>5 DEF ShowsUpTo
    <3>6. CASE ~ (k <= resync.at)
      <4>1. Shows(changes, addresses'[a], lost', a, resync.at)
        BY <1>2, <3>4 DEF ShowsUpTo
      <4>2. resync.at <= k
        BY <1>2, <1>4, <3>6
      <4> QED
        BY <1>1, <1>2, <1>4, <3>3, <4>1, <4>2, ShowsBeyond DEF c
    <3> QED
      BY <3>5, <3>6
  <2> QED
    BY <2>2, <2>3
<1> QED
  BY <1>5, <1>6

\* What is still to be loaded after a step, and from which files.
LEMMA LoadedStep ==
  ASSUME Base, [Next]_vars, NEW a \in Address,
         Stands(changes', a, resync'.at), a \notin resync'.todo
  PROVE  \/ resync'.at = resync.at /\ Stands(changes, a, resync.at) /\ a \notin resync.todo
         \/ Load(a) /\ resync'.at = resync.at
<1>1. /\ resync \in Resync /\ resync.at \in Nat /\ resync.at <= Len(changes)
      /\ changes \in Seq(Change)
  BY Typed DEF Base, TypeOK
<1>2. ResyncIdle.at = 0
  BY DEF ResyncIdle
<1>3. ASSUME resync' = ResyncIdle, changes' = changes PROVE FALSE
  <2>1. Latest(changes, a, 0) # 0
    BY <1>2, <1>3 DEF Stands
  <2> QED
    BY <1>1, <2>1, LatestIs
<1>4. CASE resync'.at = resync.at /\ resync'.todo = resync.todo /\ changes' = changes
  BY <1>4
<1>5. ASSUME NEW change \in Published, Publish(change)
      PROVE  resync'.at = resync.at /\ Stands(changes, a, resync.at) /\ a \notin resync.todo
  <2>1. changes' = Append(changes, change) /\ change \in Change /\ resync' = resync
    BY <1>5, PublishedAssumption DEF Publish, etlVars
  <2> QED
    BY <1>1, <2>1, AgreesAppend
<1>6. ASSUME NEW p \in Run, NightlySync(p) \/ Crash(p)
      PROVE  resync'.at = resync.at /\ resync'.todo = resync.todo /\ changes' = changes
  <2>1. CASE ApplyAdresas(p)
    BY <2>1, AdresasOutcome DEF Base, Written, ApplyAdresas
  <2>2. CASE ApplyPastatas(p)
    BY <2>2, PastatasStep DEF Base, PastatasOutcome, Written, ApplyPastatas
  <2> QED
    BY <1>6, <2>1, <2>2, QuietSync
<1>7. ASSUME NEW at \in places..Now, BeginResync(at) PROVE FALSE
  <2>1. resync' = [ResyncIdle EXCEPT !.pc = "load", !.marks = TRUE, !.at = at, !.todo = InDump(at)]
    BY <1>7 DEF BeginResync
  <2>2. resync'.at = at /\ resync'.todo = InDump(at) /\ changes' = changes
    BY <1>7, <2>1 DEF ResyncIdle, BeginResync
  <2> QED
    BY <2>2, InDumpIs
<1>8. ASSUME NEW b \in Address, Load(b), b # a
      PROVE  resync'.at = resync.at /\ Stands(changes, a, resync.at) /\ a \notin resync.todo
  BY <1>8, LoadStep DEF LoadOutcome, Load
<1>9. ASSUME Load(a) PROVE resync'.at = resync.at
  BY <1>9, LoadStep DEF LoadOutcome
<1>10. CASE SaveHeadCid
  <2>1. resync' = [resync EXCEPT !.pc = "mark"] \/ resync' = ResyncIdle
    BY <1>10 DEF SaveHeadCid
  <2>2. changes' = changes
    BY <1>10 DEF SaveHeadCid
  <2> QED
    BY <1>1, <1>3, <1>4, <2>1, <2>2 DEF Resync
<1>11. CASE MarkDeleted
  BY <1>3, <1>11 DEF MarkDeleted
<1>12. CASE StopResync
  <2>1. PICK todo \in {InDump(resync.at)} \cup ({resync.todo} \cap {{}}) :
          resync' = IF resync.pc = "mark" THEN ResyncIdle
                    ELSE [ResyncIdle EXCEPT !.pc = "stopped", !.at = resync.at, !.todo = todo]
    BY <1>12 DEF StopResync
  <2>2. changes' = changes
    BY <1>12 DEF StopResync
  <2>3. CASE resync.pc = "mark"
    BY <1>3, <2>1, <2>2, <2>3
  <2>4. CASE resync.pc # "mark"
    <3>1. resync' = [ResyncIdle EXCEPT !.pc = "stopped", !.at = resync.at, !.todo = todo]
      BY <2>1, <2>4
    <3>2. resync'.at = resync.at /\ resync'.todo = todo
      BY <3>1 DEF ResyncIdle
    <3>3. todo # InDump(resync.at)
      BY <2>2, <3>2, InDumpIs
    <3> QED
      BY <1>4, <2>1, <2>2, <3>2, <3>3
  <2> QED
    BY <2>3, <2>4
<1>13. CASE ResumeImport
  <2>1. resync' = [resync EXCEPT !.pc = "load"] /\ changes' = changes
    BY <1>13 DEF ResumeImport
  <2> QED
    BY <1>1, <1>4, <2>1 DEF Resync
<1>14. CASE UNCHANGED vars \/ NewDay
  BY <1>4, <1>14 DEF vars, NewDay
<1>15. CASE MonthlyResync
  BY <1>7, <1>8, <1>9, <1>10, <1>11, <1>12, <1>13, <1>15 DEF MonthlyResync
<1> QED
  BY <1>4, <1>5, <1>6, <1>14, <1>15 DEF Next

LEMMA ShownStep ==
  ASSUME Base, Mirrored, ShownInv, [Next]_vars
  PROVE  ShownInv'
<1> SUFFICES ASSUME NEW a \in Address
             PROVE  /\ ShowsUpTo(changes', addresses'[a], lost', a, adresai_cid')
                    /\ \A q \in Run :
                         /\ ShowsUpTo(changes', addresses'[a], lost', a, sync'[q].since)
                         /\ sync'[q].pc = "cid" =>
                              ShowsUpTo(changes', addresses'[a], lost', a, CidIn(changes', sync'[q]))
                    /\ Stands(changes', a, resync'.at) /\ a \notin resync'.todo =>
                         ShowsUpTo(changes', addresses'[a], lost', a, resync'.at)
  BY DEF ShownInv, Shown
<1> DEFINE After1(m) == ShowsUpTo(changes', addresses'[a], lost', a, m)
<1>1. \A m \in Nat : m <= Settled /\ Shown(a, m) => After1(m)
  BY ShownKept
<1>2. After1(adresai_cid) /\ \A q \in Run : After1(sync[q].since)
  BY <1>1, Typed DEF ShownInv
<1>3. \A q \in Run : sync[q].pc = "cid" => After1(MaxCidOf(sync[q]))
  BY <1>1, CidBound DEF ShownInv
<1>4. After1(0)
  BY <1>2, Typed DEF ShowsUpTo
<1>5. After1(adresai_cid')
  <2>1. ASSUME NEW p \in Run, SaveCid(p) PROVE After1(adresai_cid')
    BY <1>3, <2>1 DEF SaveCid
  <2>2. CASE SaveHeadCid
    BY <2>2, ShownHead DEF SaveHeadCid
  <2> QED
    BY <1>2, <2>1, <2>2, CursorStep
<1>6. ASSUME NEW q \in Run
      PROVE  /\ After1(sync'[q].since)
             /\ sync'[q].pc = "cid" => After1(CidIn(changes', sync'[q]))
  <2>1. sync'[q].since \in {sync[q].since, adresai_cid, 0}
    BY RunStep
  <2>2. After1(sync'[q].since)
    BY <1>2, <1>4, <2>1
  <2>3. ASSUME sync'[q].pc = "cid" PROVE After1(CidIn(changes', sync'[q]))
    <3>1. /\ ApplyPastatas(q) \/ sync[q].pc = "cid"
          /\ sync'[q].since = sync[q].since /\ sync'[q].adresas = sync[q].adresas
          /\ sync'[q].pastatas = sync[q].pastatas
      BY <2>3, RunStep
    <3>2. CidIn(changes', sync'[q]) = CidIn(changes', sync[q])
      BY <3>1 DEF CidIn
    <3>3. CidIn(changes', sync[q]) = CidIn(changes, sync[q])
      <4>1. \/ changes' = changes
            \/ \E change \in Change : changes' = Append(changes, change)
        BY PublishedAssumption
           DEF Next, vars, Publish, NightlySync, Start, FetchAdresas, FetchPastatas, ApplyAdresas,
               ApplyPastatas, SaveCid, SaveDate, Crash, NewDay, MonthlyResync, BeginResync, Load,
               SaveHeadCid, MarkDeleted, StopResync, ResumeImport
      <4>2. sync[q].adresas <= Len(changes) /\ sync[q].pastatas <= Len(changes)
        BY Typed DEF SyncSound
      <4> QED
        BY <4>1, <4>2, Typed, CidAppend
    <3>4. sync[q].pc \in {"upsert", "cid"}
      BY <3>1 DEF ApplyPastatas
    <3>5. CidIn(changes, sync[q]) = MaxCidOf(sync[q])
      BY <3>4, CidBound
    <3>6. CASE ApplyPastatas(q)
      BY <3>2, <3>3, <3>5, <3>6, ShownBatch DEF ApplyPastatas
    <3>7. CASE sync[q].pc = "cid"
      BY <1>3, <3>2, <3>3, <3>5, <3>7
    <3> QED
      BY <3>1, <3>6, <3>7
  <2> QED
    BY <2>2, <2>3
<1>7. ASSUME Stands(changes', a, resync'.at), a \notin resync'.todo
      PROVE  After1(resync'.at)
  <2>1. CASE resync'.at = resync.at /\ Stands(changes, a, resync.at) /\ a \notin resync.todo
    BY <1>1, <2>1, Typed DEF ShownInv
  <2>2. CASE Load(a) /\ resync'.at = resync.at
    <3>1. LoadOutcome(a) /\ changes' = changes
      BY <2>2, LoadStep DEF Load
    <3>2. resync.at \in Nat /\ resync.at <= Settled /\ Settled \in Nat
      BY Typed
    <3>3. ~ Struck(changes, a) => \A k \in 0..resync.at : Shows(changes, addresses'[a], lost', a, k)
      BY <3>1, <3>2, ShowsLoaded
    <3> QED
      BY <2>2, <3>1, <3>3 DEF ShowsUpTo
  <2> QED
    BY <1>7, <2>1, <2>2, LoadedStep
<1> HIDE DEF After1
<1> QED
  BY <1>5, <1>6, <1>7 DEF After1

\* What the row of a listed address says is what the register said at the cursor or
\* later, unless a change up to the cursor was dropped or undone: the cursor never
\* passes a change that is not applied (save_cid after both COMMITs, Adresas fetched
\* before Pastatas).
THEOREM AddressCurrentCorrect == Spec => []AddressCurrent
<1>1. Init => Base /\ Mirrored /\ ShownInv
  <2>1. Init => Mirrored
    BY DEF Init, Mirrored, ResyncIdle
  <2>2. ASSUME Init, NEW a \in Address PROVE Shown(a, 0)
    <3>1. Base /\ addresses[a] = None
      BY <2>2, BaseInit DEF Init
    <3>2. Latest(changes, a, 0) = 0
      BY <3>1, LatestIs
    <3>3. Agrees(changes, addresses[a], a, 0)
      BY <3>1, <3>2 DEF Agrees, Stands, IsLive
    <3>4. 0 \in 0..Len(changes)
      BY <3>1, Typed
    <3> QED
      BY <3>3, <3>4 DEF Shown, ShowsUpTo, Shows
  <2>3. ASSUME Init, NEW p \in Run PROVE sync[p].since = 0 /\ sync[p].pc # "cid"
    BY <2>3 DEF Init, SyncIdle
  <2>4. Init => adresai_cid = 0 /\ resync.at = 0
    BY DEF Init, ResyncIdle
  <2>5. Init => ShownInv
    BY <2>2, <2>3, <2>4 DEF ShownInv
  <2> QED
    BY <2>1, <2>5, BaseInit
<1>2. Base /\ Mirrored /\ ShownInv /\ [Next]_vars => Base' /\ Mirrored' /\ ShownInv'
  BY BaseStep, MirroredStep, ShownStep
<1>3. Base /\ Mirrored /\ ShownInv => AddressCurrent
  <2> SUFFICES ASSUME Base, ShownInv, NEW a \in Address, Listed(a, Now),
                      Of(a, Kind, 0, adresai_cid) \cap lost = {}
               PROVE  \E n \in adresai_cid..Now : Follows(a, n)
    BY DEF AddressCurrent
  <2>1. adresai_cid \in Nat /\ Len(changes) \in Nat /\ lost \subseteq 1..MaxCid
    BY Typed DEF Base, TypeOK
  <2>2. ~ Struck(changes, a)
    BY RegisterIs DEF Base, Now
  <2>3. Shows(changes, addresses[a], lost, a, adresai_cid)
    BY <2>1, <2>2 DEF ShownInv, Shown, ShowsUpTo
  <2>4. Latest(changes, a, adresai_cid) \notin lost
    <3> DEFINE c == Latest(changes, a, adresai_cid)
    <3>1. /\ c \in Nat /\ c <= adresai_cid /\ (c = 0 \/ c \in 1..Len(changes))
          /\ c # 0 => changes[c].kind \in Pastatas /\ changes[c].code = a
      BY <2>1, LatestIs
    <3> HIDE DEF c
    <3>2. c \in 1..Len(changes) => c \in Of(a, Kind, 0, adresai_cid)
      BY <3>1, OfIs DEF Pastatas
    <3> QED
      BY <2>1, <3>1, <3>2 DEF c
  <2>5. PICK n \in adresai_cid..Len(changes) : Agrees(changes, addresses[a], a, n)
    BY <2>3, <2>4 DEF Shows
  <2> QED
    BY <2>5, FollowsIs DEF Base, Now
<1> QED
  BY <1>1, <1>2, <1>3, PTL DEF Spec
=============================================================================
