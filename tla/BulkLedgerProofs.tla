-------------------------- MODULE BulkLedgerProofs --------------------------
(***************************************************************************)
(* With requests one at a time the bulk handlers implement OfferingLedger, *)
(* and the audit log misses nothing: for every set of addresses, users,    *)
(* tokens and operations.                                                  *)
(***************************************************************************)
EXTENDS BulkRollbackProofs

USE NoneAssumption, RequestAssumption

\* The condition of the theorems: requests come one at a time.  Without it they are
\* false, for what a request has read may no longer be there when it writes.
OneAtATime == \A p, q \in Proc : p = q

-----------------------------------------------------------------------------
(* What a request has read is still so when it writes.                     *)

ReadRight(j, tokens, rows, ops) ==
  /\ j.pc \in {"token", "dispatch"} \/ (j.pc = "write" /\ tokens[j.tok].kind = "add")
       => j.seen = NoValues
  /\ j.pc \in {"log", "write"} /\ tokens[j.tok].kind # "add" =>
       \A a \in Address : IF a \in j.codes
                          THEN rows[a] # None /\ j.seen[a] = rows[a].val
                          ELSE j.seen[a] = None
  /\ j.pc = "write" /\ tokens[j.tok].kind = "remove" => j.logged = j.codes
  /\ j.pc = "log" => tokens[j.tok].kind # "add"
  /\ j.pc = "rollback" => ~ ops[j.op].rolledBack

SerialInv == \A p \in Proc : ReadRight(job[p], token, offering, bulk)

LEMMA SerialInit == Init => SerialInv
BY DEF Init, SerialInv, ReadRight, Idle

\* A step of the one request there is.
LEMMA SerialJobStep ==
  ASSUME TypeInv, OneAtATime, NEW p \in Proc, NEW j, job' = [job EXCEPT ![p] = j],
         ReadRight(j, token', offering', bulk')
  PROVE  SerialInv'
<1>1. \A q \in Proc : q = p
  BY DEF OneAtATime
<1>2. job'[p] = j
  BY DEF TypeInv, TypeOK
<1>3. ReadRight(job'[p], token', offering', bulk')
  BY <1>2 DEF ReadRight
<1> QED
  BY <1>1, <1>3 DEF SerialInv

LEMMA IdleReadRight == ReadRight(Idle, token', offering', bulk')
BY DEF ReadRight, Idle

LEMMA SerialIdle ==
  ASSUME TypeInv, OneAtATime, NEW p \in Proc, job' = [job EXCEPT ![p] = Idle]
  PROVE  SerialInv'
BY IdleReadRight, SerialJobStep

LEMMA SerialStillIdle ==
  ASSUME TypeInv, OneAtATime, NEW p \in Proc, job[p] = Idle, job' = job
  PROVE  SerialInv'
<1>1. job' = [job EXCEPT ![p] = Idle]
  BY DEF TypeInv, TypeOK
<1> QED
  BY <1>1, SerialIdle

LEMMA SerialRead ==
  ASSUME TypeInv, SerialInv, OneAtATime, NEW p \in Proc,
         \/ \E t \in Token : ReadToken(p, t)
         \/ ConsumeToken(p) \/ SelectLive(p) \/ SelectExisting(p) \/ LogRemoval(p)
         \/ \E u \in User, o \in Op : BeginRollback(p, u, o)
  PROVE  SerialInv'
<1>0. /\ job[p] \in Job /\ JobTyped(job[p])
      /\ ReadRight(job[p], token, offering, bulk)
  BY JobsTypedEach DEF TypeInv, TypeOK, SerialInv
<1>1. ASSUME NEW t \in Token, ReadToken(p, t) PROVE SerialInv'
  <2> DEFINE j == [job[p] EXCEPT !.pc = "token", !.tok = t]
  <2>a. job[p] = Idle
    BY <1>1 DEF ReadToken
  <2>b. job[p].seen = NoValues
    BY <2>a DEF Idle
  <2>1. j.pc = "token" /\ j.seen = NoValues
    BY <1>0, <2>b DEF Job
  <2>2. job' = [job EXCEPT ![p] = j]
    BY <1>1 DEF ReadToken
  <2> HIDE DEF j
  <2>3. ReadRight(j, token', offering', bulk')
    BY <2>1 DEF ReadRight
  <2> QED
    BY <2>2, <2>3, SerialJobStep
<1>2. CASE ConsumeToken(p)
  <2> DEFINE j == [job[p] EXCEPT !.pc = "dispatch",
                                 !.holds = (token[job[p].tok].state = "stored")]
  <2>1. j.pc = "dispatch" /\ j.seen = job[p].seen /\ job[p].pc = "token"
    BY <1>0, <1>2 DEF ConsumeToken, Job
  <2>2. job' = [job EXCEPT ![p] = j]
    BY <1>2 DEF ConsumeToken
  <2> HIDE DEF j
  <2>3. ReadRight(j, token', offering', bulk')
    BY <1>0, <2>1 DEF ReadRight
  <2> QED
    BY <2>2, <2>3, SerialJobStep
<1>3. CASE SelectLive(p)
  <2> DEFINE j == [job[p] EXCEPT !.pc = "write", !.codes = token[job[p].tok].codes \cap live]
  <2>1. /\ j.pc = "write" /\ j.seen = job[p].seen /\ job[p].pc = "dispatch"
        /\ j.tok = job[p].tok /\ token[job[p].tok].kind = "add" /\ UNCHANGED token
    BY <1>0, <1>3 DEF SelectLive, Job
  <2>2. job' = [job EXCEPT ![p] = j]
    BY <1>3 DEF SelectLive
  <2> HIDE DEF j
  <2>3. ReadRight(j, token', offering', bulk')
    BY <1>0, <2>1 DEF ReadRight
  <2> QED
    BY <2>2, <2>3, SerialJobStep
<1>4. CASE SelectExisting(p)
  <2> DEFINE t == token[job[p].tok]
             existing == Present(t.codes)
             seen == [a \in Address |-> IF a \in existing THEN offering[a].val ELSE None]
             j == [job[p] EXCEPT !.pc = IF t.kind = "change" THEN "write" ELSE "log",
                                 !.codes = existing, !.seen = seen]
  <2>1. /\ j.pc = (IF t.kind = "change" THEN "write" ELSE "log")
        /\ j.tok = job[p].tok /\ j.codes = existing /\ j.seen = seen
    BY <1>0 DEF Job
  <2>2. /\ \A a \in existing : offering[a] # None
        /\ \A a \in Address : seen[a] = IF a \in existing THEN offering[a].val ELSE None
    BY DEF Present
  <2>3. /\ job' = [job EXCEPT ![p] = j] /\ t.kind \in {"change", "remove"}
        /\ UNCHANGED <<offering, token>>
    BY <1>4 DEF SelectExisting
  <2> HIDE DEF j, seen, existing
  <2>4. ReadRight(j, token', offering', bulk')
    BY <2>1, <2>2, <2>3 DEF ReadRight
  <2> QED
    BY <2>3, <2>4, SerialJobStep
<1>5. CASE LogRemoval(p)
  <2> DEFINE j == [job[p] EXCEPT !.pc = "write", !.logged = Present(job[p].codes)]
  <2>1. /\ j.pc = "write" /\ j.seen = job[p].seen /\ j.codes = job[p].codes
        /\ j.tok = job[p].tok /\ j.logged = Present(job[p].codes)
    BY <1>0 DEF Job
  <2>2. /\ job' = [job EXCEPT ![p] = j] /\ job[p].pc = "log" /\ UNCHANGED <<offering, token>>
    BY <1>5 DEF LogRemoval
  <2>3. job[p].codes \subseteq Address
    BY <1>0 DEF Job
  <2>4. Present(job[p].codes) = job[p].codes
    BY <1>0, <2>2, <2>3 DEF ReadRight, Present
  <2> HIDE DEF j
  <2>5. ReadRight(j, token', offering', bulk')
    BY <1>0, <2>1, <2>2, <2>4 DEF ReadRight
  <2> QED
    BY <2>2, <2>5, SerialJobStep
<1>6. ASSUME NEW u \in User, NEW o \in Op, BeginRollback(p, u, o) PROVE SerialInv'
  <2> DEFINE j == [job[p] EXCEPT !.pc = "rollback", !.op = o]
  <2>1. j.pc = "rollback" /\ j.op = o
    BY <1>0 DEF Job
  <2>2. job' = [job EXCEPT ![p] = j] /\ ~ bulk[o].rolledBack /\ UNCHANGED bulk
    BY <1>6 DEF BeginRollback
  <2> HIDE DEF j
  <2>3. ReadRight(j, token', offering', bulk')
    BY <2>1, <2>2 DEF ReadRight
  <2> QED
    BY <2>2, <2>3, SerialJobStep
<1> QED
  BY <1>1, <1>2, <1>3, <1>4, <1>5, <1>6

LEMMA SerialStep ==
  ASSUME TypeInv, SerialInv, OneAtATime, [Next]_vars
  PROVE  SerialInv'
<1>1. CASE UNCHANGED vars
  BY <1>1 DEF vars, SerialInv, ReadRight
<1>2. ASSUME NEW p \in Proc, NEW u \in User, NEW S \in SUBSET Address,
             NEW op \in Request, NEW t \in Token, Preview(p, u, S, op, t)
      PROVE  SerialInv'
  BY <1>2, SerialStillIdle DEF Preview
<1>3. ASSUME NEW p \in Proc, NEW o \in Op,
             CommitAdd(p, o) \/ CommitChange(p, o) \/ CommitRemove(p, o)
      PROVE  SerialInv'
  BY <1>3, SerialIdle DEF CommitAdd, CommitChange, CommitRemove, Finish
<1>4. ASSUME NEW p \in Proc,
             \/ RollbackAdd(p) \/ RollbackChange(p) \/ RollbackRemove(p)
             \/ RefuseRate(p) \/ Fail(p)
      PROVE  SerialInv'
  BY <1>4, SerialIdle DEF RollbackAdd, RollbackChange, RollbackRemove, FinishRollback,
     RefuseRate, Fail
<1>5. ASSUME NEW p \in Proc, Edits(p) PROVE SerialInv'
  BY <1>5, SerialStillIdle
  DEF Edits, CreateOffering, UpdateOffering, DeleteOffering, Edited
<1>6. ASSUME NEW a \in Address, SyncAddress(a) PROVE SerialInv'
  BY <1>6 DEF SyncAddress, SerialInv, ReadRight
<1>7. ASSUME NEW t \in Token, Expire(t) PROVE SerialInv'
  <2>1. ASSUME NEW x \in Token PROVE token'[x].kind = token[x].kind
    BY <1>7 DEF Expire, TypeInv, TypeOK, TokenRow
  <2>2. \A p \in Proc : job[p].pc \in {"log", "write"} => job[p].tok \in Token
    BY JobsTypedEach DEF TypeInv, JobTyped
  <2> QED
    BY <1>7, <2>1, <2>2 DEF Expire, SerialInv, ReadRight
<1>8. ASSUME NEW o \in Op, Age(o) PROVE SerialInv'
  <2>1. ASSUME NEW x \in Op PROVE bulk'[x].rolledBack = bulk[x].rolledBack
    BY <1>8 DEF Age, TypeInv, TypeOK, BulkRow
  <2>2. \A p \in Proc : job[p].pc = "rollback" => job[p].op \in Op
    BY JobsTypedEach DEF TypeInv, JobTyped
  <2> QED
    BY <1>8, <2>1, <2>2 DEF Age, SerialInv, ReadRight
<1> QED
  BY <1>1, <1>2, <1>3, <1>4, <1>5, <1>6, <1>7, <1>8, SerialRead
  DEF Next, Bulk, Execute, Rollback, Environment

LEMMA SerialInvariant ==
  ASSUME OneAtATime
  PROVE  Spec => []SerialInv
<1>1. TypeInv /\ SerialInv /\ [Next]_vars => SerialInv'
  BY SerialStep
<1> QED
  BY <1>1, SerialInit, TypeInvariant, PTL DEF Spec

-----------------------------------------------------------------------------
(* The audit log                                                           *)

LEMMA ChangesLoggedStep ==
  ASSUME TypeInv, SerialInv, [Next]_vars, NEW a \in Address, offering'[a] # offering[a]
  PROVE  \E e \in audit' : \/ e.address = a
                           \/ e.action = "rollback" /\ a \in bulk[e.op].codes
<1>a. ASSUME NEW action, NEW S, NEW o, Entries(action, S, o) \subseteq audit', a \in S
      PROVE  \E e \in audit' : e.address = a
  <2> DEFINE e == [action |-> action, address |-> a, op |-> o]
  <2>1. e \in Entries(action, S, o) /\ e.address = a
    BY <1>a DEF Entries
  <2> QED
    BY <1>a, <2>1
<1>1. CASE UNCHANGED offering
  BY <1>1
<1>2. ASSUME NEW p \in Proc, NEW o \in Op, CommitAdd(p, o)
      PROVE  \E e \in audit' : e.address = a
  <2> DEFINE new == job[p].codes \ Present(job[p].codes)
  <2>1. a \in new /\ Entries("create", new, o) \subseteq audit'
    BY <1>2 DEF CommitAdd, Finish
  <2> HIDE DEF new
  <2> QED
    BY <1>a, <2>1
<1>3. ASSUME NEW p \in Proc, NEW o \in Op, CommitChange(p, o)
      PROVE  \E e \in audit' : e.address = a
  <2> DEFINE found == Present(job[p].codes)
  <2>1. a \in found /\ Entries("update", found, o) \subseteq audit'
    BY <1>3 DEF CommitChange, Finish
  <2> HIDE DEF found
  <2> QED
    BY <1>a, <2>1
<1>4. ASSUME NEW p \in Proc, NEW o \in Op, CommitRemove(p, o)
      PROVE  \E e \in audit' : e.address = a
  <2>1. a \in job[p].codes /\ Entries("delete", job[p].logged, o) \subseteq audit'
    BY <1>4 DEF CommitRemove, Finish, Present
  <2>2. job[p].logged = job[p].codes
    BY <1>4 DEF CommitRemove, SerialInv, ReadRight
  <2> QED
    BY <1>a, <2>1, <2>2
<1>5. ASSUME NEW p \in Proc, RollbackAdd(p) \/ RollbackChange(p) \/ RollbackRemove(p)
      PROVE  \E e \in audit' : e.action = "rollback" /\ a \in bulk[e.op].codes
  <2> DEFINE e == [action |-> "rollback", address |-> None, op |-> job[p].op]
  <2>1. a \in bulk[job[p].op].codes
    BY <1>5 DEF RollbackAdd, RollbackChange, RollbackRemove, Present
  <2>2. e \in audit'
    BY <1>5 DEF RollbackAdd, RollbackChange, RollbackRemove, FinishRollback, Entries
  <2> QED
    BY <2>1, <2>2
<1>6. ASSUME NEW p \in Proc, Edits(p)
      PROVE  \E e \in audit' : e.address = a
  <2>1. PICK b, row, action : Edited(p, b, row, action)
    BY <1>6 DEF Edits, CreateOffering, UpdateOffering, DeleteOffering
  <2>2. a = b /\ Entries(action, {b}, None) \subseteq audit'
    BY <2>1 DEF Edited, TypeInv, TypeOK
  <2> QED
    BY <1>a, <2>2
<1>7. \/ UNCHANGED offering
      \/ \E p \in Proc, o \in Op : CommitAdd(p, o) \/ CommitChange(p, o) \/ CommitRemove(p, o)
      \/ \E p \in Proc : RollbackAdd(p) \/ RollbackChange(p) \/ RollbackRemove(p) \/ Edits(p)
  BY DEF Next, Bulk, Execute, Rollback, Environment, vars, Preview, ReadToken, ConsumeToken,
     RefuseRate, SelectLive, SelectExisting, LogRemoval, BeginRollback, Fail, SyncAddress,
     Expire, Age
<1> QED
  BY <1>1, <1>2, <1>3, <1>4, <1>5, <1>6, <1>7

\* With requests one at a time, every change of a row is in audit_log in the same
\* transaction: the entries a removal writes before its DELETE are those of the rows
\* the DELETE finds (bulk_execute, bulk_rollback, the handlers of addresses.py).
THEOREM ChangesLoggedCorrect ==
  ASSUME OneAtATime
  PROVE  Spec => ChangesLogged
<1>1. TypeInv /\ SerialInv /\ [Next]_vars =>
        [\A a \in Address : offering'[a] # offering[a] =>
           \E e \in audit' :
             \/ e.address = a
             \/ e.action = "rollback" /\ a \in bulk[e.op].codes]_vars
  BY ChangesLoggedStep
<1> QED
  BY <1>1, TypeInvariant, SerialInvariant, PTL DEF Spec, ChangesLogged

-----------------------------------------------------------------------------
(* The refinement: every step is one of the ledger's, or stutters.         *)

\* What the ledger keeps of an operation.
Recording(b) ==
  IF b.state = "unused" THEN None
  ELSE [kind |-> b.kind, codes |-> b.codes, undone |-> b.rolledBack, old |-> b.old]

Recordings == [o \in Op |-> Recording(bulk[o])]

LEMMA LedgerInit == Init => Ledger!Init
BY DEF Init, Ledger!Init, NoBulk

\* A commit is recorded with the payloads it replaces.
LEMMA LedgerDo ==
  ASSUME TypeInv, NEW p \in Proc, NEW o \in Op, NEW codes, NEW wrote, NEW entries,
         Finish(p, o, codes, wrote, entries),
         \A a \in Address : job[p].seen[a] = IF a \in codes
                                             THEN Ledger!Payload(offering[a]) ELSE None
  PROVE  Ledger!Do(o, token[job[p].tok].kind, codes)
<1> DEFINE kind == token[job[p].tok].kind
           b == [state |-> "done", user |-> token[job[p].tok].user,
                 kind |-> kind, tok |-> job[p].tok, codes |-> codes,
                 old |-> job[p].seen, age |-> "minute", rolledBack |-> FALSE]
<1>1. bulk[o].state = "unused" /\ bulk' = [bulk EXCEPT ![o] = b] /\ bulk \in [Op -> BulkRow]
  BY DEF Finish, TypeInv, TypeOK
<1>2. Recording(b) = Ledger!Recorded(kind, codes)
  <2>1. job[p].seen \in [Address -> Val \cup {None}]
    BY DEF TypeInv, TypeOK, Job
  <2>2. job[p].seen = [a \in Address |-> IF a \in codes THEN Ledger!Payload(offering[a])
                                         ELSE None]
    BY <2>1
  <2> QED
    BY <2>2 DEF Recording, Ledger!Recorded
<1> HIDE DEF b, kind
<1>3. Recordings[o] = None /\ Recordings' = [Recordings EXCEPT ![o] = Ledger!Recorded(kind, codes)]
  BY <1>1, <1>2 DEF Recordings, Recording
<1> QED
  BY <1>3 DEF Ledger!Do, Recordings, Recording, kind

LEMMA LedgerCommit ==
  ASSUME TypeInv, SerialInv, NEW p \in Proc, NEW o \in Op,
         CommitAdd(p, o) \/ CommitChange(p, o) \/ CommitRemove(p, o)
  PROVE  Ledger!Next
<1> DEFINE t == token[job[p].tok]
           codes == job[p].codes
           found == Present(codes)
           new == codes \ found
<1>0. /\ job[p] \in Job /\ JobTyped(job[p]) /\ job[p].pc = "write"
      /\ ReadRight(job[p], token, offering, bulk)
  BY JobsTypedEach DEF TypeInv, TypeOK, SerialInv, CommitAdd, CommitChange, CommitRemove
<1>1. codes \subseteq Address /\ job[p].seen \in [Address -> Val \cup {None}]
  BY <1>0 DEF Job
<1>2. t.data \in Patch /\ (t.kind = "add" => t.data \in Val)
  BY <1>0 DEF JobTyped, TypeInv, TypeOK, TokensTyped, TokenRow
<1>3. CASE CommitAdd(p, o)
  <2>1. t.kind = "add" /\ job[p].seen = NoValues
    BY <1>0, <1>3 DEF CommitAdd, ReadRight
  <2>2. \A a \in new : offering[a] = None
    BY DEF Present
  <2>3. new \in SUBSET Address
    BY <1>1
  <2>4. /\ Finish(p, o, new, new, Entries("create", new, o))
        /\ offering' = [a \in Address |-> IF a \in new THEN [val |-> t.data, op |-> o]
                                          ELSE offering[a]]
    BY <1>3 DEF CommitAdd
  <2> HIDE DEF new, t
  <2>5. \A a \in Address : job[p].seen[a] = IF a \in new THEN Ledger!Payload(offering[a])
                                            ELSE None
    BY <2>1, <2>2 DEF NoValues, Ledger!Payload
  <2>6. Ledger!Do(o, "add", new)
    BY <2>1, <2>4, <2>5, LedgerDo DEF t, Ledger!Do
  <2>7. Ledger!Add(o, new, t.data)
    BY <2>2, <2>4, <2>6 DEF Ledger!Add, Ledger!Absent
  <2>8. t.data \in Ledger!Val
    BY <1>2, <2>1 DEF Ledger!Val, Val
  <2> QED
    BY <2>3, <2>7, <2>8 DEF Ledger!Next
<1>4. CASE CommitChange(p, o) \/ CommitRemove(p, o)
  <2>1. t.kind \in {"change", "remove"}
    BY <1>4 DEF CommitChange, CommitRemove
  <2>2. \A a \in Address : IF a \in codes
                           THEN offering[a] # None /\ job[p].seen[a] = offering[a].val
                           ELSE job[p].seen[a] = None
    BY <1>0, <2>1 DEF ReadRight
  <2>3. found = codes
    BY <1>1, <2>2 DEF Present
  <2>4. \A a \in Address : job[p].seen[a] = IF a \in codes THEN Ledger!Payload(offering[a])
                                            ELSE None
    BY <1>1, <2>2 DEF Ledger!Payload
  <2>5. \A a \in codes : offering[a] # None
    BY <1>1, <2>2
  <2>6. CASE CommitChange(p, o)
    <3>1. /\ Finish(p, o, codes, found, Entries("update", found, o)) /\ t.kind = "change"
          /\ offering' = [a \in Address |->
               IF a \in found THEN [offering[a] EXCEPT !.val = Patched(@, t.data)]
                              ELSE offering[a]]
      BY <2>6 DEF CommitChange
    <3> HIDE DEF found, codes, t
    <3>2. Ledger!Do(o, "change", codes)
      BY <2>4, <3>1, LedgerDo DEF t, Ledger!Do
    <3>3. \A val, patch : Ledger!Patched(val, patch) = Patched(val, patch)
      BY DEF Ledger!Patched, Patched
    <3>4. Ledger!Change(o, codes, t.data)
      BY <2>3, <2>5, <3>1, <3>2, <3>3 DEF Ledger!Change, Ledger!Present
    <3>5. t.data \in Ledger!Patch
      BY <1>2 DEF Ledger!Patch, Patch
    <3> QED
      BY <1>1, <3>4, <3>5 DEF Ledger!Next
  <2>7. CASE CommitRemove(p, o)
    <3>1. /\ Finish(p, o, codes, found, Entries("delete", job[p].logged, o))
          /\ t.kind = "remove"
          /\ offering' = [a \in Address |-> IF a \in found THEN None ELSE offering[a]]
      BY <2>7 DEF CommitRemove
    <3> HIDE DEF found, codes, t
    <3>2. Ledger!Do(o, "remove", codes)
      BY <2>4, <3>1, LedgerDo DEF t, Ledger!Do
    <3>3. Ledger!Remove(o, codes)
      BY <2>3, <2>5, <3>1, <3>2 DEF Ledger!Remove, Ledger!Present
    <3> QED
      BY <1>1, <3>3 DEF Ledger!Next
  <2> QED
    BY <1>4, <2>6, <2>7
<1> QED
  BY <1>3, <1>4

LEMMA MarkedUndone ==
  ASSUME NEW kind, NEW codes, NEW undone, NEW old, NEW mark
  PROVE  [[kind |-> kind, codes |-> codes, undone |-> undone, old |-> old]
            EXCEPT !.undone = mark]
           = [kind |-> kind, codes |-> codes, undone |-> mark, old |-> old]
OBVIOUS

LEMMA LedgerRollback ==
  ASSUME TypeInv, SerialInv, NEW p \in Proc,
         RollbackAdd(p) \/ RollbackChange(p) \/ RollbackRemove(p)
  PROVE  Ledger!Next
<1> DEFINE o == job[p].op
           b == bulk[o]
           undone(a) == IF a \in b.codes THEN Ledger!Undone(o, a) ELSE offering[a]
<1>1. job[p].pc = "rollback" /\ o \in Op /\ b.state = "done" /\ b \in BulkRow
  BY JobsTypedEach
  DEF TypeInv, TypeOK, JobTyped, RollbackAdd, RollbackChange, RollbackRemove
<1>2. ~ b.rolledBack /\ b.codes \subseteq Address
  BY <1>1 DEF SerialInv, ReadRight, BulkRow
<1>3. /\ Recordings[o].kind = b.kind /\ Recordings[o].codes = b.codes
      /\ Recordings[o].old = b.old /\ ~ Recordings[o].undone /\ Recordings[o] # None
  <2> DEFINE r == [kind |-> b.kind, codes |-> b.codes, undone |-> b.rolledBack, old |-> b.old]
  <2>1. Recordings[o] = r
    BY <1>1 DEF Recordings, Recording
  <2>2. r \in [kind: Kind, codes: SUBSET Address, undone: BOOLEAN,
               old: [Address -> Val \cup {None}]]
    BY <1>1 DEF BulkRow, TypeInv, BulkTyped
  <2>3. r # None
    BY <2>2, NoneAssumption
  <2>4. r.kind = b.kind /\ r.codes = b.codes /\ r.undone = b.rolledBack /\ r.old = b.old
    OBVIOUS
  <2> HIDE DEF b, r
  <2> QED
    BY <1>2, <2>1, <2>3, <2>4
<1>4. ASSUME NEW wrote, FinishRollback(p, wrote)
      PROVE  Recordings' = [Recordings EXCEPT ![o].undone = TRUE]
  <2>1. bulk' = [bulk EXCEPT ![o].rolledBack = TRUE] /\ bulk \in [Op -> BulkRow]
    BY <1>4 DEF FinishRollback, TypeInv, TypeOK
  <2>2. ASSUME NEW x \in Op, x # o PROVE Recording(bulk'[x]) = Recording(bulk[x])
    BY <2>1, <2>2
  <2>3. /\ bulk'[o].state = "done" /\ bulk'[o].kind = b.kind /\ bulk'[o].codes = b.codes
        /\ bulk'[o].old = b.old /\ bulk'[o].rolledBack = TRUE
    BY <1>1, <2>1 DEF BulkRow
  <2>4. Recording(bulk'[o]) = [kind |-> b.kind, codes |-> b.codes, undone |-> TRUE,
                               old |-> b.old]
    BY <2>3 DEF Recording
  <2>5. Recording(bulk[o]) = [kind |-> b.kind, codes |-> b.codes,
                              undone |-> b.rolledBack, old |-> b.old]
    BY <1>1 DEF Recording
  <2> HIDE DEF b, o
  <2>6. Recording(bulk'[o]) = [Recording(bulk[o]) EXCEPT !.undone = TRUE]
    <3> DEFINE mark == TRUE
    <3>1. Recording(bulk'[o]) = [kind |-> b.kind, codes |-> b.codes, undone |-> mark,
                                 old |-> b.old]
      BY <2>4
    <3> HIDE DEF mark
    <3>2. Recording(bulk'[o]) = [Recording(bulk[o]) EXCEPT !.undone = mark]
      BY <2>5, <3>1, MarkedUndone
    <3> QED
      BY <3>2 DEF mark
  <2> QED
    BY <1>1, <2>2, <2>6 DEF Recordings
<1>6. ASSUME Recordings' = [Recordings EXCEPT ![o].undone = TRUE],
             b.kind = "remove" => \A a \in b.codes : offering[a] = None,
             offering' = [a \in Address |-> IF a \in b.codes THEN Ledger!Undone(o, a)
                                            ELSE offering[a]]
      PROVE  Ledger!Next
  <2>1. Ledger!Undo(o)
    BY <1>3, <1>6 DEF Ledger!Undo, Ledger!Absent, Recordings, Recording
  <2> QED
    BY <1>1, <2>1 DEF Ledger!Next, Ledger!Undo
<1>5. CASE RollbackAdd(p)
  <2> DEFINE mine == {a \in Present(b.codes) : offering[a].op = o}
  <2>1. /\ FinishRollback(p, mine) /\ b.kind = "add"
        /\ offering' = [a \in Address |-> IF a \in mine THEN None ELSE offering[a]]
    BY <1>5 DEF RollbackAdd
  <2>2. ASSUME NEW a \in b.codes
        PROVE  Ledger!Undone(o, a) = IF a \in mine THEN None ELSE offering[a]
    BY <1>1, <2>1 DEF Ledger!Undone, Present
  <2>3. mine \subseteq b.codes
    BY DEF Present
  <2> HIDE DEF mine
  <2>4. Recordings' = [Recordings EXCEPT ![o].undone = TRUE]
    BY <1>4, <2>1
  <2>5. offering' = [a \in Address |-> IF a \in b.codes THEN Ledger!Undone(o, a)
                                       ELSE offering[a]]
    BY <2>1, <2>2, <2>3
  <2> QED
    BY <1>6, <2>1, <2>4, <2>5
<1>7. CASE RollbackChange(p)
  <2> DEFINE found == Present(b.codes)
  <2>1. /\ FinishRollback(p, found) /\ b.kind = "change"
        /\ offering' = [a \in Address |->
             IF a \in found THEN [offering[a] EXCEPT !.val = b.old[a]] ELSE offering[a]]
    BY <1>7 DEF RollbackChange
  <2>2. ASSUME NEW a \in b.codes
        PROVE  Ledger!Undone(o, a) = IF a \in found THEN [offering[a] EXCEPT !.val = b.old[a]]
                                                    ELSE offering[a]
    BY <1>1, <2>1 DEF Ledger!Undone, Present
  <2>3. found \subseteq b.codes
    BY DEF Present
  <2> HIDE DEF found
  <2>4. Recordings' = [Recordings EXCEPT ![o].undone = TRUE]
    BY <1>4, <2>1
  <2>5. offering' = [a \in Address |-> IF a \in b.codes THEN Ledger!Undone(o, a)
                                       ELSE offering[a]]
    BY <2>1, <2>2, <2>3
  <2> QED
    BY <1>6, <2>1, <2>4, <2>5
<1>8. CASE RollbackRemove(p)
  <2>1. /\ FinishRollback(p, b.codes) /\ b.kind = "remove" /\ Present(b.codes) = {}
        /\ offering' = [a \in Address |->
             IF a \in b.codes THEN [val |-> b.old[a], op |-> None] ELSE offering[a]]
    BY <1>8 DEF RollbackRemove
  <2>2. ASSUME NEW a \in b.codes
        PROVE  Ledger!Undone(o, a) = [val |-> b.old[a], op |-> None]
    BY <1>1, <2>1 DEF Ledger!Undone
  <2>3. \A a \in b.codes : offering[a] = None
    BY <2>1 DEF Present
  <2>4. Recordings' = [Recordings EXCEPT ![o].undone = TRUE]
    BY <1>4, <2>1
  <2>5. offering' = [a \in Address |-> IF a \in b.codes THEN Ledger!Undone(o, a)
                                       ELSE offering[a]]
    BY <2>1, <2>2
  <2> QED
    BY <1>6, <2>3, <2>4, <2>5
<1> QED
  BY <1>5, <1>7, <1>8

\* An edit is an edit, of any one row.
LEMMA LedgerEdit ==
  ASSUME TypeInv, NEW p \in Proc, Edits(p)
  PROVE  Ledger!Next
<1>1. PICK a \in Editable : \/ \E val \in Val : CreateOffering(p, a, val)
                            \/ \E patch \in Patch : UpdateOffering(p, a, patch)
                            \/ DeleteOffering(p, a)
  BY DEF Edits
<1>2. a \in Address
  BY EditableAssumption
<1>3. Recordings' = Recordings
  BY <1>1 DEF CreateOffering, UpdateOffering, DeleteOffering, Edited, Recordings
<1>4. ASSUME NEW val \in Val, CreateOffering(p, a, val) PROVE Ledger!Edit(a)
  <2>1. offering[a] = None /\ offering' = [offering EXCEPT ![a] = [val |-> val, op |-> None]]
    BY <1>4 DEF CreateOffering, Edited
  <2>2. val \in Ledger!Val
    BY DEF Ledger!Val, Val
  <2> QED
    BY <1>3, <2>1, <2>2 DEF Ledger!Edit, Recordings, Recording
<1>5. ASSUME NEW patch \in Patch, UpdateOffering(p, a, patch) PROVE Ledger!Edit(a)
  <2> DEFINE val == Patched(offering[a].val, patch)
  <2>1. offering[a] # None /\ offering' = [offering EXCEPT ![a] = [offering[a] EXCEPT !.val = val]]
    BY <1>5 DEF UpdateOffering, Edited
  <2>2. offering[a].val \in Val
    BY <1>2, <2>1 DEF TypeInv, TypeOK, Row
  <2>3. val \in Ledger!Val
    BY <2>2 DEF Ledger!Val, Val, Patch, Patched
  <2> HIDE DEF val
  <2>4. offering' = [offering EXCEPT ![a].val = val]
    BY <2>1
  <2> QED
    BY <1>3, <2>1, <2>3, <2>4 DEF Ledger!Edit, Recordings, Recording
<1>6. ASSUME DeleteOffering(p, a) PROVE Ledger!Edit(a)
  <2>1. offering[a] # None /\ offering' = [offering EXCEPT ![a] = None]
    BY <1>6 DEF DeleteOffering, Edited
  <2> QED
    BY <1>3, <2>1 DEF Ledger!Edit, Recordings, Recording
<1> QED
  BY <1>1, <1>2, <1>4, <1>5, <1>6 DEF Ledger!Next

LEMMA LedgerStutter ==
  ASSUME TypeInv, UNCHANGED offering,
         UNCHANGED bulk \/ \E o \in Op : Age(o)
  PROVE  UNCHANGED <<offering, Recordings>>
<1>1. ASSUME NEW o \in Op, Age(o), NEW x \in Op PROVE Recording(bulk'[x]) = Recording(bulk[x])
  <2>1. /\ bulk'[x].state = bulk[x].state /\ bulk'[x].kind = bulk[x].kind
        /\ bulk'[x].codes = bulk[x].codes /\ bulk'[x].old = bulk[x].old
        /\ bulk'[x].rolledBack = bulk[x].rolledBack
    BY <1>1 DEF Age, TypeInv, TypeOK, BulkRow
  <2> QED
    BY <2>1 DEF Recording
<1> QED
  BY <1>1 DEF Recordings

LEMMA LedgerStep ==
  ASSUME TypeInv, SerialInv, [Next]_vars
  PROVE  [Ledger!Next]_(Ledger!ledger)
<1>1. \/ UNCHANGED offering /\ (UNCHANGED bulk \/ \E o \in Op : Age(o))
      \/ \E p \in Proc, o \in Op : CommitAdd(p, o) \/ CommitChange(p, o) \/ CommitRemove(p, o)
      \/ \E p \in Proc : RollbackAdd(p) \/ RollbackChange(p) \/ RollbackRemove(p)
      \/ \E p \in Proc : Edits(p)
  BY DEF Next, Bulk, Execute, Rollback, Environment, vars, Preview, ReadToken, ConsumeToken,
     RefuseRate, SelectLive, SelectExisting, LogRemoval, BeginRollback, Fail, SyncAddress,
     Expire, Age
<1>2. UNCHANGED <<offering, Recordings>> => UNCHANGED Ledger!ledger
  BY DEF Ledger!ledger, Recordings, Recording
<1> QED
  BY <1>1, <1>2, LedgerCommit, LedgerRollback, LedgerEdit, LedgerStutter

\* With requests one at a time the handlers implement the ledger: an operation takes
\* effect at its COMMIT on the rows it finds there, records exactly what it replaces, and
\* its rollback puts that back (bulk_execute, bulk_rollback, the handlers of addresses.py).
THEOREM LedgerCorrect ==
  ASSUME OneAtATime
  PROVE  Spec => ImplementsLedger
<1>1. Init => Ledger!Init
  BY LedgerInit
<1>2. TypeInv /\ SerialInv /\ [Next]_vars => [Ledger!Next]_(Ledger!ledger)
  BY LedgerStep
<1> QED
  BY <1>1, <1>2, TypeInvariant, SerialInvariant, PTL DEF Spec, ImplementsLedger, Ledger!Spec
=============================================================================
