------------------------- MODULE BulkRollbackProofs -------------------------
(***************************************************************************)
(* What a rollback of BulkOperations undoes, for every set of addresses,   *)
(* users, tokens, operations and concurrent requests.                      *)
(***************************************************************************)
EXTENDS BulkOperationsProofs

USE NoneAssumption, RequestAssumption

-----------------------------------------------------------------------------
(* The steps, sorted by what they do to the rows and the operations.       *)

Commit(p, o) == CommitAdd(p, o) \/ CommitChange(p, o) \/ CommitRemove(p, o)

SameOperation(o) ==
  /\ bulk'[o].state = bulk[o].state /\ bulk'[o].kind = bulk[o].kind
  /\ bulk'[o].codes = bulk[o].codes /\ bulk'[o].old = bulk[o].old
  /\ bulk'[o].rolledBack = bulk[o].rolledBack

\* Reading, logging, giving up, waiting: no row and no operation changes.
Quiet == UNCHANGED <<offering, writer>> /\ \A o \in Op : SameOperation(o)

\* A row is written by hand, at one address.
ByHand ==
  /\ UNCHANGED bulk
  /\ \E a \in Address :
       /\ \E row \in Row \cup {None} :
            /\ offering' = [offering EXCEPT ![a] = row]
            /\ row # None => row.op = None \/ (offering[a] # None /\ row.op = offering[a].op)
       /\ writer' = [writer EXCEPT ![a] = None]

LEMMA EditsByHand ==
  ASSUME TypeInv, NEW p \in Proc, Edits(p)
  PROVE  ByHand
<1>1. PICK a \in Editable :
         \/ \E val \in Val : CreateOffering(p, a, val)
         \/ \E patch \in Patch : UpdateOffering(p, a, patch)
         \/ DeleteOffering(p, a)
  BY DEF Edits
<1>2. a \in Address /\ offering[a] \in Row \cup {None}
  BY EditableAssumption DEF TypeInv, TypeOK
<1>3. ASSUME NEW row \in Row \cup {None}, NEW action, Edited(p, a, row, action),
             row # None => row.op = None \/ (offering[a] # None /\ row.op = offering[a].op)
      PROVE  ByHand
  BY <1>2, <1>3 DEF ByHand, Edited
<1>4. ASSUME NEW val \in Val, CreateOffering(p, a, val) PROVE ByHand
  <2>1. [val |-> val, op |-> None] \in Row
    BY DEF Row
  <2> QED
    BY <1>3, <1>4, <2>1 DEF CreateOffering
<1>5. ASSUME NEW patch \in Patch, UpdateOffering(p, a, patch) PROVE ByHand
  <2> DEFINE row == [offering[a] EXCEPT !.val = Patched(@, patch)]
  <2>1. offering[a] \in Row
    BY <1>2, <1>5 DEF UpdateOffering
  <2>2. row \in Row /\ row.op = offering[a].op
    BY <2>1, PatchedType DEF Row
  <2>3. Edited(p, a, row, "update") /\ offering[a] # None
    BY <1>5 DEF UpdateOffering
  <2> HIDE DEF row
  <2> QED
    BY <1>3, <2>2, <2>3
<1>6. CASE DeleteOffering(p, a)
  BY <1>3, <1>6 DEF DeleteOffering
<1> QED
  BY <1>1, <1>4, <1>5, <1>6

LEMMA StepCases ==
  ASSUME TypeInv, [Next]_vars
  PROVE  \/ Quiet
         \/ \E p \in Proc, o \in Op : Commit(p, o)
         \/ \E p \in Proc : RollbackAdd(p) \/ RollbackChange(p) \/ RollbackRemove(p)
         \/ ByHand
<1>1. ASSUME UNCHANGED <<offering, bulk, writer>> PROVE Quiet
  BY <1>1 DEF Quiet, SameOperation
<1>2. CASE UNCHANGED vars
  BY <1>1, <1>2 DEF vars
<1>3. ASSUME NEW p \in Proc, Bulk(p)
      PROVE  \/ UNCHANGED <<offering, bulk, writer>>
             \/ \E o \in Op : Commit(p, o)
             \/ RollbackAdd(p) \/ RollbackChange(p) \/ RollbackRemove(p)
  BY <1>3 DEF Bulk, Execute, Rollback, Commit, Preview, ReadToken, ConsumeToken,
     RefuseRate, SelectLive, SelectExisting, LogRemoval, BeginRollback, Fail
<1>4. ASSUME NEW o \in Op, Age(o) PROVE Quiet
  <2>1. UNCHANGED <<offering, writer>>
    BY <1>4 DEF Age
  <2>2. ASSUME NEW x \in Op PROVE SameOperation(x)
    <3>1. bulk[x] \in BulkRow
      BY DEF TypeInv, TypeOK
    <3>2. \/ bulk'[x] = bulk[x]
          \/ bulk'[x] = [bulk[x] EXCEPT !.age = "window"]
          \/ bulk'[x] = [bulk[x] EXCEPT !.age = "expired"]
      BY <1>4 DEF Age, TypeInv, TypeOK
    <3> QED
      BY <3>1, <3>2 DEF BulkRow, SameOperation
  <2> QED
    BY <2>1, <2>2 DEF Quiet
<1>5. ASSUME (\E a \in Address : SyncAddress(a)) \/ (\E t \in Token : Expire(t))
      PROVE  Quiet
  BY <1>1, <1>5 DEF SyncAddress, Expire
<1> QED
  BY <1>1, <1>2, <1>3, <1>4, <1>5, EditsByHand DEF Next, Environment

\* What every commit does to the operations and the history.
LEMMA FinishEffect ==
  ASSUME TypeInv, NEW p \in Proc, NEW o \in Op, NEW codes, NEW wrote, NEW entries,
         Finish(p, o, codes, wrote, entries)
  PROVE  /\ bulk[o].state = "unused"
         /\ bulk'[o].state = "done" /\ ~ bulk'[o].rolledBack
         /\ bulk'[o].kind = token[job[p].tok].kind /\ bulk'[o].codes = codes
         /\ \A x \in Op : x # o => bulk'[x] = bulk[x]
         /\ \A a \in Address : writer'[a] = IF a \in wrote THEN o ELSE writer[a]
BY DEF Finish, TypeInv, TypeOK

\* What every rollback does to the operations and the history.
LEMMA FinishRollbackEffect ==
  ASSUME TypeInv, NEW p \in Proc, NEW wrote, job[p].pc = "rollback",
         FinishRollback(p, wrote)
  PROVE  /\ job[p].op \in Op /\ bulk[job[p].op].state = "done"
         /\ bulk'[job[p].op].rolledBack
         /\ \A x \in Op : /\ bulk'[x].state = bulk[x].state /\ bulk'[x].kind = bulk[x].kind
                          /\ bulk'[x].codes = bulk[x].codes /\ bulk'[x].old = bulk[x].old
                          /\ x # job[p].op => bulk'[x].rolledBack = bulk[x].rolledBack
         /\ \A a \in Address : writer'[a] = IF a \in wrote THEN None ELSE writer[a]
<1>1. job[p].op \in Op /\ bulk[job[p].op].state = "done"
  BY JobsTypedEach DEF TypeInv, JobTyped
<1>2. bulk' = [bulk EXCEPT ![job[p].op].rolledBack = TRUE] /\ bulk \in [Op -> BulkRow]
  BY DEF FinishRollback, TypeInv, TypeOK
<1>3. \A a \in Address : writer'[a] = IF a \in wrote THEN None ELSE writer[a]
  BY DEF FinishRollback
<1>4. ASSUME NEW x \in Op
      PROVE  /\ bulk'[x].state = bulk[x].state /\ bulk'[x].kind = bulk[x].kind
             /\ bulk'[x].codes = bulk[x].codes /\ bulk'[x].old = bulk[x].old
             /\ bulk'[x].rolledBack = IF x = job[p].op THEN TRUE ELSE bulk[x].rolledBack
  <2>1. bulk[x] \in BulkRow
    BY <1>2
  <2>2. bulk'[x] = IF x = job[p].op THEN [bulk[x] EXCEPT !.rolledBack = TRUE] ELSE bulk[x]
    BY <1>2
  <2> QED
    BY <2>1, <2>2 DEF BulkRow
<1> QED
  BY <1>1, <1>3, <1>4

-----------------------------------------------------------------------------
(* A row with the id of an operation was created by it; the last writer of *)
(* an address left there what its rollback will find.                      *)

WriterSound ==
  \A a \in Address, o \in Op : writer[a] = o =>
    /\ bulk[o].state = "done"
    /\ bulk[o].kind = "add" /\ offering[a] # None => offering[a].op = o
    /\ bulk[o].kind = "change" => offering[a] # None

RowsInv == TagsSound /\ WriterSound

LEMMA CommitRows ==
  ASSUME TypeInv, RowsInv, NEW p \in Proc, NEW o \in Op, Commit(p, o)
  PROVE  RowsInv'
<1> DEFINE t == token[job[p].tok]
           found == Present(job[p].codes)
           new == job[p].codes \ found
<1>1. offering \in [Address -> Row \cup {None}] /\ bulk \in [Op -> BulkRow]
  BY DEF TypeInv, TypeOK
<1>2. CASE CommitAdd(p, o)
  <2>1. \A a \in Address : offering'[a] = IF a \in new THEN [val |-> t.data, op |-> o]
                                          ELSE offering[a]
    BY <1>2 DEF CommitAdd
  <2>2. Finish(p, o, new, new, Entries("create", new, o)) /\ t.kind = "add"
    BY <1>2 DEF CommitAdd
  <2> HIDE DEF new, t
  <2>3. TagsSound'
    BY <2>1, <2>2, FinishEffect DEF RowsInv, TagsSound, t
  <2>4. WriterSound'
    BY <2>1, <2>2, FinishEffect DEF RowsInv, WriterSound, t
  <2> QED
    BY <2>3, <2>4 DEF RowsInv
<1>3. CASE CommitChange(p, o)
  <2>1. ASSUME NEW a \in found
        PROVE  offering[a] # None /\ [offering[a] EXCEPT !.val = Patched(@, t.data)] # None
               /\ [offering[a] EXCEPT !.val = Patched(@, t.data)].op = offering[a].op
    <3>1. JobTyped(job[p]) /\ job[p] \in Job /\ job[p].pc = "write"
      BY <1>3, JobsTypedEach DEF TypeInv, TypeOK, CommitChange
    <3>2. a \in Address /\ offering[a] # None /\ offering[a] \in Row
      BY <1>1, <3>1 DEF Present, Job
    <3>3. t.data \in Patch
      BY <3>1 DEF JobTyped, TypeInv, TypeOK, TokenRow
    <3>4. [offering[a] EXCEPT !.val = Patched(@, t.data)] \in Row
      BY <3>2, <3>3, PatchedType DEF Row
    <3> QED
      BY <3>2, <3>4 DEF Row
  <2>2. \A a \in Address : IF a \in found THEN /\ offering[a] # None /\ offering'[a] # None
                                             /\ offering'[a].op = offering[a].op
                                        ELSE offering'[a] = offering[a]
    BY <1>3, <2>1 DEF CommitChange
  <2>3. Finish(p, o, job[p].codes, found, Entries("update", found, o)) /\ t.kind = "change"
    BY <1>3 DEF CommitChange
  <2> HIDE DEF found, t
  <2>4. TagsSound'
    BY <2>2, <2>3, FinishEffect DEF RowsInv, TagsSound
  <2>5. WriterSound'
    BY <2>2, <2>3, FinishEffect DEF RowsInv, WriterSound, t
  <2> QED
    BY <2>4, <2>5 DEF RowsInv
<1>4. CASE CommitRemove(p, o)
  <2>1. \A a \in Address : offering'[a] = IF a \in found THEN None ELSE offering[a]
    BY <1>4 DEF CommitRemove
  <2>2. Finish(p, o, job[p].codes, found, Entries("delete", job[p].logged, o)) /\ t.kind = "remove"
    BY <1>4 DEF CommitRemove
  <2> HIDE DEF found, t
  <2>3. TagsSound'
    BY <2>1, <2>2, FinishEffect DEF RowsInv, TagsSound
  <2>4. WriterSound'
    BY <2>1, <2>2, FinishEffect DEF RowsInv, WriterSound, t
  <2> QED
    BY <2>3, <2>4 DEF RowsInv
<1> QED
  BY <1>2, <1>3, <1>4 DEF Commit

LEMMA RollbackRows ==
  ASSUME TypeInv, RowsInv, NEW p \in Proc,
         RollbackAdd(p) \/ RollbackChange(p) \/ RollbackRemove(p)
  PROVE  RowsInv'
<1> DEFINE o == job[p].op
           b == bulk[o]
           found == Present(b.codes)
           mine == {a \in found : offering[a].op = o}
<1>1. offering \in [Address -> Row \cup {None}] /\ job[p].pc = "rollback"
  BY DEF TypeInv, TypeOK, RollbackAdd, RollbackChange, RollbackRemove
<1>2. CASE RollbackAdd(p)
  <2>1. FinishRollback(p, mine) /\ b.kind = "add"
    BY <1>2 DEF RollbackAdd
  <2>2. \A a \in Address : offering'[a] = IF a \in mine THEN None ELSE offering[a]
    BY <1>2 DEF RollbackAdd
  <2>3. \A a \in Address : offering[a] # None /\ offering[a].op = o => a \in mine
    BY <1>1, <2>1, FinishRollbackEffect DEF RowsInv, TagsSound, Present
  <2> HIDE DEF mine
  <2>4. TagsSound'
    BY <1>1, <2>1, <2>2, <2>3, FinishRollbackEffect DEF RowsInv, TagsSound
  <2>5. WriterSound'
    BY <1>1, <2>1, <2>2, FinishRollbackEffect DEF RowsInv, WriterSound
  <2> QED
    BY <2>4, <2>5 DEF RowsInv
<1>3. CASE RollbackChange(p)
  <2>1. FinishRollback(p, found) /\ b.kind = "change"
    BY <1>3 DEF RollbackChange
  <2>2. b.codes \subseteq Address /\ \A a \in b.codes : b.old[a] \in Val
    <3>1. o \in Op /\ b.state = "done"
      BY <1>1, <2>1, FinishRollbackEffect
    <3>2. b \in BulkRow
      BY <3>1 DEF TypeInv, TypeOK
    <3> QED
      BY <2>1, <3>1, <3>2 DEF TypeInv, BulkTyped, BulkRow
  <2>3. ASSUME NEW a \in found
        PROVE  /\ [offering[a] EXCEPT !.val = b.old[a]] # None
               /\ [offering[a] EXCEPT !.val = b.old[a]].op = offering[a].op
    <3>1. offering[a] \in Row /\ b.old[a] \in Val
      BY <1>1, <2>2 DEF Present
    <3> HIDE DEF b
    <3>2. [offering[a] EXCEPT !.val = b.old[a]] \in Row
      BY <3>1 DEF Row
    <3> QED
      BY <3>1, <3>2 DEF Row
  <2>4. \A a \in Address : IF a \in found THEN /\ offering[a] # None /\ offering'[a] # None
                                               /\ offering'[a].op = offering[a].op
                                          ELSE offering'[a] = offering[a]
    BY <1>3, <2>3 DEF RollbackChange, Present
  <2> HIDE DEF found
  <2>5. TagsSound'
    BY <1>1, <2>1, <2>4, FinishRollbackEffect DEF RowsInv, TagsSound
  <2>6. WriterSound'
    BY <1>1, <2>1, <2>4, FinishRollbackEffect DEF RowsInv, WriterSound
  <2> QED
    BY <2>5, <2>6 DEF RowsInv
<1>4. CASE RollbackRemove(p)
  <2>1. FinishRollback(p, b.codes) /\ b.kind = "remove"
    BY <1>4 DEF RollbackRemove
  <2>2. \A a \in Address : offering'[a] = IF a \in b.codes THEN [val |-> b.old[a], op |-> None]
                                          ELSE offering[a]
    BY <1>4 DEF RollbackRemove
  <2>3. \A a \in Address : \/ offering'[a].op = None /\ writer'[a] = None
                           \/ offering'[a] = offering[a] /\ writer'[a] = writer[a]
    <3>1. \A a \in Address : writer'[a] = IF a \in b.codes THEN None ELSE writer[a]
      BY <1>1, <2>1, FinishRollbackEffect
    <3>2. \A a \in Address : /\ a \in b.codes => offering'[a].op = None
                             /\ a \notin b.codes => offering'[a] = offering[a]
      <4> HIDE DEF b
      <4>1. ASSUME NEW a \in Address, a \in b.codes PROVE offering'[a].op = None
        <5>1. offering'[a] = [val |-> b.old[a], op |-> None]
          BY <2>2, <4>1
        <5> QED
          BY <5>1
      <4> QED
        BY <2>2, <4>1
    <3> QED
      BY <3>1, <3>2
  <2>4. TagsSound'
    BY <1>1, <2>1, <2>3, FinishRollbackEffect DEF RowsInv, TagsSound
  <2>5. \A x \in Op : bulk'[x].state = bulk[x].state /\ bulk'[x].kind = bulk[x].kind
    BY <1>1, <2>1, FinishRollbackEffect
  <2>6. WriterSound'
    BY <2>3, <2>5 DEF RowsInv, WriterSound
  <2> QED
    BY <2>4, <2>6 DEF RowsInv
<1> QED
  BY <1>2, <1>3, <1>4

LEMMA RowsStep == TypeInv /\ RowsInv /\ [Next]_vars => RowsInv'
<1> SUFFICES ASSUME TypeInv, RowsInv, [Next]_vars PROVE RowsInv'
  OBVIOUS
<1>1. CASE Quiet
  BY <1>1 DEF Quiet, SameOperation, RowsInv, TagsSound, WriterSound
<1>2. CASE ByHand
  <2>1. PICK a \in Address, row \in Row \cup {None} :
          /\ offering' = [offering EXCEPT ![a] = row]
          /\ row # None => row.op = None \/ (offering[a] # None /\ row.op = offering[a].op)
          /\ writer' = [writer EXCEPT ![a] = None]
    BY <1>2 DEF ByHand
  <2>2. UNCHANGED bulk /\ \A x \in Address :
          /\ offering'[x] = IF x = a THEN row ELSE offering[x]
          /\ writer'[x] = IF x = a THEN None ELSE writer[x]
    BY <1>2, <2>1 DEF ByHand, TypeInv, TypeOK
  <2>3. TagsSound'
    BY <2>1, <2>2 DEF RowsInv, TagsSound
  <2>4. WriterSound'
    BY <2>2 DEF RowsInv, WriterSound
  <2> QED
    BY <2>3, <2>4 DEF RowsInv
<1> QED
  BY <1>1, <1>2, StepCases, CommitRows, RollbackRows

LEMMA RowsInvariant == Spec => []RowsInv
<1>1. Init => RowsInv
  BY DEF Init, RowsInv, TagsSound, WriterSound
<1>2. TypeInv /\ RowsInv /\ [Next]_vars => RowsInv'
  BY RowsStep
<1> QED
  BY <1>1, <1>2, TypeInvariant, PTL DEF Spec

\* A row with a bulk_operation_id belongs to an addition that stands: no
\* sequence of edits, removals and rollbacks leaves a row of an addition that
\* was rolled back under its name.
THEOREM TagsSoundCorrect == Spec => []TagsSound
<1>1. RowsInv => TagsSound
  BY DEF RowsInv
<1> QED
  BY <1>1, RowsInvariant, PTL

-----------------------------------------------------------------------------
(* What the rollback itself does.                                          *)

\* The only step that marks an operation as rolled back is its rollback.
LEMMA RollsBackByRollback ==
  ASSUME TypeInv, [Next]_vars, NEW o \in Op, RollsBack(o)
  PROVE  \E p \in Proc : /\ job[p].pc = "rollback" /\ job[p].op = o
                         /\ RollbackAdd(p) \/ RollbackChange(p) \/ RollbackRemove(p)
<1>1. CASE Quiet
  BY <1>1 DEF Quiet, SameOperation, RollsBack
<1>2. ASSUME NEW p \in Proc, NEW x \in Op, Commit(p, x) PROVE FALSE
  <2>1. PICK codes, wrote, entries : Finish(p, x, codes, wrote, entries)
    BY <1>2 DEF Commit, CommitAdd, CommitChange, CommitRemove
  <2> QED
    BY <2>1, FinishEffect DEF RollsBack
<1>3. ASSUME NEW p \in Proc, RollbackAdd(p) \/ RollbackChange(p) \/ RollbackRemove(p)
      PROVE  job[p].pc = "rollback" /\ job[p].op = o
  <2>1. job[p].pc = "rollback" /\ \E wrote : FinishRollback(p, wrote)
    BY <1>3 DEF RollbackAdd, RollbackChange, RollbackRemove
  <2> QED
    BY <2>1, FinishRollbackEffect DEF RollsBack
<1>4. CASE ByHand
  BY <1>4 DEF ByHand, RollsBack
<1> QED
  BY <1>1, <1>2, <1>3, <1>4, StepCases

LEMMA RollbackUndoesStep ==
  ASSUME TypeInv, RowsInv, [Next]_vars, NEW o \in Op, RollsBack(o),
         NEW a \in bulk[o].codes, writer[a] = o
  PROVE  IF bulk[o].kind = "add" THEN offering'[a] = None
         ELSE offering'[a] # None /\ offering'[a].val = bulk[o].old[a]
<1>1. PICK p \in Proc : /\ job[p].pc = "rollback" /\ job[p].op = o
                        /\ RollbackAdd(p) \/ RollbackChange(p) \/ RollbackRemove(p)
  BY RollsBackByRollback
<1>2. bulk[o].state = "done" /\ bulk[o] \in BulkRow
  BY <1>1, JobsTypedEach DEF TypeInv, TypeOK, JobTyped
<1>3. a \in Address /\ offering[a] \in Row \cup {None}
  BY <1>2 DEF BulkRow, TypeInv, TypeOK
<1>4. bulk[o].kind # "add" => bulk[o].old[a] \in Val
  BY <1>2 DEF TypeInv, BulkTyped
<1>5. /\ bulk[o].kind = "add" /\ offering[a] # None => offering[a].op = o
      /\ bulk[o].kind = "change" => offering[a] # None
  BY <1>3 DEF RowsInv, WriterSound
<1>6. CASE RollbackAdd(p)
  BY <1>1, <1>3, <1>5, <1>6 DEF RollbackAdd, Present
<1>7. CASE RollbackChange(p)
  <2>1. offering'[a] = [offering[a] EXCEPT !.val = bulk[o].old[a]] /\ bulk[o].kind = "change"
    BY <1>1, <1>3, <1>5, <1>7 DEF RollbackChange, Present
  <2>2. offering[a] \in Row /\ bulk[o].old[a] \in Val
    BY <1>3, <1>4, <1>5, <2>1
  <2>3. offering'[a] \in Row /\ offering'[a].val = bulk[o].old[a]
    BY <2>1, <2>2 DEF Row
  <2> QED
    BY <2>1, <2>3
<1>8. CASE RollbackRemove(p)
  <2>1. offering'[a] = [val |-> bulk[o].old[a], op |-> None] /\ bulk[o].kind = "remove"
    BY <1>1, <1>3, <1>8 DEF RollbackRemove
  <2>2. offering'[a] \in Row
    BY <1>4, <2>1 DEF Row
  <2> QED
    BY <2>1, <2>2
<1> QED
  BY <1>1, <1>6, <1>7, <1>8

\* Rolling an operation back undoes it at every address nobody wrote since.
THEOREM RollbackUndoesCorrect == Spec => RollbackUndoes
<1>1. TypeInv /\ RowsInv /\ [Next]_vars =>
        [\A o \in Op : RollsBack(o) =>
           \A a \in bulk[o].codes : writer[a] = o =>
             IF bulk[o].kind = "add" THEN offering'[a] = None
             ELSE offering'[a] # None /\ offering'[a].val = bulk[o].old[a]]_vars
  BY RollbackUndoesStep
<1> QED
  BY <1>1, TypeInvariant, RowsInvariant, PTL DEF Spec, RollbackUndoes

LEMMA ExistingRowsKeptStep ==
  ASSUME TypeInv, [Next]_vars, NEW o \in Op,
         \/ bulk[o].state = "unused" /\ bulk'[o].state = "done" /\ bulk'[o].kind = "add"
         \/ RollsBack(o) /\ bulk[o].kind = "remove",
         NEW a \in Address, offering[a] # None
  PROVE  offering'[a] = offering[a]
<1>1. CASE RollsBack(o) /\ bulk[o].kind = "remove"
  <2>1. PICK p \in Proc : job[p].op = o /\ RollbackRemove(p)
    BY <1>1, RollsBackByRollback DEF RollbackAdd, RollbackChange
  <2> QED
    BY <2>1 DEF RollbackRemove, Present
<1>2. CASE bulk[o].state = "unused" /\ bulk'[o].state = "done" /\ bulk'[o].kind = "add"
  <2>1. ASSUME Quiet PROVE FALSE
    BY <1>2, <2>1 DEF Quiet, SameOperation
  <2>2. ASSUME ByHand PROVE FALSE
    BY <1>2, <2>2 DEF ByHand
  <2>3. ASSUME NEW p \in Proc, RollbackAdd(p) \/ RollbackChange(p) \/ RollbackRemove(p)
        PROVE  FALSE
    <3>1. job[p].pc = "rollback" /\ \E wrote : FinishRollback(p, wrote)
      BY <2>3 DEF RollbackAdd, RollbackChange, RollbackRemove
    <3> QED
      BY <1>2, <3>1, FinishRollbackEffect
  <2>4. ASSUME NEW p \in Proc, NEW x \in Op, Commit(p, x)
        PROVE  offering'[a] = offering[a]
    <3>1. PICK codes, wrote, entries : Finish(p, x, codes, wrote, entries)
      BY <2>4 DEF Commit, CommitAdd, CommitChange, CommitRemove
    <3>2. x = o /\ token[job[p].tok].kind = "add"
      BY <1>2, <3>1, FinishEffect
    <3> QED
      BY <2>4, <3>2 DEF Commit, CommitAdd, CommitChange, CommitRemove, Present
  <2> QED
    BY <2>1, <2>2, <2>3, <2>4, StepCases
<1> QED
  BY <1>1, <1>2

\* Neither an addition nor the rollback of a removal changes a row that is
\* there, whatever the requests read before.
THEOREM ExistingRowsKeptCorrect == Spec => ExistingRowsKept
<1>1. TypeInv /\ [Next]_vars =>
        [\A o \in Op :
           \/ bulk[o].state = "unused" /\ bulk'[o].state = "done" /\ bulk'[o].kind = "add"
           \/ RollsBack(o) /\ bulk[o].kind = "remove"
           => \A a \in Address : offering[a] # None => offering'[a] = offering[a]]_vars
  BY ExistingRowsKeptStep
<1> QED
  BY <1>1, TypeInvariant, PTL DEF Spec, ExistingRowsKept
=============================================================================
