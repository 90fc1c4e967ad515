------------------------ MODULE BulkOperationsProofs ------------------------
(***************************************************************************)
(* Theorems about BulkOperations for every set of addresses, users, tokens,*)
(* operations and concurrent requests.                                     *)
(***************************************************************************)
EXTENDS BulkOperations, FiniteSetTheorems, FunctionTheorems, TLAPS

USE NoneAssumption, RequestAssumption

-----------------------------------------------------------------------------
(* The inductive strengthening of the type invariant: what the rows of the *)
(* tables and the requests hold besides values of the right type.          *)

\* A stored token has an owner and an operation; an addition is complete.
TokensTyped ==
  \A t \in Token :
    /\ token[t].state # "unused" => token[t].user \in User /\ token[t].kind \in Kind
    /\ token[t].kind = "add" => token[t].data \in Val

\* An executed operation has a token; of a change or a removal the payload of
\* every code is there for the rollback.
BulkTyped ==
  \A o \in Op : bulk[o].state = "done" =>
    /\ bulk[o].tok \in Token
    /\ bulk[o].kind \in Kind
    /\ bulk[o].kind # "add" => \A a \in bulk[o].codes : bulk[o].old[a] \in Val

Executing(p) == job[p].pc \in {"token", "dispatch", "log", "write"}

\* A request that executes has read a token, and once it has read rows it has
\* their payload; one that rolls back has read an executed operation.
JobsTyped ==
  \A p \in Proc :
    /\ Executing(p) => job[p].tok \in Token /\ token[job[p].tok].state # "unused"
    /\ job[p].pc \in {"log", "write"} /\ token[job[p].tok].kind # "add" =>
         \A a \in job[p].codes : job[p].seen[a] \in Val
    /\ job[p].pc = "rollback" => job[p].op \in Op /\ bulk[job[p].op].state = "done"

TypeInv == TypeOK /\ TokensTyped /\ BulkTyped /\ JobsTyped

LEMMA InitTyped == Init => TypeInv
<1> SUFFICES ASSUME Init PROVE TypeInv
  OBVIOUS
<1> USE DEF Init
<1>1. TypeOK
  BY DEF TypeOK, NoToken, NoBulk, Idle, NoPatch, NoValues, TokenRow, BulkRow,
         Job, Patch, Row, Kind, AgeClass
<1>2. TokensTyped
  BY DEF TokensTyped, NoToken, Kind
<1>3. BulkTyped
  BY DEF BulkTyped, NoBulk
<1>4. JobsTyped
  BY DEF JobsTyped, Executing, Idle
<1> QED
  BY <1>1, <1>2, <1>3, <1>4 DEF TypeInv

LEMMA PatchedType ==
  ASSUME NEW val \in Val, NEW patch \in Patch
  PROVE  Patched(val, patch) \in Val
BY DEF Patched, Val, Patch

\* What a request must satisfy beside its type, as a predicate of its record.
JobTyped(j) ==
  /\ j.pc \in {"token", "dispatch", "log", "write"} =>
       j.tok \in Token /\ token[j.tok].state # "unused"
  /\ j.pc \in {"log", "write"} /\ token[j.tok].kind # "add" =>
       \A a \in j.codes : j.seen[a] \in Val
  /\ j.pc = "rollback" => j.op \in Op /\ bulk[j.op].state = "done"

LEMMA JobsTypedEach == JobsTyped <=> \A p \in Proc : JobTyped(job[p])
BY DEF JobsTyped, JobTyped, Executing

LEMMA IdleTyped == Idle \in Job /\ JobTyped(Idle)
BY DEF Idle, Job, JobTyped, NoValues

\* A step that gives one request a well-typed record and changes nothing else.
LEMMA JobStep ==
  ASSUME TypeInv, NEW p \in Proc, NEW j \in Job, JobTyped(j),
         job' = [job EXCEPT ![p] = j], audit' = {},
         UNCHANGED <<live, offering, token, bulk, writer>>
  PROVE  TypeInv'
<1>1. TypeOK'
  BY DEF TypeInv, TypeOK
<1>2. TokensTyped' /\ BulkTyped'
  BY DEF TypeInv, TokensTyped, BulkTyped
<1>3. JobsTyped'
  <2>1. ASSUME NEW q \in Proc PROVE JobTyped(job[q])'
    <3>1. JobTyped(job[q])
      BY JobsTypedEach DEF TypeInv
    <3>2. job'[q] = IF q = p THEN j ELSE job[q]
      BY DEF TypeInv, TypeOK
    <3> QED
      BY <3>1, <3>2 DEF JobTyped
  <2> QED
    BY <2>1 DEF JobsTyped, JobTyped, Executing
<1> QED
  BY <1>1, <1>2, <1>3 DEF TypeInv

\* A step that ends one request and leaves tokens and operations at least as
\* determined as they were.
LEMMA JobsTypedStable ==
  ASSUME TypeInv, NEW p \in Proc, job' \in {job, [job EXCEPT ![p] = Idle]},
         \A t \in Token : token[t].state # "unused" =>
           token'[t].state # "unused" /\ token'[t].kind = token[t].kind,
         \A o \in Op : bulk[o].state = "done" => bulk'[o].state = "done"
  PROVE  JobsTyped'
<1>1. ASSUME NEW q \in Proc PROVE JobTyped(job[q])'
  <2>1. JobTyped(job[q]) /\ job[q] \in Job
    BY JobsTypedEach DEF TypeInv, TypeOK
  <2>2. job'[q] = job[q] \/ job'[q] = Idle
    BY DEF TypeInv, TypeOK
  <2>3. CASE job'[q] = Idle
    BY <2>3 DEF JobTyped, Idle
  <2>4. CASE job'[q] = job[q]
    BY <2>1, <2>4 DEF JobTyped
  <2> QED
    BY <2>2, <2>3, <2>4
<1> QED
  BY <1>1 DEF JobsTyped, JobTyped, Executing

-----------------------------------------------------------------------------
(* Every action preserves the strengthened type invariant. *)

LEMMA ReadTokenTyped ==
  ASSUME TypeInv, NEW p \in Proc, NEW t \in Token, ReadToken(p, t)
  PROVE  TypeInv'
<1> DEFINE j == [job[p] EXCEPT !.pc = "token", !.tok = t]
<1>1. job[p] \in Job
  BY DEF TypeInv, TypeOK
<1>2. j \in Job
  BY <1>1 DEF Job
<1>3. JobTyped(j)
  BY <1>1 DEF ReadToken, Job, JobTyped
<1> QED
  BY <1>2, <1>3, JobStep DEF ReadToken

LEMMA ConsumeTokenTyped ==
  ASSUME TypeInv, NEW p \in Proc, ConsumeToken(p)
  PROVE  TypeInv'
<1> DEFINE j == [job[p] EXCEPT !.pc = "dispatch",
                               !.holds = (token[job[p].tok].state = "stored")]
<1>1. JobTyped(job[p]) /\ job[p] \in Job
  BY JobsTypedEach DEF TypeInv, TypeOK
<1>2. j \in Job
  BY <1>1 DEF Job
<1>3. JobTyped(j)
  BY <1>1 DEF ConsumeToken, Job, JobTyped
<1> QED
  BY <1>2, <1>3, JobStep DEF ConsumeToken

LEMMA SelectLiveTyped ==
  ASSUME TypeInv, NEW p \in Proc, SelectLive(p)
  PROVE  TypeInv'
<1> DEFINE j == [job[p] EXCEPT !.pc = "write",
                               !.codes = token[job[p].tok].codes \cap live]
<1>1. JobTyped(job[p]) /\ job[p] \in Job /\ token[job[p].tok].kind = "add"
  BY JobsTypedEach DEF TypeInv, TypeOK, SelectLive
<1>2. j \in Job
  BY <1>1 DEF Job, TypeInv, TypeOK
<1>3. JobTyped(j)
  BY <1>1 DEF SelectLive, Job, JobTyped
<1> QED
  BY <1>2, <1>3, JobStep DEF SelectLive

LEMMA SelectExistingTyped ==
  ASSUME TypeInv, NEW p \in Proc, SelectExisting(p)
  PROVE  TypeInv'
<1> DEFINE t == token[job[p].tok]
           existing == Present(t.codes)
           seen == [a \in Address |-> IF a \in existing THEN offering[a].val ELSE None]
           j == [job[p] EXCEPT !.pc = IF t.kind = "change" THEN "write" ELSE "log",
                               !.codes = existing, !.seen = seen]
<1>1. JobTyped(job[p]) /\ job[p] \in Job /\ job[p].tok \in Token /\ t \in TokenRow
  BY JobsTypedEach DEF TypeInv, TypeOK, SelectExisting, JobTyped
<1>2. existing \subseteq Address /\ \A a \in existing : offering[a] \in Row
  BY <1>1 DEF Present, TypeInv, TypeOK, TokenRow
<1>3. seen \in [Address -> Val \cup {None}] /\ \A a \in existing : seen[a] \in Val
  BY <1>2 DEF Row
<1>4. j \in Job
  BY <1>1, <1>2, <1>3 DEF Job
<1>5. JobTyped(j)
  BY <1>1, <1>3 DEF SelectExisting, Job, JobTyped
<1> QED
  BY <1>4, <1>5, JobStep DEF SelectExisting

LEMMA LogRemovalTyped ==
  ASSUME TypeInv, NEW p \in Proc, LogRemoval(p)
  PROVE  TypeInv'
<1> DEFINE j == [job[p] EXCEPT !.pc = "write", !.logged = Present(job[p].codes)]
<1>1. JobTyped(job[p]) /\ job[p] \in Job
  BY JobsTypedEach DEF TypeInv, TypeOK
<1>2. j \in Job
  BY <1>1 DEF Job, Present
<1>3. JobTyped(j)
  BY <1>1 DEF LogRemoval, Job, JobTyped
<1> QED
  BY <1>2, <1>3, JobStep DEF LogRemoval

LEMMA GiveUpTyped ==
  ASSUME TypeInv, NEW p \in Proc, RefuseRate(p) \/ Fail(p)
  PROVE  TypeInv'
BY JobStep, IdleTyped DEF RefuseRate, Fail

LEMMA BeginRollbackTyped ==
  ASSUME TypeInv, NEW p \in Proc, NEW u \in User, NEW o \in Op, BeginRollback(p, u, o)
  PROVE  TypeInv'
<1> DEFINE j == [job[p] EXCEPT !.pc = "rollback", !.op = o]
<1>1. job[p] \in Job
  BY DEF TypeInv, TypeOK
<1>2. j \in Job
  BY <1>1 DEF Job
<1>3. JobTyped(j)
  BY <1>1 DEF BeginRollback, Job, JobTyped
<1> QED
  BY <1>2, <1>3, JobStep DEF BeginRollback

LEMMA PreviewTyped ==
  ASSUME TypeInv, NEW p \in Proc, NEW u \in User, NEW S \in SUBSET Address,
         NEW op \in Request, NEW t \in Token, Preview(p, u, S, op, t)
  PROVE  TypeInv'
<1> DEFINE new == [state |-> "stored", expired |-> FALSE, user |-> u,
                   kind |-> op.kind, data |-> op.data, codes |-> S \cap live]
<1>1. new \in TokenRow /\ (op.kind = "add" => op.data \in Val) /\ op.kind \in Kind
  BY DEF Operation, Kind, Patch, Val, NoPatch, TokenRow
<1>2. ASSUME NEW x \in Token
      PROVE  /\ token'[x] \in TokenRow
             /\ token'[x].state # "unused" => token'[x].user \in User /\ token'[x].kind \in Kind
             /\ token'[x].kind = "add" => token'[x].data \in Val
             /\ token[x].state # "unused" =>
                  token'[x].state # "unused" /\ token'[x].kind = token[x].kind
  <2>1. CASE x = t
    BY <1>1, <2>1 DEF Preview, Expired
  <2>2. CASE x # t
    <3>1. token[x] \in TokenRow /\ token'[x] \in {token[x], Deleted(x)}
      BY <2>2 DEF Preview, TypeInv, TypeOK
    <3>2. Deleted(x) \in TokenRow /\ Deleted(x).kind = token[x].kind
          /\ Deleted(x).data = token[x].data /\ Deleted(x).user = token[x].user
          /\ Deleted(x).state = "deleted"
      BY <3>1 DEF Deleted, TokenRow
    <3>3. token'[x] = Deleted(x) => token[x].state = "stored" \/ token'[x] = token[x]
      BY <2>2 DEF Preview, Expired
    <3> QED
      BY <3>1, <3>2, <3>3 DEF TypeInv, TokensTyped
  <2> QED
    BY <2>1, <2>2
<1>3. TypeOK'
  BY <1>2 DEF Preview, TypeInv, TypeOK
<1>4. TokensTyped'
  BY <1>2 DEF TokensTyped
<1>5. BulkTyped'
  BY DEF Preview, TypeInv, BulkTyped
<1>6. JobsTyped'
  BY <1>2, JobsTypedStable DEF Preview
<1> QED
  BY <1>3, <1>4, <1>5, <1>6 DEF TypeInv

LEMMA ExpireTyped ==
  ASSUME TypeInv, NEW t \in Token, Expire(t)
  PROVE  TypeInv'
<1>1. ASSUME NEW x \in Token
      PROVE  /\ token'[x] \in TokenRow
             /\ token'[x].state = token[x].state /\ token'[x].kind = token[x].kind
             /\ token'[x].user = token[x].user /\ token'[x].data = token[x].data
  <2>1. token[x] \in TokenRow
    BY DEF TypeInv, TypeOK
  <2>2. token'[x] = token[x] \/ token'[x] = [token[x] EXCEPT !.expired = TRUE]
    BY DEF Expire, TypeInv, TypeOK
  <2> QED
    BY <2>1, <2>2 DEF TokenRow
<1>2. TypeOK'
  BY <1>1 DEF Expire, TypeInv, TypeOK
<1>3. TokensTyped' /\ BulkTyped'
  BY <1>1 DEF Expire, TypeInv, TokensTyped, BulkTyped
<1>4. JobsTyped'
  <2>1. Proc = {} \/ \E p \in Proc : TRUE
    OBVIOUS
  <2>2. CASE Proc = {}
    BY <2>2 DEF JobsTyped
  <2>3. ASSUME NEW p \in Proc PROVE JobsTyped'
    BY <1>1, JobsTypedStable DEF Expire
  <2> QED
    BY <2>1, <2>2, <2>3
<1> QED
  BY <1>2, <1>3, <1>4 DEF TypeInv

LEMMA SyncAgeTyped ==
  ASSUME TypeInv, (\E a \in Address : SyncAddress(a)) \/ (\E o \in Op : Age(o))
  PROVE  TypeInv'
<1>1. CASE \E a \in Address : SyncAddress(a)
  BY <1>1 DEF SyncAddress, TypeInv, TypeOK, TokensTyped, BulkTyped, JobsTyped, Executing
<1>2. ASSUME NEW o \in Op, Age(o) PROVE TypeInv'
  <2>1. ASSUME NEW x \in Op
        PROVE  /\ bulk'[x] \in BulkRow
               /\ bulk'[x].state = bulk[x].state /\ bulk'[x].kind = bulk[x].kind
               /\ bulk'[x].tok = bulk[x].tok /\ bulk'[x].codes = bulk[x].codes
               /\ bulk'[x].old = bulk[x].old
    <3>1. bulk[x] \in BulkRow
      BY DEF TypeInv, TypeOK
    <3>2. \/ bulk'[x] = bulk[x]
          \/ bulk'[x] = [bulk[x] EXCEPT !.age = "window"]
          \/ bulk'[x] = [bulk[x] EXCEPT !.age = "expired"]
      BY <1>2 DEF Age, TypeInv, TypeOK
    <3> QED
      BY <3>1, <3>2 DEF BulkRow, AgeClass
  <2>2. TypeOK'
    BY <1>2, <2>1 DEF Age, TypeInv, TypeOK
  <2>3. TokensTyped' /\ BulkTyped'
    BY <1>2, <2>1 DEF Age, TypeInv, TokensTyped, BulkTyped
  <2>4. JobsTyped'
    BY <1>2, <2>1 DEF Age, TypeInv, JobsTyped, Executing
  <2> QED
    BY <2>2, <2>3, <2>4 DEF TypeInv
<1> QED
  BY <1>1, <1>2

\* What an execute commits beside its rows, given that the rows are typed.
LEMMA FinishTyped ==
  ASSUME TypeInv, NEW p \in Proc, NEW o \in Op,
         NEW codes \in SUBSET Address, NEW wrote \in SUBSET Address,
         NEW entries \in SUBSET AuditEntry,
         job[p].pc = "write", offering' \in [Address -> Row \cup {None}],
         token[job[p].tok].kind # "add" => codes \subseteq job[p].codes,
         Finish(p, o, codes, wrote, entries)
  PROVE  TypeInv'
<1> DEFINE t == job[p].tok
           b == [state |-> "done", user |-> token[t].user, kind |-> token[t].kind,
                 tok |-> t, codes |-> codes, old |-> job[p].seen,
                 age |-> "minute", rolledBack |-> FALSE]
<1>1. JobTyped(job[p]) /\ job[p] \in Job
  BY JobsTypedEach DEF TypeInv, TypeOK
<1>2. t \in Token /\ token[t].state # "unused"
  BY <1>1 DEF JobTyped
<1>3. token[t] \in TokenRow /\ token[t].user \in User /\ token[t].kind \in Kind
  BY <1>2 DEF TypeInv, TypeOK, TokensTyped
<1>4. job[p].seen \in [Address -> Val \cup {None}]
  BY <1>1 DEF Job
<1>5. b \in BulkRow
  BY <1>2, <1>3, <1>4 DEF BulkRow, AgeClass
<1>6. b.kind # "add" => \A a \in b.codes : b.old[a] \in Val
  BY <1>1 DEF JobTyped
<1>7. \A x \in Op : bulk'[x] = IF x = o THEN b ELSE bulk[x]
  BY DEF Finish, TypeInv, TypeOK
<1>8. bulk' \in [Op -> BulkRow]
  BY <1>5 DEF Finish, TypeInv, TypeOK
<1>9. BulkTyped'
  BY <1>2, <1>3, <1>6, <1>7 DEF BulkTyped, TypeInv
<1>10. ASSUME NEW x \in Token
       PROVE  /\ token'[x] \in TokenRow
              /\ token'[x].state # "unused" <=> token[x].state # "unused"
              /\ token'[x].kind = token[x].kind /\ token'[x].user = token[x].user
              /\ token'[x].data = token[x].data
  <2>1. token[x] \in TokenRow
    BY DEF TypeInv, TypeOK
  <2>2. token'[x] = token[x] \/ (x = t /\ token'[x] = Deleted(x))
    BY <1>2 DEF Finish, TypeInv, TypeOK
  <2>3. CASE token'[x] = token[x]
    BY <2>1, <2>3
  <2>4. CASE x = t /\ token'[x] = Deleted(x)
    <3>1. /\ Deleted(x) \in TokenRow /\ Deleted(x).state = "deleted"
          /\ Deleted(x).kind = token[x].kind /\ Deleted(x).user = token[x].user
          /\ Deleted(x).data = token[x].data
      BY <2>1 DEF Deleted, TokenRow
    <3> QED
      BY <1>2, <2>4, <3>1
  <2> QED
    BY <2>2, <2>3, <2>4
<1>11. token' \in [Token -> TokenRow]
  BY <1>2, <1>10 DEF Finish, TypeInv, TypeOK
<1>12. TokensTyped'
  BY <1>10 DEF TokensTyped, TypeInv
<1>13. audit' \subseteq AuditEntry
  BY DEF Finish, Entries, AuditEntry
<1>14. job' \in [Proc -> Job] /\ writer' \in [Address -> Op \cup {None}] /\ live' \subseteq Address
  BY IdleTyped DEF Finish, TypeInv, TypeOK
<1>15. JobsTyped'
  BY <1>7, <1>10, JobsTypedStable DEF Finish
<1> QED
  BY <1>8, <1>9, <1>11, <1>12, <1>13, <1>14, <1>15 DEF TypeInv, TypeOK

LEMMA CommitTyped ==
  ASSUME TypeInv, NEW p \in Proc, NEW o \in Op,
         CommitAdd(p, o) \/ CommitChange(p, o) \/ CommitRemove(p, o)
  PROVE  TypeInv'
<1> DEFINE t == token[job[p].tok]
           found == Present(job[p].codes)
           new == job[p].codes \ found
<1>1. JobTyped(job[p]) /\ job[p] \in Job /\ job[p].pc = "write"
  BY JobsTypedEach DEF TypeInv, TypeOK, CommitAdd, CommitChange, CommitRemove
<1>2. job[p].tok \in Token /\ t \in TokenRow /\ (t.kind = "add" => t.data \in Val)
  BY <1>1 DEF JobTyped, TypeInv, TypeOK, TokensTyped
<1>3. t.data \in Patch /\ o \in Op \cup {None}
  BY <1>2 DEF TokenRow
<1>4. job[p].codes \subseteq Address /\ job[p].logged \subseteq Address
  BY <1>1 DEF Job
<1>5. found \subseteq Address /\ new \subseteq Address /\ \A a \in found : offering[a] \in Row
  BY <1>4 DEF Present, TypeInv, TypeOK
<1>6. \A S \in SUBSET Address : /\ Entries("create", S, o) \in SUBSET AuditEntry
                               /\ Entries("update", S, o) \in SUBSET AuditEntry
                               /\ Entries("delete", S, o) \in SUBSET AuditEntry
  BY <1>3 DEF Entries, AuditEntry
<1>7. CASE CommitAdd(p, o)
  <2>1. [val |-> t.data, op |-> o] \in Row
    BY <1>2, <1>7 DEF CommitAdd, Row
  <2>2. offering' \in [Address -> Row \cup {None}]
    BY <1>7, <2>1 DEF CommitAdd, TypeInv, TypeOK
  <2>3. Finish(p, o, new, new, Entries("create", new, o)) /\ t.kind = "add"
    BY <1>7 DEF CommitAdd
  <2> QED
    BY <1>1, <1>5, <1>6, <2>2, <2>3, FinishTyped
<1>8. CASE CommitChange(p, o)
  <2>1. \A a \in found : [offering[a] EXCEPT !.val = Patched(@, t.data)] \in Row
    BY <1>3, <1>5, PatchedType DEF Row
  <2>2. offering' \in [Address -> Row \cup {None}]
    BY <1>8, <2>1 DEF CommitChange, TypeInv, TypeOK
  <2>3. Finish(p, o, job[p].codes, found, Entries("update", found, o))
    BY <1>8 DEF CommitChange
  <2> QED
    BY <1>1, <1>4, <1>5, <1>6, <2>2, <2>3, FinishTyped
<1>9. CASE CommitRemove(p, o)
  <2>1. offering' \in [Address -> Row \cup {None}]
    BY <1>9 DEF CommitRemove, TypeInv, TypeOK
  <2>2. Finish(p, o, job[p].codes, found, Entries("delete", job[p].logged, o))
    BY <1>9 DEF CommitRemove
  <2> QED
    BY <1>1, <1>4, <1>5, <1>6, <2>1, <2>2, FinishTyped
<1> QED
  BY <1>7, <1>8, <1>9

\* What a rollback commits beside its rows, given that the rows are typed.
LEMMA FinishRollbackTyped ==
  ASSUME TypeInv, NEW p \in Proc, NEW wrote \in SUBSET Address,
         job[p].pc = "rollback", offering' \in [Address -> Row \cup {None}],
         FinishRollback(p, wrote)
  PROVE  TypeInv'
<1> DEFINE o == job[p].op
<1>1. o \in Op /\ bulk[o].state = "done"
  BY JobsTypedEach DEF TypeInv, JobTyped
<1>2. ASSUME NEW x \in Op
      PROVE  /\ bulk'[x] \in BulkRow
             /\ bulk'[x].state = bulk[x].state /\ bulk'[x].kind = bulk[x].kind
             /\ bulk'[x].tok = bulk[x].tok /\ bulk'[x].codes = bulk[x].codes
             /\ bulk'[x].old = bulk[x].old
  <2>1. bulk[x] \in BulkRow
    BY DEF TypeInv, TypeOK
  <2>2. bulk'[x] = bulk[x] \/ bulk'[x] = [bulk[x] EXCEPT !.rolledBack = TRUE]
    BY DEF FinishRollback, TypeInv, TypeOK
  <2> QED
    BY <2>1, <2>2 DEF BulkRow
<1>3. audit' \subseteq AuditEntry
  BY <1>1 DEF FinishRollback, Entries, AuditEntry
<1>4. TypeOK'
  BY <1>2, <1>3, IdleTyped DEF FinishRollback, TypeInv, TypeOK
<1>5. TokensTyped' /\ BulkTyped'
  BY <1>2 DEF FinishRollback, TypeInv, TokensTyped, BulkTyped
<1>6. JobsTyped'
  BY <1>2, JobsTypedStable DEF FinishRollback
<1> QED
  BY <1>4, <1>5, <1>6 DEF TypeInv

LEMMA RollbackTyped ==
  ASSUME TypeInv, NEW p \in Proc,
         RollbackAdd(p) \/ RollbackChange(p) \/ RollbackRemove(p)
  PROVE  TypeInv'
<1> DEFINE b == bulk[job[p].op]
           found == Present(b.codes)
           mine == {a \in found : offering[a].op = job[p].op}
<1>1. job[p].pc = "rollback" /\ job[p].op \in Op /\ b.state = "done"
  BY JobsTypedEach DEF TypeInv, JobTyped, RollbackAdd, RollbackChange, RollbackRemove
<1>2. b \in BulkRow /\ (b.kind # "add" => \A a \in b.codes : b.old[a] \in Val)
  BY <1>1 DEF TypeInv, TypeOK, BulkTyped
<1>3. b.codes \subseteq Address
  BY <1>2 DEF BulkRow
<1>4. found \subseteq b.codes /\ mine \subseteq Address /\ \A a \in found : offering[a] \in Row
  BY <1>3 DEF Present, TypeInv, TypeOK
<1>5. CASE RollbackAdd(p)
  <2>1. offering' \in [Address -> Row \cup {None}] /\ FinishRollback(p, mine)
    BY <1>5 DEF RollbackAdd, TypeInv, TypeOK
  <2> QED
    BY <1>1, <1>4, <2>1, FinishRollbackTyped
<1>6. CASE RollbackChange(p)
  <2>1. \A a \in found : [offering[a] EXCEPT !.val = b.old[a]] \in Row
    BY <1>2, <1>4, <1>6 DEF Row, RollbackChange
  <2>2. offering' \in [Address -> Row \cup {None}] /\ FinishRollback(p, found)
    BY <1>6, <2>1 DEF RollbackChange, TypeInv, TypeOK
  <2> QED
    BY <1>1, <1>3, <1>4, <2>2, FinishRollbackTyped
<1>7. CASE RollbackRemove(p)
  <2>1. \A a \in b.codes : [val |-> b.old[a], op |-> None] \in Row
    BY <1>2, <1>7 DEF Row, RollbackRemove
  <2>2. offering' \in [Address -> Row \cup {None}] /\ FinishRollback(p, b.codes)
    BY <1>7, <2>1 DEF RollbackRemove, TypeInv, TypeOK
  <2> QED
    BY <1>1, <1>3, <2>2, FinishRollbackTyped
<1> QED
  BY <1>5, <1>6, <1>7

LEMMA EditedTyped ==
  ASSUME TypeInv, NEW p \in Proc, NEW a \in Address, NEW row \in Row \cup {None},
         NEW action \in {"create", "update", "delete"}, Edited(p, a, row, action)
  PROVE  TypeInv'
<1>1. TypeOK'
  BY DEF Edited, Entries, AuditEntry, TypeInv, TypeOK
<1>2. TokensTyped' /\ BulkTyped' /\ JobsTyped'
  BY DEF Edited, TypeInv, TokensTyped, BulkTyped, JobsTyped, Executing
<1> QED
  BY <1>1, <1>2 DEF TypeInv

LEMMA EditsTyped ==
  ASSUME TypeInv, NEW p \in Proc, Edits(p)
  PROVE  TypeInv'
<1>1. PICK a \in Editable :
         \/ \E val \in Val : CreateOffering(p, a, val)
         \/ \E patch \in Patch : UpdateOffering(p, a, patch)
         \/ DeleteOffering(p, a)
  BY DEF Edits
<1>2. a \in Address /\ offering[a] \in Row \cup {None}
  BY EditableAssumption DEF TypeInv, TypeOK
<1>3. ASSUME NEW val \in Val, CreateOffering(p, a, val) PROVE TypeInv'
  <2>1. [val |-> val, op |-> None] \in Row
    BY DEF Row
  <2> QED
    BY <1>2, <1>3, <2>1, EditedTyped DEF CreateOffering
<1>4. ASSUME NEW patch \in Patch, UpdateOffering(p, a, patch) PROVE TypeInv'
  <2>1. offering[a] \in Row
    BY <1>2, <1>4 DEF UpdateOffering
  <2>2. [offering[a] EXCEPT !.val = Patched(@, patch)] \in Row
    BY <2>1, PatchedType DEF Row
  <2> QED
    BY <1>2, <1>4, <2>2, EditedTyped DEF UpdateOffering
<1>5. CASE DeleteOffering(p, a)
  BY <1>2, <1>5, EditedTyped DEF DeleteOffering
<1> QED
  BY <1>1, <1>3, <1>4, <1>5

LEMMA TypeStep == TypeInv /\ [Next]_vars => TypeInv'
<1> SUFFICES ASSUME TypeInv, [Next]_vars PROVE TypeInv'
  OBVIOUS
<1>1. CASE UNCHANGED vars
  BY <1>1 DEF vars, TypeInv, TypeOK, TokensTyped, BulkTyped, JobsTyped, Executing
<1>2. ASSUME NEW p \in Proc, Bulk(p) PROVE TypeInv'
  <2>1. CASE \E u \in User, S \in SUBSET Address, op \in Request, t \in Token :
               Preview(p, u, S, op, t)
    BY <2>1, PreviewTyped
  <2>2. CASE Execute(p)
    BY <2>2, ReadTokenTyped, ConsumeTokenTyped, GiveUpTyped, SelectLiveTyped,
       SelectExistingTyped, LogRemovalTyped, CommitTyped DEF Execute
  <2>3. CASE Rollback(p)
    BY <2>3, BeginRollbackTyped, RollbackTyped DEF Rollback
  <2>4. CASE Fail(p)
    BY <2>4, GiveUpTyped
  <2> QED
    BY <1>2, <2>1, <2>2, <2>3, <2>4 DEF Bulk
<1>3. CASE Environment
  BY <1>3, ExpireTyped, SyncAgeTyped DEF Environment
<1> QED
  BY <1>1, <1>2, <1>3, EditsTyped DEF Next

\* Every reachable state is well typed (and the strengthened form of it): no
\* interleaving of requests, edits, failures and the register sync makes an
\* operation commit rows, tokens or rollback data of the wrong shape.
THEOREM TypeInvariant == Spec => []TypeInv
<1>1. Init => TypeInv
  BY InitTyped
<1>2. TypeInv /\ [Next]_vars => TypeInv'
  BY TypeStep
<1> QED
  BY <1>1, <1>2, PTL DEF Spec

\* Rows, tokens, operations and requests keep their types (bulk.py, addresses.py).
THEOREM TypeCorrect == Spec => []TypeOK
<1>1. TypeInv => TypeOK
  BY DEF TypeInv
<1> QED
  BY <1>1, TypeInvariant, PTL

-----------------------------------------------------------------------------
(* The preview token: a request past its DELETE of the token either holds  *)
(* the row lock or follows a request that has deleted the row.             *)

TokenUsed(j) ==
  j.pc \in {"dispatch", "log", "write"} => j.holds \/ token[j.tok].state = "deleted"

TokenInv == TokenRetired /\ \A p \in Proc : TokenUsed(job[p])

\* A deleted token stays deleted.
LEMMA DeletedStable ==
  ASSUME TypeInv, [Next]_vars, NEW t \in Token, token[t].state = "deleted"
  PROVE  token'[t].state = "deleted"
<1>1. token \in [Token -> TokenRow] /\ token[t] \in TokenRow
  BY DEF TypeInv, TypeOK
<1>2. CASE token' = token
  BY <1>2
<1>3. ASSUME NEW p \in Proc, NEW u \in User, NEW S \in SUBSET Address,
             NEW op \in Request, NEW x \in Token, Preview(p, u, S, op, x)
      PROVE  token'[t].state = "deleted"
  BY <1>3 DEF Preview, Expired
<1>4. ASSUME NEW x \in Token, Expire(x) PROVE token'[t].state = "deleted"
  BY <1>1, <1>4 DEF Expire
<1>5. ASSUME NEW p \in Proc, NEW o \in Op,
             CommitAdd(p, o) \/ CommitChange(p, o) \/ CommitRemove(p, o)
      PROVE  token'[t].state = "deleted"
  <2>1. token' = token \/ token' = [token EXCEPT ![job[p].tok] = Deleted(job[p].tok)]
    BY <1>5 DEF CommitAdd, CommitChange, CommitRemove, Finish
  <2>2. Deleted(t).state = "deleted"
    BY <1>1 DEF Deleted, TokenRow
  <2> QED
    BY <1>1, <2>1, <2>2
<1>6. ASSUME NEW p \in Proc,
             \/ \E x \in Token : ReadToken(p, x)
             \/ ConsumeToken(p) \/ RefuseRate(p) \/ Fail(p)
             \/ SelectLive(p) \/ SelectExisting(p) \/ LogRemoval(p)
             \/ \E u \in User, o \in Op : BeginRollback(p, u, o)
             \/ RollbackAdd(p) \/ RollbackChange(p) \/ RollbackRemove(p)
             \/ Edits(p)
      PROVE  token' = token
  BY <1>6 DEF ReadToken, ConsumeToken, RefuseRate, Fail, SelectLive, SelectExisting,
     LogRemoval, BeginRollback, RollbackAdd, RollbackChange, RollbackRemove,
     FinishRollback, Edits, CreateOffering, UpdateOffering, DeleteOffering, Edited
<1>7. ASSUME (\E a \in Address : SyncAddress(a)) \/ (\E o \in Op : Age(o))
      PROVE  token' = token
  BY <1>7 DEF SyncAddress, Age
<1> QED
  BY <1>2, <1>3, <1>4, <1>5, <1>6, <1>7
  DEF Next, Bulk, Execute, Rollback, Environment, vars

\* A step that at most ends or advances one request and finishes no operation.
LEMMA TokenJobStep ==
  ASSUME TypeInv, TokenInv, [Next]_vars, NEW p \in Proc, NEW j,
         TokenUsed(j),
         j.pc \in {"dispatch", "log", "write"} => j.tok \in Token,
         job' \in {job, [job EXCEPT ![p] = j]},
         \A o \in Op : bulk'[o].state = bulk[o].state /\ bulk'[o].tok = bulk[o].tok
  PROVE  TokenInv'
<1>1. TokenRetired'
  BY DeletedStable DEF TokenInv, TokenRetired, TypeInv, BulkTyped
<1>2. ASSUME NEW q \in Proc PROVE TokenUsed(job[q])'
  <2>1. job'[q] = job[q] \/ job'[q] = j
    BY DEF TypeInv, TypeOK
  <2>2. JobTyped(job[q]) /\ TokenUsed(job[q])
    BY JobsTypedEach DEF TypeInv, TokenInv
  <2>3. CASE job'[q] = job[q]
    BY <2>2, <2>3, DeletedStable DEF TokenUsed, JobTyped
  <2>4. CASE job'[q] = j
    BY <2>4, DeletedStable DEF TokenUsed
  <2> QED
    BY <2>1, <2>3, <2>4
<1> QED
  BY <1>1, <1>2 DEF TokenInv

LEMMA TokenCommit ==
  ASSUME TypeInv, TokenInv, [Next]_vars, NEW p \in Proc, NEW o \in Op,
         CommitAdd(p, o) \/ CommitChange(p, o) \/ CommitRemove(p, o)
  PROVE  TokenInv'
<1> DEFINE t == job[p].tok
<1>1. JobTyped(job[p]) /\ TokenUsed(job[p]) /\ job[p].pc = "write"
  BY JobsTypedEach DEF TypeInv, TokenInv, CommitAdd, CommitChange, CommitRemove
<1>2. t \in Token /\ (job[p].holds \/ token[t].state = "deleted")
  BY <1>1 DEF JobTyped, TokenUsed
<1>3. token'[t].state = "deleted"
  <2>1. CASE token[t].state = "deleted"
    BY <1>2, <2>1, DeletedStable
  <2>2. CASE job[p].holds
    <3>1. token'[t] = Deleted(t)
      BY <1>2, <2>2 DEF CommitAdd, CommitChange, CommitRemove, Finish, TypeInv, TypeOK
    <3>2. token[t] \in TokenRow
      BY <1>2 DEF TypeInv, TypeOK
    <3> QED
      BY <3>1, <3>2 DEF Deleted, TokenRow
  <2> QED
    BY <1>2, <2>1, <2>2
<1>4. \A x \in Op : \/ x = o /\ bulk'[x].tok = t
                   \/ bulk'[x] = bulk[x]
  BY DEF CommitAdd, CommitChange, CommitRemove, Finish, TypeInv, TypeOK
<1>5. TokenRetired'
  BY <1>3, <1>4, DeletedStable DEF TokenInv, TokenRetired, TypeInv, BulkTyped
<1>6. ASSUME NEW q \in Proc PROVE TokenUsed(job[q])'
  <2>1. job'[q] = job[q] \/ job'[q] = Idle
    BY DEF CommitAdd, CommitChange, CommitRemove, Finish, TypeInv, TypeOK
  <2>2. JobTyped(job[q]) /\ TokenUsed(job[q])
    BY JobsTypedEach DEF TypeInv, TokenInv
  <2> QED
    BY <2>1, <2>2, DeletedStable DEF TokenUsed, JobTyped, Idle
<1> QED
  BY <1>5, <1>6 DEF TokenInv

LEMMA TokenStep == TypeInv /\ TokenInv /\ [Next]_vars => TokenInv'
<1> SUFFICES ASSUME TypeInv, TokenInv, [Next]_vars PROVE TokenInv'
  OBVIOUS
<1>1. \A p \in Proc : TokenUsed(job[p]) /\ JobTyped(job[p]) /\ job[p] \in Job
  BY JobsTypedEach DEF TokenInv, TypeInv, TypeOK
<1>2. CASE UNCHANGED vars
  BY <1>2 DEF vars, TokenInv, TokenRetired, TokenUsed
<1>3. ASSUME NEW p \in Proc, NEW u \in User, NEW S \in SUBSET Address,
             NEW op \in Request, NEW t \in Token, Preview(p, u, S, op, t)
      PROVE  TokenInv'
  BY <1>1, <1>3, TokenJobStep DEF Preview, JobTyped
<1>4. ASSUME NEW p \in Proc, Execute(p) PROVE TokenInv'
  <2>1. ASSUME NEW t \in Token, ReadToken(p, t) PROVE TokenInv'
    <3> DEFINE j == [job[p] EXCEPT !.pc = "token", !.tok = t]
    <3>1. j.pc = "token"
      BY <1>1 DEF Job
    <3> HIDE DEF j
    <3>2. TokenUsed(j)
      BY <3>1 DEF TokenUsed
    <3> QED
      BY <2>1, <3>1, <3>2, TokenJobStep DEF ReadToken, j
  <2>2. CASE ConsumeToken(p)
    <3> DEFINE j == [job[p] EXCEPT !.pc = "dispatch",
                       !.holds = (token[job[p].tok].state = "stored")]
    <3>1. j.tok = job[p].tok /\ j.holds = (token[job[p].tok].state = "stored")
      BY <1>1 DEF Job
    <3>2. job[p].tok \in Token /\ token[job[p].tok] \in TokenRow
          /\ token[job[p].tok].state # "unused"
      BY <1>1, <2>2 DEF ConsumeToken, JobTyped, TypeInv, TypeOK
    <3>3. job' = [job EXCEPT ![p] = j] /\ UNCHANGED bulk
      BY <2>2 DEF ConsumeToken
    <3> HIDE DEF j
    <3>4. TokenUsed(j)
      BY <3>1, <3>2 DEF TokenUsed, TokenRow
    <3> QED
      BY <3>1, <3>2, <3>3, <3>4, TokenJobStep
  <2>3. CASE RefuseRate(p)
    BY <2>3, TokenJobStep DEF RefuseRate, Idle, TokenUsed
  <2>4. ASSUME SelectLive(p) \/ SelectExisting(p) \/ LogRemoval(p) PROVE TokenInv'
    <3>1. PICK j : /\ job' = [job EXCEPT ![p] = j] /\ UNCHANGED bulk
                   /\ j.tok = job[p].tok /\ j.holds = job[p].holds
      <4> DEFINE P(j) == /\ job' = [job EXCEPT ![p] = j] /\ UNCHANGED bulk
                         /\ j.tok = job[p].tok /\ j.holds = job[p].holds
      <4> SUFFICES \E j : P(j)
        OBVIOUS
      <4>1. CASE SelectLive(p)
        <5> DEFINE j1 == [job[p] EXCEPT !.pc = "write",
                                        !.codes = token[job[p].tok].codes \cap live]
        <5>1. P(j1)
          BY <1>1, <4>1 DEF SelectLive, Job
        <5> QED
          BY <5>1
      <4>2. CASE SelectExisting(p)
        <5> DEFINE t == token[job[p].tok]
                   j2 == [job[p] EXCEPT
                     !.pc = IF t.kind = "change" THEN "write" ELSE "log",
                     !.codes = Present(t.codes),
                     !.seen = [a \in Address |->
                        IF a \in Present(t.codes) THEN offering[a].val ELSE None]]
        <5>1. P(j2)
          BY <1>1, <4>2 DEF SelectExisting, Job
        <5> QED
          BY <5>1
      <4>3. CASE LogRemoval(p)
        <5> DEFINE j3 == [job[p] EXCEPT !.pc = "write", !.logged = Present(job[p].codes)]
        <5>1. P(j3)
          BY <1>1, <4>3 DEF LogRemoval, Job
        <5> QED
          BY <5>1
      <4> QED
        BY <2>4, <4>1, <4>2, <4>3
    <3>2. job[p].pc \in {"dispatch", "log"}
      BY <2>4 DEF SelectLive, SelectExisting, LogRemoval
    <3>3. TokenUsed(j) /\ job[p].tok \in Token
      BY <1>1, <3>1, <3>2 DEF TokenUsed, JobTyped
    <3> QED
      BY <3>1, <3>3, TokenJobStep
  <2> QED
    BY <1>4, <2>1, <2>2, <2>3, <2>4, TokenCommit DEF Execute
<1>5. ASSUME NEW p \in Proc, Rollback(p) PROVE TokenInv'
  <2>1. ASSUME NEW u \in User, NEW o \in Op, BeginRollback(p, u, o) PROVE TokenInv'
    <3> DEFINE j == [job[p] EXCEPT !.pc = "rollback", !.op = o]
    <3>1. j.pc = "rollback"
      BY <1>1 DEF Job
    <3> HIDE DEF j
    <3>2. TokenUsed(j)
      BY <3>1 DEF TokenUsed
    <3> QED
      BY <2>1, <3>1, <3>2, TokenJobStep DEF BeginRollback, j
  <2>2. ASSUME RollbackAdd(p) \/ RollbackChange(p) \/ RollbackRemove(p)
        PROVE  TokenInv'
    <3>1. job' = [job EXCEPT ![p] = Idle] /\ bulk' = [bulk EXCEPT ![job[p].op].rolledBack = TRUE]
      BY <2>2 DEF RollbackAdd, RollbackChange, RollbackRemove, FinishRollback
    <3>2. \A o \in Op : bulk'[o].state = bulk[o].state /\ bulk'[o].tok = bulk[o].tok
      BY <3>1 DEF TypeInv, TypeOK, BulkRow
    <3> QED
      BY <3>1, <3>2, TokenJobStep DEF Idle, TokenUsed
  <2> QED
    BY <1>5, <2>1, <2>2 DEF Rollback
<1>6. ASSUME NEW p \in Proc, Fail(p) PROVE TokenInv'
  BY <1>6, TokenJobStep DEF Fail, Idle, TokenUsed
<1>7. ASSUME NEW p \in Proc, Edits(p) PROVE TokenInv'
  BY <1>7, DeletedStable DEF Edits, CreateOffering, UpdateOffering, DeleteOffering,
     Edited, TokenInv, TokenRetired, TokenUsed
<1>8. ASSUME NEW a \in Address, SyncAddress(a) PROVE TokenInv'
  BY <1>8, DeletedStable DEF SyncAddress, TokenInv, TokenRetired, TokenUsed
<1>9. ASSUME NEW t \in Token, Expire(t) PROVE TokenInv'
  <2>1. TokenRetired'
    BY <1>9, DeletedStable DEF Expire, TokenInv, TokenRetired, TypeInv, BulkTyped
  <2>2. ASSUME NEW q \in Proc PROVE TokenUsed(job[q])'
    BY <1>1, <1>9, DeletedStable DEF Expire, TokenUsed, JobTyped
  <2> QED
    BY <2>1, <2>2 DEF TokenInv
<1>10. ASSUME NEW o \in Op, Age(o) PROVE TokenInv'
  <2>1. \A x \in Op : bulk'[x].state = bulk[x].state /\ bulk'[x].tok = bulk[x].tok
    BY <1>10 DEF Age, TypeInv, TypeOK, BulkRow
  <2> QED
    BY <1>10, <2>1 DEF Age, TokenInv, TokenRetired, TokenUsed
<1> QED
  BY <1>2, <1>3, <1>4, <1>5, <1>6, <1>7, <1>8, <1>9, <1>10 DEF Next, Bulk, Environment

\* The token of an executed operation is gone for good, however the SELECT, the
\* DELETE and the COMMITs of the requests that share it interleave.
THEOREM TokenRetiredCorrect == Spec => []TokenRetired
<1>1. Init => TokenInv
  BY DEF Init, TokenInv, TokenRetired, TokenUsed, NoBulk, Idle
<1>2. TypeInv /\ TypeInv' /\ TokenInv /\ [Next]_vars => TokenInv'
  BY TokenStep
<1>3. TokenInv => TokenRetired
  BY DEF TokenInv
<1> QED
  BY <1>1, <1>2, <1>3, TypeInvariant, PTL DEF Spec

-----------------------------------------------------------------------------
(* How many pairs there are, for the limit counts an address once for each *)
(* operation that affected it.                                             *)

\* What each x counts for, kept apart: the pairs of x with the members of c[x].
Pairs(S, c) == UNION {{x} \X c[x] : x \in S}

LEMMA PairsMember ==
  ASSUME NEW S, NEW c
  PROVE  /\ \A x \in S : \A a \in c[x] : <<x, a>> \in Pairs(S, c)
         /\ \A y \in Pairs(S, c) : y[1] \in S /\ y[2] \in c[y[1]] /\ y = <<y[1], y[2]>>
BY DEF Pairs

\* With at most L members to each x they are at most L times as many.
LEMMA PairsBound ==
  ASSUME NEW S, IsFiniteSet(S), NEW c, NEW L \in Nat,
         \A x \in S : IsFiniteSet(c[x]) /\ Cardinality(c[x]) <= L
  PROVE  IsFiniteSet(Pairs(S, c)) /\ Cardinality(Pairs(S, c)) <= Cardinality(S) * L
<1> DEFINE num == [x \in S |-> CHOOSE f : f \in Injection(c[x], 1..L)]
           P == Pairs(S, c)
           f == [y \in P |-> <<y[1], num[y[1]][y[2]]>>]
<1>1. ASSUME NEW x \in S PROVE num[x] \in Injection(c[x], 1..L)
  <2> DEFINE n == Cardinality(c[x])
  <2>1. n \in Nat /\ n <= L /\ ExistsBijection(1..n, c[x])
    BY FS_CardinalityType
  <2>2. ExistsBijection(c[x], 1..n)
    BY <2>1, Fun_ExistsBijSymmetric
  <2>3. PICK g : g \in Bijection(c[x], 1..n)
    BY <2>2 DEF ExistsBijection
  <2> HIDE DEF n
  <2>4. g \in Injection(c[x], 1..L)
    BY <2>1, <2>3 DEF Bijection, Injection, IsInjective
  <2> QED
    BY <2>4
<1> HIDE DEF num
<1>2. \A y \in P : y[1] \in S /\ y[2] \in c[y[1]] /\ y = <<y[1], y[2]>>
  BY PairsMember
<1>3. \A x \in S : /\ \A a \in c[x] : num[x][a] \in 1..L
                   /\ \A a, b \in c[x] : num[x][a] = num[x][b] => a = b
  BY <1>1 DEF Injection, IsInjective
<1> HIDE DEF P
<1>4. f \in [P -> S \X (1..L)]
  BY <1>2, <1>3
<1>5. ASSUME NEW y \in P, NEW z \in P, f[y] = f[z] PROVE y = z
  <2>1. y[1] = z[1] /\ num[y[1]][y[2]] = num[z[1]][z[2]]
    BY <1>5
  <2>2. y[2] = z[2]
    BY <1>2, <1>3, <2>1
  <2> QED
    BY <1>2, <2>1, <2>2
<1>6. f \in Injection(P, S \X (1..L))
  BY <1>4, <1>5 DEF Injection, IsInjective
<1>7. IsFiniteSet(1..L) /\ Cardinality(1..L) = L
  BY FS_Interval
<1>8. IsFiniteSet(S \X (1..L)) /\ Cardinality(S \X (1..L)) = Cardinality(S) * L
  BY <1>7, FS_Product
<1> HIDE DEF f
<1> QED
  BY <1>6, <1>8, FS_Injection DEF P

LEMMA PairsMonotone ==
  ASSUME NEW S, NEW c, NEW d, \A x \in S : d[x] \subseteq c[x]
  PROVE  Pairs(S, d) \subseteq Pairs(S, c)
BY DEF Pairs

LEMMA PairsSingle ==
  ASSUME NEW x, NEW C, IsFiniteSet(C)
  PROVE  IsFiniteSet({x} \X C) /\ Cardinality({x} \X C) = Cardinality(C)
<1>1. IsFiniteSet({x}) /\ Cardinality({x}) = 1
  BY FS_Singleton
<1>2. Cardinality(C) \in Nat
  BY FS_CardinalityType
<1> QED
  BY <1>1, <1>2, FS_Product

\* One x counts for itself.
LEMMA PairsSplit ==
  ASSUME NEW S, NEW c, NEW x \in S, IsFiniteSet(Pairs(S \ {x}, c)), IsFiniteSet(c[x])
  PROVE  /\ IsFiniteSet(Pairs(S, c))
         /\ Cardinality(Pairs(S, c)) = Cardinality(Pairs(S \ {x}, c)) + Cardinality(c[x])
<1> DEFINE A == Pairs(S \ {x}, c)
           B == {x} \X c[x]
<1>1. Pairs(S, c) = A \cup B
  BY DEF Pairs
<1>2. A \cap B = {}
  BY DEF Pairs
<1>3. IsFiniteSet(B) /\ Cardinality(B) = Cardinality(c[x])
  BY PairsSingle
<1> HIDE DEF A, B
<1>4. /\ IsFiniteSet(A \cup B)
      /\ Cardinality(A \cup B) = Cardinality(A) + Cardinality(B) - Cardinality(A \cap B)
  BY <1>3, FS_Union DEF A
<1>5. Cardinality(A \cap B) = 0
  BY <1>2, FS_EmptySet
<1>6. Cardinality(A) \in Nat /\ Cardinality(B) \in Nat
  BY <1>3, FS_CardinalityType DEF A
<1> QED
  BY <1>1, <1>3, <1>4, <1>5, <1>6 DEF A

-----------------------------------------------------------------------------
(* The rate limit as arithmetic: charged[o] is what an operation of the    *)
(* last minute counts for, pending[p] what a request past the check may    *)
(* still add.                                                              *)

WithinLimit(charged, pending) ==
  /\ IsFiniteSet(Pairs(Op, charged))
  /\ Cardinality(Pairs(Op, charged)) + Cardinality(Pairs(Proc, pending))
       <= Cardinality(Proc) * RateLimit
  /\ \A p \in Proc : pending[p] \subseteq Address /\ Cardinality(pending[p]) <= RateLimit

LEMMA CodesFinite ==
  ASSUME NEW S \in SUBSET Address
  PROVE  IsFiniteSet(S) /\ Cardinality(S) \in Nat
BY FiniteAssumption, FS_Subset, FS_CardinalityType

LEMMA PendingFinite ==
  ASSUME NEW S \in SUBSET Proc, NEW pending,
         \A p \in S : pending[p] \subseteq Address /\ Cardinality(pending[p]) <= RateLimit
  PROVE  /\ IsFiniteSet(S) /\ Cardinality(S) \in Nat
         /\ IsFiniteSet(Pairs(S, pending)) /\ Cardinality(Pairs(S, pending)) \in Nat
         /\ Cardinality(Pairs(S, pending)) <= Cardinality(S) * RateLimit
<1>1. IsFiniteSet(S) /\ Cardinality(S) \in Nat
  BY FiniteAssumption, FS_Subset, FS_CardinalityType
<1>2. \A p \in S : IsFiniteSet(pending[p]) /\ Cardinality(pending[p]) <= RateLimit
  BY CodesFinite
<1>3. /\ IsFiniteSet(Pairs(S, pending))
      /\ Cardinality(Pairs(S, pending)) <= Cardinality(S) * RateLimit
  BY <1>1, <1>2, PairsBound, LimitAssumption
<1> QED
  BY <1>1, <1>3, FS_CardinalityType

\* Operations grow old or are rolled back, requests end.
LEMMA LimitShrinks ==
  ASSUME NEW charged, NEW pending, WithinLimit(charged, pending),
         NEW charged2, NEW pending2,
         \A o \in Op : charged2[o] \subseteq charged[o],
         \A p \in Proc : pending2[p] \subseteq pending[p]
  PROVE  WithinLimit(charged2, pending2)
<1>1. Pairs(Op, charged2) \subseteq Pairs(Op, charged)
  BY PairsMonotone
<1>2. /\ IsFiniteSet(Pairs(Op, charged2))
      /\ Cardinality(Pairs(Op, charged2)) <= Cardinality(Pairs(Op, charged))
  BY <1>1, FS_Subset DEF WithinLimit
<1>3. Pairs(Proc, pending2) \subseteq Pairs(Proc, pending)
  BY PairsMonotone
<1>4. /\ IsFiniteSet(Pairs(Proc, pending)) /\ Cardinality(Pairs(Proc, pending)) \in Nat
      /\ Cardinality(Proc) \in Nat
  BY PendingFinite DEF WithinLimit
<1>5. /\ IsFiniteSet(Pairs(Proc, pending2))
      /\ Cardinality(Pairs(Proc, pending2)) <= Cardinality(Pairs(Proc, pending))
  BY <1>3, <1>4, FS_Subset
<1>6. ASSUME NEW p \in Proc
      PROVE  pending2[p] \subseteq Address /\ Cardinality(pending2[p]) <= RateLimit
  <2>1. IsFiniteSet(pending[p]) /\ Cardinality(pending[p]) \in Nat
        /\ Cardinality(pending[p]) <= RateLimit /\ pending[p] \subseteq Address
    BY CodesFinite DEF WithinLimit
  <2>2. Cardinality(pending2[p]) <= Cardinality(pending[p])
    BY <2>1, FS_Subset
  <2>3. Cardinality(pending2[p]) \in Nat /\ pending2[p] \subseteq Address
    BY <2>1, CodesFinite
  <2> QED
    BY <2>1, <2>2, <2>3, LimitAssumption
<1>7. /\ Cardinality(Pairs(Op, charged)) \in Nat /\ Cardinality(Pairs(Op, charged2)) \in Nat
      /\ Cardinality(Pairs(Proc, pending2)) \in Nat /\ Cardinality(Proc) * RateLimit \in Nat
  BY <1>2, <1>4, <1>5, FS_CardinalityType, LimitAssumption DEF WithinLimit
<1> QED
  BY <1>2, <1>4, <1>5, <1>6, <1>7 DEF WithinLimit

\* A request passes the check: what is charged and what it adds are within the limit,
\* and each of the other requests adds at most the limit.
LEMMA LimitChecked ==
  ASSUME NEW charged, NEW pending, WithinLimit(charged, pending),
         NEW p \in Proc, NEW C \in SUBSET Address, NEW pending2,
         Cardinality(Pairs(Op, charged)) + Cardinality(C) <= RateLimit,
         \A q \in Proc : pending2[q] = IF q = p THEN C ELSE pending[q]
  PROVE  WithinLimit(charged, pending2)
<1> DEFINE others == Proc \ {p}
           n == Cardinality(Pairs(Op, charged))
           m == Cardinality(Pairs(others, pending2))
           c == Cardinality(C)
<1>1. IsFiniteSet(C) /\ c \in Nat /\ n \in Nat
  BY CodesFinite, FS_CardinalityType DEF WithinLimit
<1>2. c <= RateLimit
  BY <1>1, LimitAssumption
<1>3. \A q \in Proc : pending2[q] \subseteq Address /\ Cardinality(pending2[q]) <= RateLimit
  BY <1>2 DEF WithinLimit
<1>4. /\ IsFiniteSet(Pairs(others, pending2)) /\ m \in Nat
      /\ m <= Cardinality(others) * RateLimit
  BY <1>3, PendingFinite
<1>5. /\ Cardinality(Proc) \in Nat /\ Cardinality(Proc) - 1 \in Nat
      /\ Cardinality(others) = Cardinality(Proc) - 1
  <2>1. IsFiniteSet(Proc) /\ Cardinality(Proc) \in Nat
    BY FiniteAssumption, FS_CardinalityType
  <2>2. IsFiniteSet(others) /\ Cardinality(others) = Cardinality(Proc) - 1
    BY <2>1, FS_RemoveElement
  <2>3. Cardinality(others) \in Nat
    BY <2>2, FS_CardinalityType
  <2> QED
    BY <2>1, <2>2, <2>3
<1>6. Cardinality(Pairs(Proc, pending2)) = m + c
  <2>1. pending2[p] = C
    OBVIOUS
  <2> QED
    BY <1>1, <1>4, <2>1, PairsSplit
<1>7. n + c <= RateLimit /\ RateLimit \in Nat
  BY LimitAssumption
<1> HIDE DEF others, n, m, c
<1>8. (Cardinality(Proc) - 1) * RateLimit + RateLimit = Cardinality(Proc) * RateLimit
  BY <1>5, <1>7
<1>9. (Cardinality(Proc) - 1) * RateLimit \in Nat
  BY <1>5, <1>7
<1>10. n + (m + c) <= Cardinality(Proc) * RateLimit
  BY <1>1, <1>4, <1>5, <1>7, <1>8, <1>9
<1> QED
  BY <1>3, <1>6, <1>10 DEF WithinLimit, n

\* A request commits: what it affects is charged, and it adds no more.
LEMMA LimitCommits ==
  ASSUME NEW charged, NEW pending, WithinLimit(charged, pending),
         NEW p \in Proc, NEW o \in Op, charged[o] = {}, NEW C, C \subseteq pending[p],
         NEW charged2, NEW pending2,
         \A x \in Op : charged2[x] = IF x = o THEN C ELSE charged[x],
         \A q \in Proc : pending2[q] = IF q = p THEN {} ELSE pending[q]
  PROVE  WithinLimit(charged2, pending2)
<1> DEFINE n == Cardinality(Pairs(Op, charged))
           n2 == Cardinality(Pairs(Op, charged2))
           m == Cardinality(Pairs(Proc, pending))
           m2 == Cardinality(Pairs(Proc, pending2))
<1>1. /\ pending[p] \subseteq Address /\ IsFiniteSet(pending[p]) /\ IsFiniteSet(C)
      /\ Cardinality(pending[p]) \in Nat /\ Cardinality(C) \in Nat
      /\ Cardinality(C) <= Cardinality(pending[p])
  <2>1. pending[p] \subseteq Address
    BY DEF WithinLimit
  <2> QED
    BY <2>1, CodesFinite, FS_Subset
<1>2. n \in Nat /\ IsFiniteSet(Pairs(Op, charged2)) /\ n2 = n + Cardinality(C)
  <2>1. Pairs(Op \ {o}, charged2) = Pairs(Op, charged)
    BY DEF Pairs
  <2>2. IsFiniteSet(Pairs(Op \ {o}, charged2)) /\ charged2[o] = C
    BY <2>1 DEF WithinLimit
  <2>3. n \in Nat
    BY FS_CardinalityType DEF WithinLimit
  <2>4. /\ IsFiniteSet(Pairs(Op, charged2))
        /\ n2 = Cardinality(Pairs(Op \ {o}, charged2)) + Cardinality(charged2[o])
    BY <1>1, <2>2, PairsSplit
  <2> QED
    BY <2>1, <2>2, <2>3, <2>4
<1>3. m2 \in Nat /\ m = m2 + Cardinality(pending[p])
  <2>1. Pairs(Proc \ {p}, pending) = Pairs(Proc, pending2)
    BY DEF Pairs
  <2>2. IsFiniteSet(Pairs(Proc \ {p}, pending)) /\ Cardinality(Pairs(Proc \ {p}, pending)) \in Nat
    BY PendingFinite DEF WithinLimit
  <2> QED
    BY <1>1, <2>1, <2>2, PairsSplit
<1>4. n + m <= Cardinality(Proc) * RateLimit
  BY DEF WithinLimit
<1>5. Cardinality(Proc) * RateLimit \in Nat
  BY FiniteAssumption, LimitAssumption, FS_CardinalityType
<1> DEFINE bound == Cardinality(Proc) * RateLimit
<1>6. n2 + m2 <= bound
  <2> HIDE DEF n, n2, m, m2, bound
  <2> QED
    BY <1>1, <1>2, <1>3, <1>4, <1>5 DEF bound
<1>7. ASSUME NEW q \in Proc
      PROVE  pending2[q] \subseteq Address /\ Cardinality(pending2[q]) <= RateLimit
  BY FS_EmptySet, LimitAssumption DEF WithinLimit
<1> QED
  BY <1>2, <1>6, <1>7 DEF WithinLimit

-----------------------------------------------------------------------------
(* What a step does to a request, an operation and a token. *)

Checked == {"dispatch", "log", "write"}

LEMMA RequestStep ==
  ASSUME TypeInv, [Next]_vars, NEW q \in Proc
  PROVE  \/ job'[q] \in {job[q], Idle} \/ job'[q].pc = "rollback"
         \/ \E t \in Token : ReadToken(q, t)
         \/ ConsumeToken(q)
         \/ /\ job[q].pc \in Checked /\ job'[q].pc \in Checked /\ job'[q].tok = job[q].tok
            /\ \/ job[q].pc = "log" /\ job'[q].codes = job[q].codes
               \/ job'[q].codes \subseteq token[job[q].tok].codes
<1>0. job \in [Proc -> Job] /\ job[q] \in Job
  BY DEF TypeInv, TypeOK
<1>1. ASSUME NEW p \in Proc, NEW o \in Op,
             CommitAdd(p, o) \/ CommitChange(p, o) \/ CommitRemove(p, o)
      PROVE  job'[q] \in {job[q], Idle}
  BY <1>0, <1>1 DEF CommitAdd, CommitChange, CommitRemove, Finish
<1>2. ASSUME NEW p \in Proc,
             \/ RollbackAdd(p) \/ RollbackChange(p) \/ RollbackRemove(p)
             \/ RefuseRate(p) \/ Fail(p)
      PROVE  job'[q] \in {job[q], Idle}
  BY <1>0, <1>2 DEF RollbackAdd, RollbackChange, RollbackRemove, FinishRollback, RefuseRate,
     Fail
<1>3. ASSUME NEW p \in Proc,
             \/ Edits(p)
             \/ \E u \in User, S \in SUBSET Address, op \in Request, t \in Token :
                  Preview(p, u, S, op, t)
      PROVE  job'[q] = job[q]
  BY <1>3 DEF Edits, CreateOffering, UpdateOffering, DeleteOffering, Edited, Preview
<1>4. ASSUME Environment PROVE job'[q] = job[q]
  BY <1>4 DEF Environment, SyncAddress, Expire, Age
<1>5. ASSUME NEW p \in Proc, NEW u \in User, NEW o \in Op, BeginRollback(p, u, o)
      PROVE  job'[q] = job[q] \/ job'[q].pc = "rollback"
  BY <1>0, <1>5 DEF BeginRollback, Job
<1>6. ASSUME NEW p \in Proc, SelectLive(p)
      PROVE  \/ job'[q] = job[q]
             \/ /\ job[q].pc \in Checked /\ job'[q].pc \in Checked /\ job'[q].tok = job[q].tok
                /\ job'[q].codes \subseteq token[job[q].tok].codes
  BY <1>0, <1>6 DEF SelectLive, Job, Checked
<1>7. ASSUME NEW p \in Proc, SelectExisting(p)
      PROVE  \/ job'[q] = job[q]
             \/ /\ job[q].pc \in Checked /\ job'[q].pc \in Checked /\ job'[q].tok = job[q].tok
                /\ job'[q].codes \subseteq token[job[q].tok].codes
  BY <1>0, <1>7 DEF SelectExisting, Job, Checked, Present
<1>8. ASSUME NEW p \in Proc, LogRemoval(p)
      PROVE  \/ job'[q] = job[q]
             \/ /\ job[q].pc \in Checked /\ job'[q].pc \in Checked /\ job'[q].tok = job[q].tok
                /\ job[q].pc = "log" /\ job'[q].codes = job[q].codes
  BY <1>0, <1>8 DEF LogRemoval, Job, Checked
<1>9. ASSUME NEW p \in Proc, NEW t \in Token, ReadToken(p, t)
      PROVE  job'[q] = job[q] \/ ReadToken(q, t)
  BY <1>0, <1>9 DEF ReadToken
<1>10. ASSUME NEW p \in Proc, ConsumeToken(p)
       PROVE  job'[q] = job[q] \/ ConsumeToken(q)
  BY <1>0, <1>10 DEF ConsumeToken
<1>11. CASE UNCHANGED vars
  BY <1>11 DEF vars
<1> QED
  BY <1>1, <1>2, <1>3, <1>4, <1>5, <1>6, <1>7, <1>8, <1>9, <1>10, <1>11
  DEF Next, Bulk, Execute, Rollback

Commits(p, o) == CommitAdd(p, o) \/ CommitChange(p, o) \/ CommitRemove(p, o)

\* An operation is committed once; then it grows old or is rolled back.
LEMMA OperationStep ==
  ASSUME TypeInv, [Next]_vars, NEW o \in Op
  PROVE  \/ \E p \in Proc : Commits(p, o)
         \/ /\ bulk'[o].state = bulk[o].state /\ bulk'[o].tok = bulk[o].tok
            /\ bulk'[o].user = bulk[o].user /\ bulk'[o].codes = bulk[o].codes
            /\ bulk'[o].age = "minute" => bulk[o].age = "minute"
            /\ bulk[o].rolledBack => bulk'[o].rolledBack
<1> DEFINE Older == /\ bulk'[o].state = bulk[o].state /\ bulk'[o].tok = bulk[o].tok
                    /\ bulk'[o].user = bulk[o].user /\ bulk'[o].codes = bulk[o].codes
                    /\ bulk'[o].age = "minute" => bulk[o].age = "minute"
                    /\ bulk[o].rolledBack => bulk'[o].rolledBack
<1>0. bulk \in [Op -> BulkRow] /\ bulk[o] \in BulkRow
  BY DEF TypeInv, TypeOK
<1>1. bulk'[o] = bulk[o] => Older
  OBVIOUS
<1>2. ASSUME NEW p \in Proc, NEW x \in Op, Commits(p, x)
      PROVE  Commits(p, o) \/ bulk'[o] = bulk[o]
  BY <1>0, <1>2 DEF Commits, CommitAdd, CommitChange, CommitRemove, Finish
<1>3. ASSUME NEW p \in Proc, RollbackAdd(p) \/ RollbackChange(p) \/ RollbackRemove(p)
      PROVE  Older
  <2>1. bulk'[o] = bulk[o] \/ bulk'[o] = [bulk[o] EXCEPT !.rolledBack = TRUE]
    BY <1>0, <1>3 DEF RollbackAdd, RollbackChange, RollbackRemove, FinishRollback
  <2> QED
    BY <1>0, <2>1 DEF BulkRow
<1>4. ASSUME NEW x \in Op, Age(x) PROVE Older
  <2>1. \/ bulk'[o] = bulk[o]
        \/ bulk'[o] = [bulk[o] EXCEPT !.age = "window"]
        \/ bulk'[o] = [bulk[o] EXCEPT !.age = "expired"]
    BY <1>0, <1>4 DEF Age
  <2> QED
    BY <1>0, <2>1 DEF BulkRow, AgeClass
<1> HIDE DEF Older
<1>5. ASSUME NEW p \in Proc,
             \/ \E u \in User, S \in SUBSET Address, op \in Request, t \in Token :
                  Preview(p, u, S, op, t)
             \/ \E t \in Token : ReadToken(p, t)
             \/ ConsumeToken(p) \/ RefuseRate(p) \/ Fail(p)
             \/ SelectLive(p) \/ SelectExisting(p) \/ LogRemoval(p)
             \/ \E u \in User, x \in Op : BeginRollback(p, u, x)
             \/ Edits(p)
      PROVE  bulk' = bulk
  BY <1>5 DEF Preview, ReadToken, ConsumeToken, RefuseRate, Fail, SelectLive, SelectExisting,
     LogRemoval, BeginRollback, Edits, CreateOffering, UpdateOffering, DeleteOffering, Edited
<1>6. ASSUME (\E a \in Address : SyncAddress(a)) \/ (\E t \in Token : Expire(t))
      PROVE  bulk' = bulk
  BY <1>6 DEF SyncAddress, Expire
<1> QED
  BY <1>1, <1>2, <1>3, <1>4, <1>5, <1>6
  DEF Next, Bulk, Execute, Rollback, Environment, vars, Older, Commits

\* What a token holds is fixed once it is handed out.
LEMMA TokenFixed ==
  ASSUME TypeInv, [Next]_vars, NEW t \in Token, token[t].state # "unused"
  PROVE  token'[t].user = token[t].user /\ token'[t].codes = token[t].codes
<1>1. token \in [Token -> TokenRow] /\ token[t] \in TokenRow
  BY DEF TypeInv, TypeOK
<1>2. Deleted(t).user = token[t].user /\ Deleted(t).codes = token[t].codes
  BY <1>1 DEF Deleted, TokenRow
<1>3. ASSUME NEW p \in Proc, NEW u \in User, NEW S \in SUBSET Address,
             NEW op \in Request, NEW x \in Token, Preview(p, u, S, op, x)
      PROVE  token'[t] \in {token[t], Deleted(t)}
  BY <1>3 DEF Preview
<1>4. ASSUME NEW x \in Token, Expire(x)
      PROVE  token'[t].user = token[t].user /\ token'[t].codes = token[t].codes
  BY <1>1, <1>4 DEF Expire, TokenRow
<1>5. ASSUME NEW p \in Proc, NEW o \in Op, Commits(p, o)
      PROVE  token'[t] \in {token[t], Deleted(t)}
  BY <1>1, <1>5 DEF Commits, CommitAdd, CommitChange, CommitRemove, Finish
<1>6. ASSUME NEW p \in Proc,
             \/ \E x \in Token : ReadToken(p, x)
             \/ ConsumeToken(p) \/ RefuseRate(p) \/ Fail(p)
             \/ SelectLive(p) \/ SelectExisting(p) \/ LogRemoval(p)
             \/ \E u \in User, o \in Op : BeginRollback(p, u, o)
             \/ RollbackAdd(p) \/ RollbackChange(p) \/ RollbackRemove(p)
             \/ Edits(p)
      PROVE  token' = token
  BY <1>6 DEF ReadToken, ConsumeToken, RefuseRate, Fail, SelectLive, SelectExisting,
     LogRemoval, BeginRollback, RollbackAdd, RollbackChange, RollbackRemove,
     FinishRollback, Edits, CreateOffering, UpdateOffering, DeleteOffering, Edited
<1>7. ASSUME (\E a \in Address : SyncAddress(a)) \/ (\E o \in Op : Age(o))
      PROVE  token' = token
  BY <1>7 DEF SyncAddress, Age
<1> QED
  BY <1>2, <1>3, <1>4, <1>5, <1>6, <1>7
  DEF Next, Bulk, Execute, Rollback, Environment, vars, Commits

LEMMA CommitOutcome ==
  ASSUME TypeInv, NEW p \in Proc, NEW o \in Op, Commits(p, o)
  PROVE  /\ bulk[o].state = "unused" /\ job[p].pc = "write"
         /\ bulk'[o].state = "done" /\ bulk'[o].tok = job[p].tok
         /\ bulk'[o].user = token[job[p].tok].user
         /\ bulk'[o].codes \subseteq job[p].codes
         /\ \A x \in Op : x # o => bulk'[x] = bulk[x]
         /\ job'[p] = Idle /\ \A q \in Proc : q # p => job'[q] = job[q]
<1> DEFINE t == job[p].tok
           b(codes) == [state |-> "done", user |-> token[t].user, kind |-> token[t].kind,
                        tok |-> t, codes |-> codes, old |-> job[p].seen,
                        age |-> "minute", rolledBack |-> FALSE]
<1>1. job \in [Proc -> Job] /\ bulk \in [Op -> BulkRow]
  BY DEF TypeInv, TypeOK
<1>2. PICK codes, wrote, entries : /\ Finish(p, o, codes, wrote, entries)
                                   /\ codes \subseteq job[p].codes /\ job[p].pc = "write"
  BY DEF Commits, CommitAdd, CommitChange, CommitRemove, Present
<1>3. bulk[o].state = "unused" /\ bulk' = [bulk EXCEPT ![o] = b(codes)]
      /\ job' = [job EXCEPT ![p] = Idle]
  BY <1>2 DEF Finish
<1>4. b(codes).state = "done" /\ b(codes).tok = t /\ b(codes).user = token[t].user
      /\ b(codes).codes = codes
  OBVIOUS
<1> HIDE DEF b
<1> QED
  BY <1>1, <1>2, <1>3, <1>4

-----------------------------------------------------------------------------
(* The rate limit of an editor. *)

ChargedBy(b, u) ==
  IF b.state = "done" /\ b.user = u /\ b.age = "minute" /\ ~ b.rolledBack
  THEN b.codes ELSE {}

PendingBy(j, tokens, u) ==
  IF j.pc \in Checked /\ tokens[j.tok].user = u THEN tokens[j.tok].codes ELSE {}

\* What a request has read are addresses its token names.
WithinToken(j, tokens) ==
  j.pc \in {"log", "write"} => j.codes \subseteq tokens[j.tok].codes

Charged(u) == [o \in Op |-> ChargedBy(bulk[o], u)]
Pending(u) == [p \in Proc |-> PendingBy(job[p], token, u)]

LimitInv ==
  /\ \A u \in Editor : WithinLimit(Charged(u), Pending(u))
  /\ \A p \in Proc : WithinToken(job[p], token)

LEMMA RecentCharged ==
  ASSUME NEW u
  PROVE  RecentModified(u) = Cardinality(Pairs(Op, Charged(u)))
<1> DEFINE A == UNION {{o} \X bulk[o].codes : o \in Recent(u)}
           B == Pairs(Op, Charged(u))
<1>1. \A o \in Recent(u) : o \in Op /\ Charged(u)[o] = bulk[o].codes
  BY DEF Recent, Charged, ChargedBy
<1>2. \A o \in Op : o \notin Recent(u) => Charged(u)[o] = {}
  BY DEF Recent, Charged, ChargedBy
<1>3. A = B
  <2>1. A \subseteq B
    BY <1>1 DEF Pairs
  <2>2. B \subseteq A
    BY <1>1, <1>2 DEF Pairs
  <2> QED
    BY <2>1, <2>2
<1> QED
  BY <1>3 DEF RecentModified

LEMMA LimitInit == Init => LimitInv
<1> SUFFICES ASSUME Init PROVE LimitInv
  OBVIOUS
<1>1. ASSUME NEW p \in Proc
      PROVE  WithinToken(job[p], token) /\ \A u \in Editor : Pending(u)[p] = {}
  BY DEF Init, Idle, WithinToken, Pending, PendingBy, Checked
<1>2. ASSUME NEW u \in Editor PROVE WithinLimit(Charged(u), Pending(u))
  <2>1. \A o \in Op : Charged(u)[o] = {}
    BY DEF Init, NoBulk, Charged, ChargedBy
  <2>2. Pairs(Op, Charged(u)) = {} /\ Pairs(Proc, Pending(u)) = {}
    BY <1>1, <2>1 DEF Pairs
  <2>3. Cardinality(Proc) * RateLimit \in Nat /\ RateLimit \in Nat
    BY FiniteAssumption, LimitAssumption, FS_CardinalityType
  <2>4. IsFiniteSet({}) /\ Cardinality({}) = 0
    BY FS_EmptySet
  <2> DEFINE bound == Cardinality(Proc) * RateLimit
  <2> HIDE DEF bound
  <2>5. 0 + 0 <= bound
    BY <2>3 DEF bound
  <2>6. \A p \in Proc : Pending(u)[p] \subseteq Address
                        /\ Cardinality(Pending(u)[p]) <= RateLimit
    <3>1. \A p \in Proc : Pending(u)[p] = {}
      BY <1>1
    <3>2. 0 <= RateLimit
      BY LimitAssumption
    <3> HIDE DEF Pending
    <3> QED
      BY <2>4, <3>1, <3>2
  <2>7. Cardinality(Pairs(Op, Charged(u))) + Cardinality(Pairs(Proc, Pending(u))) <= bound
    BY <2>2, <2>4, <2>5
  <2> QED
    BY <2>2, <2>4, <2>6, <2>7 DEF WithinLimit, bound
<1> QED
  BY <1>1, <1>2 DEF LimitInv

\* A request that is past the check and goes on adds what it added before.
LEMMA PendingKept ==
  ASSUME TypeInv, [Next]_vars, NEW q \in Proc, NEW u,
         job'[q].pc \in Checked => job[q].pc \in Checked /\ job'[q].tok = job[q].tok
  PROVE  PendingBy(job'[q], token', u) \subseteq PendingBy(job[q], token, u)
<1>1. job'[q].pc \in Checked => job[q].tok \in Token /\ token[job[q].tok].state # "unused"
  BY JobsTypedEach DEF TypeInv, JobTyped, Checked
<1> QED
  BY <1>1, TokenFixed DEF PendingBy

LEMMA ChargedKept ==
  ASSUME TypeInv, [Next]_vars, NEW o \in Op, NEW u, \A p \in Proc : ~ Commits(p, o)
  PROVE  ChargedBy(bulk'[o], u) \subseteq ChargedBy(bulk[o], u)
<1>1. bulk[o] \in BulkRow /\ bulk'[o].state = bulk[o].state /\ bulk'[o].user = bulk[o].user
      /\ bulk'[o].codes = bulk[o].codes
      /\ (bulk'[o].age = "minute" => bulk[o].age = "minute")
      /\ (bulk[o].rolledBack => bulk'[o].rolledBack)
  BY OperationStep DEF TypeInv, TypeOK
<1> QED
  BY <1>1 DEF ChargedBy

LEMMA WithinTokenStep ==
  ASSUME TypeInv, LimitInv, [Next]_vars, NEW q \in Proc
  PROVE  WithinToken(job'[q], token')
<1>0. job[q] \in Job /\ JobTyped(job[q]) /\ WithinToken(job[q], token)
  BY JobsTypedEach DEF TypeInv, TypeOK, LimitInv
<1>1. job[q].pc \in Checked =>
        job[q].tok \in Token /\ token'[job[q].tok].codes = token[job[q].tok].codes
  BY <1>0, TokenFixed DEF JobTyped, Checked
<1>2. ASSUME NEW t \in Token, ReadToken(q, t) PROVE WithinToken(job'[q], token')
  BY <1>0, <1>2 DEF ReadToken, TypeInv, TypeOK, Job, WithinToken
<1>3. ASSUME ConsumeToken(q) PROVE WithinToken(job'[q], token')
  BY <1>0, <1>3 DEF ConsumeToken, TypeInv, TypeOK, Job, WithinToken
<1>4. CASE job'[q] \in {job[q], Idle} \/ job'[q].pc = "rollback"
  BY <1>0, <1>1, <1>4 DEF WithinToken, Idle, Checked
<1>5. CASE /\ job[q].pc \in Checked /\ job'[q].pc \in Checked /\ job'[q].tok = job[q].tok
           /\ \/ job[q].pc = "log" /\ job'[q].codes = job[q].codes
              \/ job'[q].codes \subseteq token[job[q].tok].codes
  BY <1>0, <1>1, <1>5 DEF WithinToken
<1> QED
  BY <1>2, <1>3, <1>4, <1>5, RequestStep

LEMMA LimitConsume ==
  ASSUME TypeInv, LimitInv, [Next]_vars, NEW p \in Proc, ConsumeToken(p), NEW u \in Editor
  PROVE  WithinLimit(Charged(u)', Pending(u)')
<1> DEFINE t == job[p].tok
<1>0. /\ job[p] \in Job /\ job \in [Proc -> Job] /\ t \in Token /\ token[t] \in TokenRow
      /\ UNCHANGED <<token, bulk>>
      /\ \A q \in Proc : q # p => job'[q] = job[q]
      /\ job'[p].pc = "dispatch" /\ job'[p].tok = t /\ job[p].pc = "token"
      /\ ~ OverLimit(t)
  BY JobsTypedEach DEF TypeInv, TypeOK, JobTyped, ConsumeToken, Job
<1>1. Charged(u)' = Charged(u)
  BY <1>0 DEF Charged
<1>2. /\ \A q \in Proc : q # p => Pending(u)'[q] = Pending(u)[q]
      /\ Pending(u)'[p] = IF token[t].user = u THEN token[t].codes ELSE {}
  BY <1>0 DEF Pending, PendingBy, Checked
<1>3. CASE token[t].user = u
  <2>1. RecentModified(u) + Cardinality(token[t].codes) <= RateLimit
    <3>1. /\ RecentModified(u) \in Nat /\ Cardinality(token[t].codes) \in Nat
      BY <1>0, RecentCharged, CodesFinite, FS_CardinalityType DEF LimitInv, WithinLimit, TokenRow
    <3> QED
      BY <1>0, <1>3, <3>1, LimitAssumption DEF OverLimit
  <2>2. Cardinality(Pairs(Op, Charged(u))) + Cardinality(token[t].codes) <= RateLimit
    BY <2>1, RecentCharged
  <2>3. token[t].codes \in SUBSET Address
    BY <1>0 DEF TokenRow
  <2>4. \A q \in Proc : Pending(u)'[q] = IF q = p THEN token[t].codes ELSE Pending(u)[q]
    BY <1>2, <1>3
  <2>5. WithinLimit(Charged(u), Pending(u))
    BY DEF LimitInv
  <2>6. WithinLimit(Charged(u), Pending(u)')
    BY <2>2, <2>3, <2>4, <2>5, LimitChecked
  <2> QED
    BY <1>1, <2>6
<1>4. CASE token[t].user # u
  <2>1. \A q \in Proc : Pending(u)'[q] \subseteq Pending(u)[q]
    BY <1>2, <1>4
  <2>2. WithinLimit(Charged(u), Pending(u)')
    BY <2>1, LimitShrinks DEF LimitInv
  <2> QED
    BY <1>1, <2>2
<1> QED
  BY <1>3, <1>4

LEMMA LimitCommit ==
  ASSUME TypeInv, LimitInv, [Next]_vars, NEW p \in Proc, NEW o \in Op, Commits(p, o),
         NEW u \in Editor
  PROVE  WithinLimit(Charged(u)', Pending(u)')
<1> DEFINE t == job[p].tok
<1>1. /\ bulk[o].state = "unused" /\ job[p].pc = "write"
      /\ bulk'[o].user = token[t].user /\ bulk'[o].codes \subseteq job[p].codes
      /\ \A x \in Op : x # o => bulk'[x] = bulk[x]
      /\ job'[p] = Idle /\ \A q \in Proc : q # p => job'[q] = job[q]
  BY CommitOutcome
<1>2. job[p].codes \subseteq token[t].codes
  BY <1>1 DEF LimitInv, WithinToken
<1>3. Charged(u)[o] = {} /\ \A x \in Op : x # o => Charged(u)'[x] = Charged(u)[x]
  BY <1>1 DEF Charged, ChargedBy
<1>4. Charged(u)'[o] \subseteq Pending(u)[p]
  BY <1>1, <1>2 DEF Charged, ChargedBy, Pending, PendingBy, Checked
<1>5. Pending(u)'[p] = {}
  BY <1>1 DEF Pending, PendingBy, Idle, Checked
<1>6. ASSUME NEW q \in Proc, q # p PROVE Pending(u)'[q] \subseteq Pending(u)[q]
  BY <1>1, <1>6, PendingKept DEF Pending
<1> DEFINE C == Charged(u)'[o]
           charged == [x \in Op |-> IF x = o THEN C ELSE Charged(u)[x]]
           pending == [q \in Proc |-> IF q = p THEN {} ELSE Pending(u)[q]]
<1>7. WithinLimit(charged, pending)
  <2> HIDE DEF C
  <2>1. C \subseteq Pending(u)[p]
    BY <1>4 DEF C
  <2>2. WithinLimit(Charged(u), Pending(u))
    BY DEF LimitInv
  <2>3. \A x \in Op : charged[x] = IF x = o THEN C ELSE Charged(u)[x]
    OBVIOUS
  <2>4. \A q \in Proc : pending[q] = IF q = p THEN {} ELSE Pending(u)[q]
    OBVIOUS
  <2> HIDE DEF charged, pending
  <2> QED
    BY <1>3, <2>1, <2>2, <2>3, <2>4, LimitCommits
<1>8. \A x \in Op : Charged(u)'[x] \subseteq charged[x]
  BY <1>3
<1>9. \A q \in Proc : Pending(u)'[q] \subseteq pending[q]
  BY <1>5, <1>6
<1> HIDE DEF charged, pending
<1> QED
  BY <1>7, <1>8, <1>9, LimitShrinks

LEMMA LimitStep == TypeInv /\ LimitInv /\ [Next]_vars => LimitInv'
<1> SUFFICES ASSUME TypeInv, LimitInv, [Next]_vars PROVE LimitInv'
  OBVIOUS
<1>1. \A p \in Proc : WithinToken(job'[p], token')
  BY WithinTokenStep
<1>2. ASSUME NEW u \in Editor PROVE WithinLimit(Charged(u)', Pending(u)')
  <2>1. CASE \E p \in Proc, o \in Op : Commits(p, o)
    BY <2>1, LimitCommit
  <2>2. CASE \E p \in Proc : ConsumeToken(p)
    BY <2>2, LimitConsume
  <2>3. CASE /\ ~ \E p \in Proc, o \in Op : Commits(p, o)
             /\ ~ \E p \in Proc : ConsumeToken(p)
    <3>1. ASSUME NEW o \in Op PROVE Charged(u)'[o] \subseteq Charged(u)[o]
      BY <2>3, ChargedKept DEF Charged
    <3>2. ASSUME NEW q \in Proc PROVE Pending(u)'[q] \subseteq Pending(u)[q]
      <4>1. ASSUME NEW t \in Token, ReadToken(q, t) PROVE job'[q].pc = "token"
        BY <4>1 DEF ReadToken, TypeInv, TypeOK, Job
      <4>2. job'[q].pc \in Checked => job[q].pc \in Checked /\ job'[q].tok = job[q].tok
        BY <2>3, <4>1, RequestStep DEF Checked, Idle
      <4> QED
        BY <4>2, PendingKept DEF Pending
    <3>3. WithinLimit(Charged(u), Pending(u))
      BY DEF LimitInv
    <3> QED
      BY <3>1, <3>2, <3>3, LimitShrinks
  <2> QED
    BY <2>1, <2>2, <2>3
<1> QED
  BY <1>1, <1>2 DEF LimitInv, WithinLimit, Charged, Pending

\* The addresses an editor's operations of the last minute affect stay within the limit
\* times the number of requests that run at once, however their checks and their COMMITs
\* interleave (bulk_execute, the check of bulk_editor_rate_limit).
THEOREM RateLimitCorrect == Spec => []RateLimitWithinConcurrency
<1>1. Init => LimitInv
  BY LimitInit
<1>2. TypeInv /\ LimitInv /\ [Next]_vars => LimitInv'
  BY LimitStep
<1>3. LimitInv => RateLimitWithinConcurrency
  <2> SUFFICES ASSUME LimitInv, NEW u \in Editor
               PROVE  RecentModified(u) <= RateLimit * Cardinality(Proc)
    BY DEF RateLimitWithinConcurrency
  <2> DEFINE n == Cardinality(Pairs(Op, Charged(u)))
             m == Cardinality(Pairs(Proc, Pending(u)))
             c == Cardinality(Proc)
  <2>1. n + m <= c * RateLimit /\ RecentModified(u) = n
    BY RecentCharged DEF LimitInv, WithinLimit
  <2>2. n \in Nat
    BY FS_CardinalityType DEF LimitInv, WithinLimit
  <2>3. m \in Nat /\ c \in Nat /\ RateLimit \in Nat
    <3>1. \A p \in Proc : Pending(u)[p] \subseteq Address
                          /\ Cardinality(Pending(u)[p]) <= RateLimit
      BY DEF LimitInv, WithinLimit
    <3> QED
      BY <3>1, PendingFinite, LimitAssumption
  <2> HIDE DEF n, m, c
  <2>4. c * RateLimit = RateLimit * c /\ c * RateLimit \in Nat
    BY <2>3
  <2>5. n <= c * RateLimit
    BY <2>1, <2>2, <2>3, <2>4
  <2> QED
    BY <2>1, <2>4, <2>5 DEF c
<1> QED
  BY <1>1, <1>2, <1>3, TypeInvariant, PTL DEF Spec

-----------------------------------------------------------------------------
(* The uses of a token: each is the work of one request that has read it.  *)

Uses(t) == {o \in Op : bulk[o].state = "done" /\ bulk[o].tok = t}
Readers(t) == {p \in Proc : Executing(p) /\ job[p].tok = t}

UseInv ==
  \A t \in Token : /\ IsFiniteSet(Uses(t))
                   /\ Cardinality(Uses(t)) + Cardinality(Readers(t)) <= Cardinality(Proc)

LEMMA ReadersFinite ==
  ASSUME NEW S \in SUBSET Proc
  PROVE  /\ IsFiniteSet(S) /\ Cardinality(S) \in Nat /\ Cardinality(S) <= Cardinality(Proc)
         /\ Cardinality(Proc) \in Nat
         /\ \A T \in SUBSET S : IsFiniteSet(T) /\ Cardinality(T) <= Cardinality(S)
<1>1. IsFiniteSet(S) /\ Cardinality(S) <= Cardinality(Proc) /\ Cardinality(Proc) \in Nat
  BY FiniteAssumption, FS_Subset, FS_CardinalityType
<1> QED
  BY <1>1, FS_Subset, FS_CardinalityType

LEMMA UseInit == Init => UseInv
<1> SUFFICES ASSUME Init, NEW t \in Token
             PROVE  /\ IsFiniteSet(Uses(t))
                    /\ Cardinality(Uses(t)) + Cardinality(Readers(t)) <= Cardinality(Proc)
  BY DEF UseInv
<1>1. Uses(t) = {} /\ Readers(t) = {}
  BY DEF Init, NoBulk, Idle, Uses, Readers, Executing
<1>2. Cardinality({}) = 0 /\ IsFiniteSet({}) /\ Cardinality(Proc) \in Nat
  BY FS_EmptySet, FiniteAssumption, FS_CardinalityType
<1> QED
  BY <1>1, <1>2

LEMMA UseStep ==
  ASSUME TypeInv, TokenRetired, UseInv, [Next]_vars, NEW t \in Token
  PROVE  /\ IsFiniteSet(Uses(t)')
         /\ Cardinality(Uses(t)') + Cardinality(Readers(t)') <= Cardinality(Proc)
<1>0. /\ Readers(t) \subseteq Proc /\ Readers(t)' \subseteq Proc
      /\ IsFiniteSet(Uses(t)) /\ Cardinality(Uses(t)) \in Nat
      /\ Cardinality(Uses(t)) + Cardinality(Readers(t)) <= Cardinality(Proc)
  BY FS_CardinalityType DEF UseInv, Readers
<1>1. ASSUME NEW q \in Proc, ~ ReadToken(q, t)
      PROVE  q \in Readers(t)' => q \in Readers(t)
  <2>1. job[q] \in Job /\ job \in [Proc -> Job]
    BY DEF TypeInv, TypeOK
  <2>2. ASSUME NEW x \in Token, ReadToken(q, x), x # t PROVE q \notin Readers(t)'
    BY <2>1, <2>2 DEF ReadToken, Readers, Job
  <2>3. ASSUME ConsumeToken(q) PROVE job[q].pc = "token" /\ job'[q].tok = job[q].tok
    BY <2>1, <2>3 DEF ConsumeToken, Job
  <2> QED
    BY <1>1, <2>2, <2>3, RequestStep DEF Readers, Executing, Checked, Idle
<1>2. CASE \E p \in Proc, o \in Op : Commits(p, o) /\ job[p].tok = t
  <2>1. PICK p \in Proc, o \in Op : Commits(p, o) /\ job[p].tok = t
    BY <1>2
  <2>2. /\ bulk[o].state = "unused" /\ job[p].pc = "write" /\ job'[p] = Idle
        /\ bulk'[o].state = "done" /\ bulk'[o].tok = t
        /\ \A x \in Op : x # o => bulk'[x] = bulk[x]
        /\ \A q \in Proc : q # p => job'[q] = job[q]
    BY <2>1, CommitOutcome
  <2>3. Uses(t)' = Uses(t) \cup {o} /\ o \notin Uses(t)
    BY <2>2 DEF Uses
  <2>4. Readers(t)' = Readers(t) \ {p} /\ p \in Readers(t)
    BY <2>1, <2>2 DEF Readers, Executing, Idle
  <2>5. IsFiniteSet(Uses(t)') /\ Cardinality(Uses(t)') = Cardinality(Uses(t)) + 1
    BY <1>0, <2>3, FS_AddElement
  <2>6. Cardinality(Readers(t)') = Cardinality(Readers(t)) - 1
        /\ Cardinality(Readers(t)) \in Nat /\ Cardinality(Proc) \in Nat
    BY <1>0, <2>4, ReadersFinite, FS_RemoveElement
  <2> QED
    BY <1>0, <2>5, <2>6
<1>3. CASE ~ \E p \in Proc, o \in Op : Commits(p, o) /\ job[p].tok = t
  <2>1. Uses(t)' \subseteq Uses(t)
    <3>1. ASSUME NEW o \in Op, o \in Uses(t)' PROVE o \in Uses(t)
      <4>1. \A p \in Proc : ~ Commits(p, o)
        BY <1>3, <3>1, CommitOutcome DEF Uses
      <4> QED
        BY <3>1, <4>1, OperationStep DEF Uses
    <3> QED
      BY <3>1 DEF Uses
  <2>2. IsFiniteSet(Uses(t)') /\ Cardinality(Uses(t)') \in Nat
        /\ Cardinality(Uses(t)') <= Cardinality(Uses(t))
    BY <1>0, <2>1, FS_Subset, FS_CardinalityType
  <2>3. CASE \E q \in Proc : ReadToken(q, t)
    <3>1. token[t].state = "stored"
      BY <2>3 DEF ReadToken
    <3>2. Uses(t) = {}
      BY <3>1 DEF Uses, TokenRetired
    <3>3. Cardinality(Uses(t)) = 0
      BY <3>2, FS_EmptySet
    <3> QED
      BY <1>0, <2>2, <3>3, ReadersFinite
  <2>4. CASE ~ \E q \in Proc : ReadToken(q, t)
    <3>1. Readers(t)' \subseteq Readers(t)
      BY <1>0, <1>1, <2>4
    <3>2. /\ Cardinality(Readers(t)') <= Cardinality(Readers(t))
          /\ Cardinality(Readers(t)) \in Nat /\ Cardinality(Readers(t)') \in Nat
          /\ Cardinality(Proc) \in Nat
      BY <1>0, <3>1, ReadersFinite
    <3> QED
      BY <1>0, <2>2, <3>2
  <2> QED
    BY <2>3, <2>4
<1> QED
  BY <1>2, <1>3

\* A token is used at most once for each request that runs at the same time: the requests
\* that read it before the first of them committed (_consume_token).
THEOREM TokenUseCorrect == Spec => []TokenUseWithinConcurrency
<1>1. Init => UseInv
  BY UseInit
<1>2. TypeInv /\ TokenRetired /\ UseInv /\ [Next]_vars => UseInv'
  BY UseStep DEF UseInv
<1>3. UseInv => TokenUseWithinConcurrency
  <2> SUFFICES ASSUME UseInv, NEW t \in Token
               PROVE  Cardinality(Uses(t)) <= Cardinality(Proc)
    BY DEF TokenUseWithinConcurrency, Uses
  <2>1. Readers(t) \in SUBSET Proc
    BY DEF Readers
  <2>2. Cardinality(Uses(t)) \in Nat /\ Cardinality(Readers(t)) \in Nat
        /\ Cardinality(Proc) \in Nat
    BY <2>1, ReadersFinite, FS_CardinalityType DEF UseInv
  <2> QED
    BY <2>2 DEF UseInv
<1> QED
  BY <1>1, <1>2, <1>3, TypeInvariant, TokenRetiredCorrect, PTL DEF Spec
=============================================================================
