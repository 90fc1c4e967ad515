-------------------------- MODULE FullImportProofs --------------------------
(***************************************************************************)
(* Theorems about FullImport for any number of editions, failures and      *)
(* attempts, and every set of files that can not be deleted.               *)
(***************************************************************************)
EXTENDS FullImport, WellFoundedInduction, SequenceTheorems, TLAPS

USE BoundsAssumption, UndeletableAssumption, NoneAssumption

-----------------------------------------------------------------------------
(* The list of steps *)

\* Nine steps, no two of them the same.
LEMMA StepList ==
  /\ IMPORT_STEPS \in Seq(Step)
  /\ Len(IMPORT_STEPS) = 9
  /\ Step = {IMPORT_STEPS[i] : i \in 1..9}
  /\ \A i, j \in 1..9 : IMPORT_STEPS[i] = IMPORT_STEPS[j] => i = j
<1>1. Len(IMPORT_STEPS) = 9 /\ DOMAIN IMPORT_STEPS = 1..9
  BY DEF IMPORT_STEPS
<1>2. IMPORT_STEPS = [i \in 1..9 |-> IMPORT_STEPS[i]]
  BY DEF IMPORT_STEPS
<1>3. \A i, j \in 1..9 : IMPORT_STEPS[i] = IMPORT_STEPS[j] => i = j
  BY DEF IMPORT_STEPS
<1>4. Step = {IMPORT_STEPS[i] : i \in 1..9}
  BY <1>1 DEF Step, ToSet
<1>5. IMPORT_STEPS \in [1..9 -> Step]
  BY <1>2, <1>4
<1>6. 9 \in Nat
  OBVIOUS
<1>7. IMPORT_STEPS \in Seq(Step)
  BY <1>5, <1>6, SeqDef
<1> QED
  BY <1>1, <1>3, <1>4, <1>7

\* The steps from a position on.
From(i) == SubSeq(IMPORT_STEPS, i, 9)

LEMMA FromList ==
  ASSUME NEW i \in 1..10
  PROVE  /\ From(i) \in Seq(Step)
         /\ ToSet(From(i)) = {IMPORT_STEPS[k] : k \in i..9}
         /\ i = 10 <=> From(i) = <<>>
         /\ i \in 1..9 => Head(From(i)) = IMPORT_STEPS[i] /\ Tail(From(i)) = From(i + 1)
<1>1. /\ From(i) \in Seq(Step)
      /\ Len(From(i)) = 10 - i
      /\ \A k \in 1..10 - i : From(i)[k] = IMPORT_STEPS[i + k - 1]
  <2>1. \A k \in i..9 : IMPORT_STEPS[k] \in Step
    BY StepList, LenProperties
  <2>2. i \in Int /\ 9 \in Int
    OBVIOUS
  <2> HIDE DEF From
  <2>3. /\ From(i) \in Seq(Step)
        /\ Len(From(i)) = IF i <= 9 THEN 9 - i + 1 ELSE 0
        /\ \A k \in 1..9 - i + 1 : From(i)[k] = IMPORT_STEPS[i + k - 1]
    BY <2>1, <2>2, SubSeqProperties DEF From
  <2> QED
    BY <2>3
<1>2. ToSet(From(i)) = {From(i)[k] : k \in 1..10 - i}
  BY <1>1, LenProperties DEF ToSet
<1>3. ASSUME NEW k \in i..9 PROVE k - i + 1 \in 1..10 - i /\ From(i)[k - i + 1] = IMPORT_STEPS[k]
  BY <1>1
<1>4. ASSUME NEW k \in 1..10 - i PROVE i + k - 1 \in i..9 /\ From(i)[k] = IMPORT_STEPS[i + k - 1]
  BY <1>1
<1>5. ToSet(From(i)) = {IMPORT_STEPS[k] : k \in i..9}
  BY <1>2, <1>3, <1>4
<1>6. i = 10 <=> From(i) = <<>>
  BY <1>1, EmptySeq
<1>7. i \in 1..9 => Head(From(i)) = IMPORT_STEPS[i] /\ Tail(From(i)) = From(i + 1)
  BY StepList, HeadTailOfSubSeq DEF From
<1> QED
  BY <1>1, <1>5, <1>6, <1>7

\* What is left to run is a rest of the list.
LEMMA AfterNone == StepsAfter(None) = From(1)
<1>1. {i \in 1..Len(IMPORT_STEPS) : IMPORT_STEPS[i] = None} = {}
  BY StepList
<1>2. SelectInSeq(IMPORT_STEPS, LAMBDA s : s = None) = 0
  BY <1>1 DEF SelectInSeq
<1>3. 0 + 1 = 1
  OBVIOUS
<1>4. SelectInSeq(IMPORT_STEPS, LAMBDA s : s = None) + 1 = 1
  BY <1>2, <1>3, Zenon
<1> QED
  BY <1>4, StepList, Zenon DEF StepsAfter, From

LEMMA AfterStep ==
  ASSUME NEW i \in 1..9
  PROVE  StepsAfter(IMPORT_STEPS[i]) = From(i + 1)
<1>1. {k \in 1..Len(IMPORT_STEPS) : IMPORT_STEPS[k] = IMPORT_STEPS[i]} = {i}
  BY StepList
<1>2. Min({i}) = i
  BY DEF Min
<1>3. SelectInSeq(IMPORT_STEPS, LAMBDA s : s = IMPORT_STEPS[i]) = i
  BY <1>1, <1>2 DEF SelectInSeq
<1> QED
  BY <1>3, StepList DEF StepsAfter, From

LEMMA AfterList ==
  ASSUME NEW done \in Step \cup {None}
  PROVE  \E i \in 1..10 : StepsAfter(done) = From(i)
<1>1. CASE done = None
  BY <1>1, AfterNone
<1>2. CASE done # None
  <2>1. PICK i \in 1..9 : done = IMPORT_STEPS[i]
    BY <1>2, StepList
  <2>2. i + 1 \in 1..10
    OBVIOUS
  <2> QED
    BY <2>1, <2>2, AfterStep
<1> QED
  BY <1>1, <1>2

\* The steps that were completed when those after "done" are left.
CompletedAt(done) == Step \ ToSet(StepsAfter(done))

\* Saving a step takes it from the front of what is left; nothing is completed by
\* a cleared checkpoint, all by an empty rest.
LEMMA StepsLeft ==
  ASSUME NEW done \in Step \cup {None}
  PROVE  /\ StepsAfter(done) \in Seq(Step)
         /\ StepsAfter(done) = <<>> => CompletedAt(done) = Step
         /\ StepsAfter(done) # <<>> =>
              LET s == Head(StepsAfter(done)) IN
              /\ s \in Step
              /\ StepsAfter(s) = Tail(StepsAfter(done))
              /\ CompletedAt(s) = CompletedAt(done) \cup {s}
<1>1. PICK i \in 1..10 : StepsAfter(done) = From(i)
  BY AfterList
<1>2. CASE i = 10
  <2>1. ToSet(From(i)) = {}
    BY <1>2, FromList
  <2> QED
    BY <1>1, <1>2, <2>1, FromList DEF CompletedAt
<1>3. CASE i \in 1..9
  <2> DEFINE s == Head(StepsAfter(done))
  <2> i # 10
    BY <1>3
  <2>1. s = IMPORT_STEPS[i] /\ Tail(StepsAfter(done)) = From(i + 1) /\ From(i) # <<>>
    BY <1>1, <1>3, FromList
  <2>2. s \in Step /\ StepsAfter(s) = From(i + 1)
    BY <1>3, <2>1, AfterStep, StepList
  <2>3. i + 1 \in 1..10
    BY <1>3
  <2>4. /\ ToSet(From(i)) = {IMPORT_STEPS[k] : k \in i..9}
        /\ ToSet(From(i + 1)) = {IMPORT_STEPS[k] : k \in i + 1..9}
    BY <2>3, FromList
  <2>5. \A k \in i..9 : k = i \/ k \in i + 1..9
    BY <1>3
  <2>6. i \in i..9 /\ i + 1..9 \subseteq i..9 /\ \A k \in i + 1..9 : k \in 1..9 /\ k # i
    BY <1>3
  <2>7. IMPORT_STEPS[i] \in ToSet(From(i)) /\ IMPORT_STEPS[i] \notin ToSet(From(i + 1))
    BY <1>3, <2>4, <2>6, StepList
  <2>8. ToSet(From(i)) = ToSet(From(i + 1)) \cup {IMPORT_STEPS[i]}
    BY <2>4, <2>5, <2>6
  <2>9. CompletedAt(s) = CompletedAt(done) \cup {s}
    BY <1>1, <2>1, <2>2, <2>7, <2>8 DEF CompletedAt
  <2>10. StepsAfter(done) \in Seq(Step) /\ StepsAfter(s) = Tail(StepsAfter(done))
    BY <1>1, <2>1, <2>2, FromList
  <2> HIDE DEF s
  <2>11. /\ StepsAfter(done) # <<>>
         /\ s \in Step
    BY <1>1, <2>1, <2>2
  <2> USE DEF s
  <2> QED
    BY <2>9, <2>10, <2>11
<1> QED
  BY <1>2, <1>3

LEMMA NothingCompleted == CompletedAt(None) = {}
<1>1. ToSet(From(1)) = {IMPORT_STEPS[k] : k \in 1..9}
  BY FromList
<1> QED
  BY <1>1, AfterNone, StepList DEF CompletedAt

-----------------------------------------------------------------------------
(* Files *)

LEMMA Files ==
  /\ Step = {"counties", "municipalities", "localities", "streets", "points",
             "addresses", "boundaries", "axes", "cid"}
  /\ File \subseteq Step
  /\ "points" \in File /\ "addresses" \in File /\ "cid" \notin File
<1>1. Step = {IMPORT_STEPS[i] : i \in 1..9}
  BY StepList
<1>2. /\ IMPORT_STEPS[1] = "counties" /\ IMPORT_STEPS[2] = "municipalities"
      /\ IMPORT_STEPS[3] = "localities" /\ IMPORT_STEPS[4] = "streets"
      /\ IMPORT_STEPS[5] = "points" /\ IMPORT_STEPS[6] = "addresses"
      /\ IMPORT_STEPS[7] = "boundaries" /\ IMPORT_STEPS[8] = "axes"
      /\ IMPORT_STEPS[9] = "cid"
  BY DEF IMPORT_STEPS
<1>3. 1..9 = {1, 2, 3, 4, 5, 6, 7, 8, 9}
  OBVIOUS
<1>4. Step = {"counties", "municipalities", "localities", "streets", "points",
              "addresses", "boundaries", "axes", "cid"}
  BY <1>1, <1>2, <1>3
<1> QED
  BY <1>4 DEF File

\* A download that was cut off leaves a file that is short or ragged.
LEMMA CutFiles ==
  ASSUME NEW f \in File, NEW content \in CutContents[f]
  PROVE  content \in {"short", "ragged"}
<1>1. CASE f \in CsvTable
  <2>1. CutContents[f] = {IF outcome = "aborts" THEN "ragged" ELSE "short" : outcome \in ReadsOfCut(f)}
    BY <1>1 DEF CutContents
  <2> QED
    BY <2>1
<1>2. CASE f \notin CsvTable
  BY <1>2 DEF CutContents
<1> QED
  BY <1>1, <1>2

-----------------------------------------------------------------------------
(* Types and control: what an import has left to run are the steps after the *)
(* checkpoint, and a file is there before it is read.                        *)

Control ==
  /\ job.pc \notin {"idle", "clear"} => job.queue = StepsAfter(checkpoint)
  /\ job.pc \in {"connect", "download", "load", "save"} => job.queue # <<>>
  /\ job.pc \in {"connect", "download"} => Reading \in File
  /\ job.pc \in {"download", "load"} /\ Reading \in File => cache[Reading].content # "none"
  /\ job.pc = "mark" => job.queue = <<>> /\ job.kind = "resync"
  /\ job.pc = "clear" => job.points = 0 /\ job.kind = "resync"

Base == TypeOK /\ Control

Pc == {"idle", "clear", "next", "connect", "download", "load", "save", "mark"}

LEMMA Typed ==
  ASSUME Base
  PROVE  /\ job.pc \in Pc /\ job.kind \in {"import", "resync"} /\ job.queue \in Seq(Step)
         /\ job.points \in 0..MaxEdition /\ job.attempt \in 0..MaxRetries - 1
         /\ job = [pc |-> job.pc, kind |-> job.kind, queue |-> job.queue,
                   points |-> job.points, attempt |-> job.attempt]
         /\ \A f \in File : /\ cache[f].edition \in 0..MaxEdition
                            /\ cache[f].content \in {"none", "whole", "short", "ragged"}
  BY DEF Base, TypeOK, Job, Pc, CachedFile

\* While a step runs, it is the first that is left and the file read is one of a step.
LEMMA Heads ==
  ASSUME Base, job.queue # <<>>
  PROVE  /\ Head(job.queue) \in Step /\ Tail(job.queue) \in Seq(Step)
         /\ Reading \in Step
<1>1. Head(job.queue) \in Step /\ Tail(job.queue) \in Seq(Step)
  BY Typed, HeadTailProperties
<1> QED
  BY <1>1, Files DEF Reading

LEMMA JobTyped ==
  ASSUME NEW pc \in Pc, NEW kind \in {"import", "resync"}, NEW queue \in Seq(Step),
         NEW points \in 0..MaxEdition, NEW attempt \in 0..MaxRetries - 1
  PROVE  [pc |-> pc, kind |-> kind, queue |-> queue, points |-> points,
          attempt |-> attempt] \in Job
  BY DEF Job, Pc

LEMMA IdleTyped == Idle \in Job /\ Idle.pc = "idle"
<1>1. 0 \in 0..MaxEdition /\ 0 \in 0..MaxRetries - 1
  OBVIOUS
<1>2. <<>> \in Seq(Step)
  BY EmptySeq
<1> QED
  BY <1>1, <1>2 DEF Job, Idle

LEMMA BaseInit == Init => Base
<1> SUFFICES ASSUME Init PROVE Base
  OBVIOUS
<1>1. Edition = 1..MaxEdition /\ 1 \in Edition /\ 0 \in 0..MaxEdition /\ 0 \in 0..MaxFailures
  BY DEF Edition
<1>2. NoFile \in CachedFile
  BY <1>1 DEF NoFile, CachedFile
<1>3. TypeOK
  BY <1>1, <1>2, IdleTyped DEF Init, TypeOK
<1>4. job.pc = "idle"
  BY IdleTyped DEF Init
<1> QED
  BY <1>3, <1>4 DEF Base, Control

LEMMA BaseStep == Base /\ [Next]_vars => Base'
<1> SUFFICES ASSUME Base, [Next]_vars PROVE Base'
  OBVIOUS
<1> USE Typed
<1>0. TypeOK /\ Control
  BY DEF Base
<1> 0 \in 0..MaxRetries - 1
  OBVIOUS
<1>1. CASE Publish
  <2>1. TypeOK'
    BY <1>0, <1>1 DEF Publish, TypeOK, Edition
  <2>2. Control'
    BY <1>0, <1>1 DEF Publish, Control, Reading
  <2> QED
    BY <2>1, <2>2 DEF Base
<1>2. CASE StartImport
  <2>1. StepsAfter(checkpoint) \in Seq(Step) /\ StepsAfter(checkpoint) # <<>>
    BY <1>0, <1>2, StepsLeft DEF StartImport, TypeOK, steps_to_run
  <2>2. /\ job'.pc = "next" /\ job'.queue = StepsAfter(checkpoint)
        /\ job' \in Job
    BY <1>2, <2>1, IdleTyped DEF StartImport, Job, steps_to_run, Idle
  <2>3. TypeOK'
    BY <1>0, <1>2, <2>2 DEF StartImport, TypeOK
  <2>4. Control'
    BY <1>2, <2>2 DEF StartImport, Control
  <2> QED
    BY <2>3, <2>4 DEF Base
<1>3. CASE StartResync
  <2>1. PICK kept \in SUBSET Undeletable :
          cache' = [f \in File |-> IF f \in Cached \ kept THEN NoFile ELSE cache[f]]
    BY <1>3 DEF StartResync
  <2>2. NoFile \in CachedFile
    BY DEF NoFile, CachedFile
  <2>3. cache' \in [File -> CachedFile]
    BY <1>0, <2>1, <2>2 DEF TypeOK
  <2>4. job' \in Job /\ job'.pc = "clear" /\ job'.points = 0 /\ job'.kind = "resync"
    BY <1>3, IdleTyped DEF StartResync, Job, Idle
  <2>5. TypeOK'
    BY <1>0, <1>3, <2>3, <2>4 DEF StartResync, TypeOK
  <2>6. Control'
    BY <2>4 DEF Control
  <2> QED
    BY <2>5, <2>6 DEF Base
<1>4. CASE ClearProgress
  <2>1. StepsAfter(None) \in Seq(Step) /\ checkpoint' = None
    BY <1>4, StepsLeft DEF ClearProgress
  <2>2. job' \in Job /\ job'.pc = "next" /\ job'.queue = StepsAfter(None)
    BY <1>0, <1>4, <2>1 DEF ClearProgress, Job, steps_to_run, TypeOK
  <2>3. TypeOK'
    BY <1>0, <1>4, <2>2 DEF ClearProgress, TypeOK
  <2>4. Control'
    BY <2>1, <2>2 DEF Control
  <2> QED
    BY <2>3, <2>4 DEF Base
<1>5. CASE Proceed
  <2> DEFINE to == IF Reading \in File /\ cache[Reading].content = "none"
                   THEN "connect" ELSE "load"
  <2>1. /\ job'.pc = to /\ job'.queue = job.queue /\ job'.points = job.points
        /\ job' \in Job
    BY <1>0, <1>5 DEF Proceed, Job, TypeOK
  <2>2. Reading' = Reading
    BY <2>1 DEF Reading
  <2>3. TypeOK'
    BY <1>0, <1>5, <2>1 DEF Proceed, TypeOK
  <2>4. Control'
    BY <1>0, <1>5, <2>1, <2>2 DEF Proceed, Control
  <2> QED
    BY <2>3, <2>4 DEF Base
<1>6. CASE OpenFile
  <2>1. job.pc = "connect" /\ Reading \in File
    BY <1>0, <1>6 DEF OpenFile, Control
  <2>2. PICK content \in CutContents[Reading] :
          cache' = [cache EXCEPT ![Reading] = [edition |-> edition, content |-> content]]
    BY <1>6 DEF OpenFile
  <2>3. content \in {"short", "ragged"}
    BY <2>1, <2>2, CutFiles
  <2>4. cache' \in [File -> CachedFile] /\ cache'[Reading].content # "none"
    <3>1. [edition |-> edition, content |-> content] \in CachedFile
      BY <1>0, <2>3 DEF TypeOK, Edition, CachedFile
    <3> QED
      BY <1>0, <2>1, <2>2, <2>3, <3>1 DEF TypeOK
  <2>5. /\ job'.pc = "download" /\ job'.queue = job.queue /\ job'.points = job.points
        /\ job' \in Job
    BY <1>0, <1>6 DEF OpenFile, Job, TypeOK
  <2>6. Reading' = Reading
    BY <2>5 DEF Reading
  <2>7. TypeOK'
    BY <1>0, <1>6, <2>4, <2>5 DEF OpenFile, TypeOK
  <2>8. Control'
    BY <1>0, <1>6, <2>1, <2>4, <2>5, <2>6 DEF OpenFile, Control
  <2> QED
    BY <2>7, <2>8 DEF Base
<1>7. CASE EndDownload
  <2>1. job.pc = "download" /\ Reading \in File
    BY <1>0, <1>7 DEF EndDownload, Control
  <2>2. cache' \in [File -> CachedFile] /\ cache'[Reading].content # "none"
    BY <1>0, <1>7, <2>1 DEF EndDownload, TypeOK, CachedFile
  <2>3. /\ job'.pc = "load" /\ job'.queue = job.queue /\ job'.points = job.points
        /\ job' \in Job
    BY <1>0, <1>7 DEF EndDownload, Job, TypeOK
  <2>4. Reading' = Reading
    BY <2>3 DEF Reading
  <2>5. TypeOK'
    BY <1>0, <1>7, <2>2, <2>3 DEF EndDownload, TypeOK
  <2>6. Control'
    BY <1>0, <1>7, <2>1, <2>2, <2>3, <2>4 DEF EndDownload, Control
  <2> QED
    BY <2>5, <2>6 DEF Base
<1>8. CASE BuildPointLookup
  <2>1. "points" \in File
    BY Files
  <2> DEFINE to == IF Head(job.queue) = "points" THEN "save" ELSE "next"
  <2>2. /\ job'.pc = to /\ job'.queue = job.queue /\ job' \in Job
    BY <1>0, <1>8, <2>1 DEF BuildPointLookup, Job, TypeOK
  <2>3. TypeOK'
    BY <1>0, <1>8, <2>2 DEF BuildPointLookup, TypeOK
  <2>4. Control'
    BY <1>0, <1>8, <2>2 DEF BuildPointLookup, Control
  <2> QED
    BY <2>3, <2>4 DEF Base
<1>9. ASSUME NEW s \in File, LoadStep(s) PROVE Base'
  <2>1. Loaded(s) \in [File -> 0..MaxEdition]
    BY <1>0 DEF Loaded, TypeOK
  <2>2. loaded' \in [File -> 0..MaxEdition] /\ cut' \subseteq File
    BY <1>0, <1>9, <2>1 DEF LoadStep, TypeOK
  <2>3. job'.pc = "save" /\ job'.queue = job.queue /\ job' \in Job
    BY <1>0, <1>9 DEF LoadStep, Job, TypeOK
  <2>4. TypeOK'
    BY <1>0, <1>9, <2>2, <2>3 DEF LoadStep, TypeOK
  <2>5. Control'
    BY <1>0, <1>9, <2>3 DEF LoadStep, Control
  <2> QED
    BY <2>4, <2>5 DEF Base
<1>10. CASE LoadFails
  <2>1. TypeOK'
    BY <1>0, <1>10, IdleTyped DEF LoadFails, TypeOK
  <2>2. Control'
    BY <1>10, IdleTyped DEF LoadFails, Control
  <2> QED
    BY <2>1, <2>2 DEF Base
<1>11. CASE SaveHeadCid
  <2>1. job'.pc = "save" /\ job'.queue = job.queue /\ job' \in Job
    BY <1>0, <1>11 DEF SaveHeadCid, Job, TypeOK
  <2>2. TypeOK'
    BY <1>0, <1>11, <2>1 DEF SaveHeadCid, TypeOK
  <2>3. Control'
    BY <1>0, <1>11, <2>1 DEF SaveHeadCid, Control
  <2> QED
    BY <2>2, <2>3 DEF Base
<1>12. CASE SaveStep
  <2>1. job.queue = StepsAfter(checkpoint) /\ job.queue # <<>>
    BY <1>0, <1>12 DEF SaveStep, Control
  <2>2. /\ Head(job.queue) \in Step
        /\ StepsAfter(Head(job.queue)) = Tail(job.queue)
    BY <1>0, <2>1, StepsLeft DEF TypeOK
  <2>3. Tail(job.queue) \in Seq(Step)
    BY <2>1, Heads
  <2>4. job'.pc = "next" /\ job'.queue = Tail(job.queue) /\ job' \in Job
    BY <1>0, <1>12, <2>3 DEF SaveStep, Job, TypeOK
  <2>5. TypeOK'
    BY <1>0, <1>12, <2>2, <2>4 DEF SaveStep, TypeOK
  <2>6. Control'
    BY <1>12, <2>2, <2>4 DEF SaveStep, Control
  <2> QED
    BY <2>5, <2>6 DEF Base
<1>13. CASE EndImport
  <2>1. CASE job.kind = "resync"
    <3>1. /\ job'.pc = "mark" /\ job'.queue = job.queue /\ job'.kind = "resync"
          /\ job' \in Job
      BY <1>0, <1>13, <2>1 DEF EndImport, Job, TypeOK
    <3>2. TypeOK'
      BY <1>0, <1>13, <3>1 DEF EndImport, TypeOK
    <3>3. Control'
      BY <1>0, <1>13, <3>1 DEF EndImport, Control
    <3> QED
      BY <3>2, <3>3 DEF Base
  <2>2. CASE job.kind # "resync"
    <3>1. TypeOK'
      BY <1>0, <1>13, <2>2, IdleTyped DEF EndImport, TypeOK
    <3>2. Control'
      BY <1>13, <2>2, IdleTyped DEF EndImport, Control
    <3> QED
      BY <3>1, <3>2 DEF Base
  <2> QED
    BY <2>1, <2>2
<1>14. CASE MarkDeleted
  <2>1. 0 \in 0..MaxEdition
    OBVIOUS
  <2>2. TypeOK'
    BY <1>0, <1>14, <2>1, IdleTyped DEF MarkDeleted, TypeOK
  <2>3. Control'
    BY <1>14, IdleTyped DEF MarkDeleted, Control
  <2> QED
    BY <2>2, <2>3 DEF Base
<1>15. CASE AttemptFails
  <2>1. failures' \in 0..MaxFailures
    BY <1>0, <1>15 DEF AttemptFails, Fail, TypeOK
  <2>2. PICK failure \in Failure :
          IF ~ Retried(failure) THEN job' = Idle
          ELSE job' = [job EXCEPT !.attempt = @ + 1,
                                  !.pc = IF Reading = "cid" THEN "load" ELSE "connect"]
    BY <1>15 DEF AttemptFails
  <2>3. CASE ~ Retried(failure)
    <3>1. job' = Idle
      BY <2>2, <2>3
    <3>2. TypeOK'
      BY <1>0, <1>15, <2>1, <3>1, IdleTyped DEF AttemptFails, TypeOK
    <3>3. Control'
      BY <3>1, IdleTyped DEF Control
    <3> QED
      BY <3>2, <3>3 DEF Base
  <2>4. CASE Retried(failure)
    <3> DEFINE to == IF Reading = "cid" THEN "load" ELSE "connect"
    <3>1. job.attempt + 1 \in 0..MaxRetries - 1
      BY <2>4 DEF Retried
    <3>2. /\ job'.pc = to /\ job'.queue = job.queue /\ job'.points = job.points
          /\ job' \in Job
      BY <1>0, <2>2, <2>4, <3>1 DEF Job, TypeOK
    <3>3. Reading' = Reading
      BY <3>2 DEF Reading
    <3>4. TypeOK'
      BY <1>0, <1>15, <2>1, <3>2 DEF AttemptFails, TypeOK
    <3>5. Control'
      BY <1>0, <1>15, <3>2, <3>3, Files DEF AttemptFails, Control
    <3> QED
      BY <3>4, <3>5 DEF Base
  <2> QED
    BY <2>3, <2>4
<1>16. CASE Crash
  <2>1. failures' \in 0..MaxFailures
    BY <1>0, <1>16 DEF Crash, Fail, TypeOK
  <2>2. TypeOK'
    BY <1>0, <1>16, <2>1, IdleTyped DEF Crash, TypeOK
  <2>3. Control'
    BY <1>16, IdleTyped DEF Crash, Control
  <2> QED
    BY <2>2, <2>3 DEF Base
<1>17. CASE UNCHANGED vars
  BY <1>0, <1>17 DEF vars, Base, TypeOK, Control, Reading
<1> QED
  BY <1>1, <1>2, <1>3, <1>4, <1>5, <1>6, <1>7, <1>8, <1>9, <1>10, <1>11, <1>12, <1>13,
     <1>14, <1>15, <1>16, <1>17 DEF Next, Run

\* The job, the checkpoint and the tables keep their types, whatever fails and
\* however often the import is started again.
THEOREM TypeCorrect == Spec => []TypeOK
<1>1. Base => TypeOK
  BY DEF Base
<1> QED
  BY BaseInit, BaseStep, <1>1, PTL DEF Spec

-----------------------------------------------------------------------------
(* Files: what can be deleted is never older than the last forced restart,   *)
(* because the cache is emptied before the checkpoint is cleared, and a      *)
(* crash between the two leaves the earlier base.                            *)

FilesCurrent ==
  /\ base <= edition
  /\ "points" \notin cut
  /\ \A f \in File \ Undeletable :
       cache[f].content # "none" => base <= cache[f].edition /\ job.pc # "clear"
  /\ job.points # 0 => base <= job.points \/ "points" \in Undeletable

\* The fields of a job that is over.
LEMMA IdleFields ==
  /\ Idle.pc = "idle" /\ Idle.kind = "import" /\ Idle.points = 0
BY DEF Idle

LEMMA FilesInit == Init => FilesCurrent
BY IdleFields DEF Init, FilesCurrent, NoFile

LEMMA FilesStep == Base /\ FilesCurrent /\ [Next]_vars => FilesCurrent'
<1> SUFFICES ASSUME Base, FilesCurrent, [Next]_vars PROVE FilesCurrent'
  OBVIOUS
<1>a. ASSUME UNCHANGED <<edition, cache, base>>, "points" \notin cut',
             job'.points = 0 \/ job'.points = job.points, job'.pc # "clear"
      PROVE  FilesCurrent'
  BY <1>a DEF FilesCurrent
<1>0. TypeOK /\ Control
  BY DEF Base
<1>1. CASE Publish
  <2>1. base <= edition'
    BY <1>0, <1>1 DEF Publish, TypeOK, Edition, FilesCurrent
  <2> QED
    BY <1>1, <2>1 DEF Publish, FilesCurrent
<1>2. CASE StartImport
  BY <1>a, <1>2 DEF StartImport, Idle, FilesCurrent
<1>3. CASE StartResync
  <2>1. PICK kept \in SUBSET Undeletable :
          cache' = [f \in File |-> IF f \in Cached \ kept THEN NoFile ELSE cache[f]]
    BY <1>3 DEF StartResync
  <2>2. \A f \in File \ Undeletable : cache'[f].content = "none"
    BY <2>1 DEF Cached, NoFile
  <2>3. job'.points = 0
    BY <1>3 DEF StartResync, Idle
  <2> QED
    BY <1>3, <2>2, <2>3 DEF StartResync, FilesCurrent
<1>4. CASE ClearProgress
  <2>1. \A f \in File \ Undeletable : cache'[f].content = "none"
    BY <1>4, Typed DEF ClearProgress, FilesCurrent
  <2>2. job'.points = 0
    BY <1>0, <1>4, Typed DEF ClearProgress, Control
  <2>3. base' <= edition'
    BY <1>0, <1>4 DEF ClearProgress, TypeOK, Edition
  <2> QED
    BY <1>4, <2>1, <2>2, <2>3 DEF ClearProgress, FilesCurrent
<1>5. CASE Proceed
  <2>1. job'.points = job.points /\ job'.pc # "clear"
    BY <1>5, Typed DEF Proceed
  <2> QED
    BY <1>a, <1>5, <2>1 DEF Proceed, FilesCurrent
<1>6. CASE OpenFile
  <2>1. \A f \in File : cache'[f] = cache[f] \/ cache'[f].edition = edition
    BY <1>0, <1>6 DEF OpenFile, TypeOK
  <2>2. job'.points = job.points /\ job'.pc # "clear"
    BY <1>6, Typed DEF OpenFile
  <2> QED
    BY <1>6, <2>1, <2>2 DEF OpenFile, FilesCurrent
<1>7. CASE EndDownload
  <2>1. job.pc = "download" /\ Reading \in File /\ cache[Reading].content # "none"
    BY <1>0, <1>7 DEF EndDownload, Control
  <2>2. ASSUME NEW f \in File
        PROVE  /\ cache'[f].edition = cache[f].edition
               /\ cache'[f].content # "none" => cache[f].content # "none"
    <3>1. f # Reading => cache'[f] = cache[f]
      BY <1>0, <1>7 DEF EndDownload, TypeOK
    <3>2. cache'[f].edition = cache[f].edition
      BY <1>0, <1>7, <3>1 DEF EndDownload, TypeOK, CachedFile
    <3> QED
      BY <2>1, <3>1, <3>2
  <2>3. job'.points = job.points /\ job'.pc # "clear"
    BY <1>7, Typed DEF EndDownload
  <2> QED
    BY <1>7, <2>2, <2>3 DEF EndDownload, FilesCurrent
<1>8. CASE BuildPointLookup
  <2>1. /\ job'.points = cache["points"].edition /\ job'.pc # "clear"
        /\ cache["points"].content # "none"
    BY <1>0, <1>8, Typed, Files DEF BuildPointLookup, Control
  <2>2. "points" \in File
    BY Files
  <2> QED
    BY <1>8, <2>1, <2>2 DEF BuildPointLookup, FilesCurrent
<1>9. ASSUME NEW s \in File, LoadStep(s) PROVE FilesCurrent'
  <2>1. job'.points = job.points /\ job'.pc # "clear"
    BY <1>9, Typed DEF LoadStep
  <2>2. "points" \notin cut'
    BY <1>9 DEF LoadStep, FilesCurrent
  <2> QED
    BY <1>a, <1>9, <2>1, <2>2 DEF LoadStep
<1>10. CASE LoadFails
  BY <1>a, <1>10, IdleFields DEF LoadFails, FilesCurrent
<1>11. CASE SaveHeadCid
  BY <1>a, <1>11, Typed DEF SaveHeadCid, FilesCurrent
<1>12. CASE SaveStep
  BY <1>a, <1>12, Typed DEF SaveStep, FilesCurrent
<1>13. CASE EndImport
  <2>1. (job'.points = 0 \/ job'.points = job.points) /\ job'.pc # "clear"
    BY <1>13, Typed, IdleFields DEF EndImport
  <2> QED
    BY <1>a, <1>13, <2>1 DEF EndImport, FilesCurrent
<1>14. CASE MarkDeleted
  BY <1>a, <1>14, IdleFields DEF MarkDeleted, FilesCurrent
<1>15. CASE AttemptFails
  <2>1. (job'.points = 0 \/ job'.points = job.points) /\ job'.pc # "clear"
    BY <1>15, Typed, IdleFields DEF AttemptFails
  <2> QED
    BY <1>a, <1>15, <2>1 DEF AttemptFails, FilesCurrent
<1>16. CASE Crash
  BY <1>a, <1>16, IdleFields DEF Crash, FilesCurrent
<1>17. CASE UNCHANGED vars
  BY <1>17 DEF vars, FilesCurrent
<1> QED
  BY <1>1, <1>2, <1>3, <1>4, <1>5, <1>6, <1>7, <1>8, <1>9, <1>10, <1>11, <1>12, <1>13,
     <1>14, <1>15, <1>16, <1>17 DEF Next, Run

-----------------------------------------------------------------------------
(* Tables: what the completed steps promise                                  *)

\* The tables a set of completed steps promises: the points only with the addresses.
Tables(S) == ((S \cap File) \ {"points"}) \cup {t \in {"points"} : "addresses" \in S}

LEMMA TablesOf ==
  /\ Tables({}) = {} /\ Tables({"points"}) = {} /\ Tables({"cid"}) = {}
  /\ \A s \in File : Tables({s}) \subseteq {s} \cup {t \in {"points"} : s = "addresses"}
  /\ \A S \in SUBSET Step, s \in Step : Tables(S \cup {s}) = Tables(S) \cup Tables({s})
  /\ \A S \in SUBSET Step : Tables(S) \subseteq File
  /\ Tables(Step) = File
<1>1. Tables({}) = {} /\ Tables({"points"}) = {} /\ Tables({"cid"}) = {}
  BY Files DEF Tables
<1>2. \A s \in File : Tables({s}) \subseteq {s} \cup {t \in {"points"} : s = "addresses"}
  BY DEF Tables
<1>3. \A S \in SUBSET Step, s \in Step : Tables(S \cup {s}) = Tables(S) \cup Tables({s})
  BY DEF Tables
<1>4. (\A S \in SUBSET Step : Tables(S) \subseteq File) /\ Tables(Step) = File
  BY Files DEF Tables
<1> QED
  BY <1>1, <1>2, <1>3, <1>4

\* A table that a forced restart has no reason to load again.
Sound(s) == loaded[s] >= base \/ s \in cut \cup Undeletable

\* A table that holds a whole file of the running resync.
Fresh(s) == s \in Undeletable \/ (s \notin cut /\ loaded[s] >= base)

\* The completed steps are sound, and so is what the running one has just loaded.
TablesSound ==
  /\ \A s \in Tables(CompletedAt(checkpoint)) : Sound(s)
  /\ job.pc = "save" => \A s \in Tables({Head(job.queue)}) : Sound(s)

LEMMA CompletedIsStep ==
  ASSUME Base
  PROVE  CompletedAt(checkpoint) \in SUBSET Step
BY DEF CompletedAt

\* What a load does: the table of the step and the points of the addresses come
\* from files of this restart, whole or known to be cut off; the others stay.
LEMMA LoadOutcome ==
  ASSUME Base, FilesCurrent, NEW s \in File, LoadStep(s)
  PROVE  /\ Head(job.queue) = s /\ base' = base /\ checkpoint' = checkpoint
         /\ cache' = cache /\ job' = [job EXCEPT !.pc = "save"]
         /\ s # "points" /\ "points" \notin cut'
         /\ \A t \in File \ {s} : t \in cut' <=> t \in cut
         /\ \A t \in File \ {s, "points"} : loaded'[t] = loaded[t]
         /\ s # "addresses" => loaded'["points"] = loaded["points"]
         /\ s = "addresses" => loaded'["points"] >= base \/ "points" \in Undeletable
         /\ \/ s \in Undeletable
            \/ cache[s].content = "whole" /\ s \notin cut' /\ loaded'[s] >= base
            \/ cache[s].content = "short" /\ s \in cut'
<1>0. TypeOK
  BY DEF Base
<1>1. /\ Reading = s /\ s # "points" /\ s \in File /\ base' = base
      /\ checkpoint' = checkpoint /\ cache' = cache /\ job' = [job EXCEPT !.pc = "save"]
  BY DEF LoadStep
<1>2. /\ Head(job.queue) = s
      /\ s = "addresses" => job.points # 0
  BY <1>1 DEF Reading
<1>3. \/ cache[s].content = "whole" /\ loaded' = Loaded(s) /\ cut' = cut \ {s}
      \/ /\ cache[s].content = "short"
         /\ loaded' = [Loaded(s) EXCEPT ![s] = loaded[s]] /\ cut' = cut \cup {s}
  BY DEF LoadStep
<1>4. /\ Loaded(s)[s] = cache[s].edition
      /\ \A t \in File \ {s, "points"} : Loaded(s)[t] = loaded[t]
      /\ Loaded(s)["points"] = IF s = "addresses" THEN job.points ELSE loaded["points"]
      /\ Loaded(s) = [f \in File |-> Loaded(s)[f]]
  BY <1>1, Files DEF Loaded
<1>5. \A t \in File \ {s} : loaded'[t] = Loaded(s)[t]
  BY <1>3, <1>4
<1>6. "points" \notin cut' /\ \A t \in File \ {s} : t \in cut' <=> t \in cut
  BY <1>1, <1>3 DEF FilesCurrent
<1>7. /\ \A t \in File \ {s, "points"} : loaded'[t] = loaded[t]
      /\ s # "addresses" => loaded'["points"] = loaded["points"]
  BY <1>1, <1>4, <1>5, Files
<1>8. s = "addresses" => loaded'["points"] >= base \/ "points" \in Undeletable
  <2>1. s = "addresses" => loaded'["points"] = job.points
    BY <1>1, <1>4, <1>5, Files
  <2> QED
    BY <1>0, <1>2, <2>1, Typed DEF FilesCurrent, TypeOK, Edition
<1>9. s \notin Undeletable /\ cache[s].content = "whole" => loaded'[s] >= base
  <2>1. s \notin Undeletable /\ cache[s].content = "whole" => base <= cache[s].edition
    BY DEF FilesCurrent
  <2>2. cache[s].content = "whole" => loaded'[s] = cache[s].edition
    BY <1>3, <1>4
  <2> QED
    BY <1>0, <2>1, <2>2, Typed DEF TypeOK, Edition
<1>10. \/ s \in Undeletable
       \/ cache[s].content = "whole" /\ s \notin cut' /\ loaded'[s] >= base
       \/ cache[s].content = "short" /\ s \in cut'
  BY <1>3, <1>9
<1> QED
  BY <1>1, <1>2, <1>6, <1>7, <1>8, <1>10

LEMMA TablesInit == Init => TablesSound
<1> SUFFICES ASSUME Init PROVE TablesSound
  OBVIOUS
<1>1. CompletedAt(checkpoint) = {} /\ job.pc # "save"
  BY NothingCompleted, IdleFields DEF Init
<1> QED
  BY <1>1, TablesOf DEF TablesSound

LEMMA TablesStep == Base /\ FilesCurrent /\ TablesSound /\ [Next]_vars => TablesSound'
<1> SUFFICES ASSUME Base, FilesCurrent, TablesSound, [Next]_vars PROVE TablesSound'
  OBVIOUS
<1>0. TypeOK /\ Control
  BY DEF Base
<1>a. ASSUME UNCHANGED <<loaded, checkpoint, base, cut>>, job'.pc # "save"
      PROVE  TablesSound'
  BY <1>a DEF TablesSound, Sound
<1>1. CASE Publish
  BY <1>1 DEF Publish, TablesSound, Sound
<1>2. CASE StartImport
  BY <1>a, <1>2 DEF StartImport, Idle
<1>3. CASE StartResync
  BY <1>a, <1>3 DEF StartResync, Idle
<1>4. CASE ClearProgress
  <2>1. checkpoint' = None /\ job'.pc = "next"
    BY <1>4, Typed DEF ClearProgress
  <2> QED
    BY <2>1, NothingCompleted, TablesOf DEF TablesSound
<1>5. CASE Proceed
  BY <1>a, <1>5, Typed DEF Proceed
<1>6. CASE OpenFile
  <2>1. job'.pc = "download"
    BY <1>6, Typed DEF OpenFile
  <2> QED
    BY <1>a, <1>6, <2>1 DEF OpenFile
<1>7. CASE EndDownload
  BY <1>a, <1>7, Typed DEF EndDownload
<1>8. CASE BuildPointLookup
  <2>1. job'.queue = job.queue /\ job'.pc = IF Head(job.queue) = "points" THEN "save" ELSE "next"
    BY <1>8, Typed DEF BuildPointLookup
  <2>2. job'.pc = "save" => Tables({Head(job'.queue)}) = {}
    BY <2>1, TablesOf
  <2>3. UNCHANGED <<loaded, checkpoint, base, cut>>
    BY <1>8 DEF BuildPointLookup
  <2> QED
    BY <2>2, <2>3 DEF TablesSound, Sound
<1>9. ASSUME NEW s \in File, LoadStep(s) PROVE TablesSound'
  <2>1. Sound(s)' /\ (s = "addresses" => Sound("points")')
    BY <1>9, LoadOutcome DEF Sound
  <2>2. ASSUME NEW t \in File, Sound(t) PROVE Sound(t)'
    <3>1. CASE t = s
      BY <2>1, <3>1
    <3>2. CASE t = "points" /\ s = "addresses"
      BY <2>1, <3>2
    <3>3. CASE t # s /\ (t = "points" => s # "addresses")
      BY <1>9, <2>2, <3>3, LoadOutcome DEF Sound
    <3> QED
      BY <3>1, <3>2, <3>3
  <2>3. job'.queue = job.queue /\ Head(job.queue) = s /\ checkpoint' = checkpoint
    BY <1>9, LoadOutcome, Typed
  <2>4. \A t \in Tables({Head(job'.queue)}) : Sound(t)'
    BY <2>1, <2>3, TablesOf
  <2>5. \A t \in Tables(CompletedAt(checkpoint')) : Sound(t)'
    BY <2>2, <2>3, TablesOf, CompletedIsStep DEF TablesSound
  <2> QED
    BY <2>4, <2>5 DEF TablesSound
<1>10. CASE LoadFails
  BY <1>a, <1>10, IdleFields DEF LoadFails
<1>11. CASE SaveHeadCid
  <2>1. job'.queue = job.queue /\ Head(job.queue) = "cid"
    BY <1>11, Typed DEF SaveHeadCid, Reading
  <2>2. UNCHANGED <<loaded, checkpoint, base, cut>>
    BY <1>11 DEF SaveHeadCid
  <2> QED
    BY <2>1, <2>2, TablesOf DEF TablesSound, Sound
<1>12. CASE SaveStep
  <2>1. job.queue = StepsAfter(checkpoint) /\ job.queue # <<>> /\ job.pc = "save"
    BY <1>0, <1>12 DEF SaveStep, Control
  <2>2. /\ Head(job.queue) \in Step
        /\ CompletedAt(checkpoint') = CompletedAt(checkpoint) \cup {Head(job.queue)}
    BY <1>0, <1>12, <2>1, StepsLeft DEF TypeOK, SaveStep
  <2>3. Tables(CompletedAt(checkpoint')) =
          Tables(CompletedAt(checkpoint)) \cup Tables({Head(job.queue)})
    BY <2>2, TablesOf, CompletedIsStep
  <2>4. \A t \in Tables(CompletedAt(checkpoint')) : Sound(t)
    BY <2>1, <2>3 DEF TablesSound
  <2>5. UNCHANGED <<loaded, base, cut>> /\ job'.pc = "next"
    BY <1>12, Typed DEF SaveStep
  <2> QED
    BY <2>4, <2>5 DEF TablesSound, Sound
<1>13. CASE EndImport
  <2>1. job'.pc # "save"
    BY <1>13, Typed, IdleFields DEF EndImport
  <2> QED
    BY <1>a, <1>13, <2>1 DEF EndImport
<1>14. CASE MarkDeleted
  <2>1. \A t \in File : Sound(t) => Sound(t)'
    BY <1>0, <1>14 DEF MarkDeleted, Sound, TypeOK
  <2>2. \A t \in Tables(CompletedAt(checkpoint)) : Sound(t)'
    BY <2>1, TablesOf, CompletedIsStep DEF TablesSound
  <2>3. checkpoint' = checkpoint /\ job'.pc = "idle"
    BY <1>14, IdleFields DEF MarkDeleted
  <2> QED
    BY <2>2, <2>3 DEF TablesSound
<1>15. CASE AttemptFails
  <2>1. job'.pc # "save"
    BY <1>15, Typed, IdleFields DEF AttemptFails
  <2> QED
    BY <1>a, <1>15, <2>1 DEF AttemptFails
<1>16. CASE Crash
  BY <1>a, <1>16, IdleFields DEF Crash
<1>17. CASE UNCHANGED vars
  BY <1>17 DEF vars, TablesSound, Sound
<1> QED
  BY <1>1, <1>2, <1>3, <1>4, <1>5, <1>6, <1>7, <1>8, <1>9, <1>10, <1>11, <1>12, <1>13,
     <1>14, <1>15, <1>16, <1>17 DEF Next, Run

\* A step that a resumed import skips has its data in the database, of an edition no
\* older than the last forced restart, whatever interrupted the runs before it; but
\* for files that were cut off or could not be deleted (steps_to_run and
\* save_completed_step of full_import.py, _clear_cache of monthly_full_resync.py).
THEOREM CheckpointSoundCorrect == Spec => []CheckpointSound
<1>1. Base /\ TablesSound => CheckpointSound
  <2> SUFFICES ASSUME Base, TablesSound, NEW s \in Promised
               PROVE  loaded[s] >= base \/ s \in cut \cup Undeletable
    BY DEF CheckpointSound
  <2>1. Completed = CompletedAt(checkpoint)
    BY DEF Completed, CompletedAt, steps_to_run
  <2>2. s \in Tables(CompletedAt(checkpoint))
    BY <2>1, Files DEF Promised, Tables
  <2> QED
    BY <2>2 DEF TablesSound, Sound
<1>2. Init => Base /\ FilesCurrent /\ TablesSound
  BY BaseInit, FilesInit, TablesInit
<1>3. Base /\ FilesCurrent /\ TablesSound /\ [Next]_vars
        => Base' /\ FilesCurrent' /\ TablesSound'
  BY BaseStep, FilesStep, TablesStep
<1> QED
  BY <1>1, <1>2, <1>3, PTL DEF Spec

-----------------------------------------------------------------------------
(* Resync: it starts from an empty cache, so it reads only what it has       *)
(* downloaded to the end, and its checkpoint stands for its own steps.       *)

ResyncCurrent ==
  job.kind = "resync" /\ job.pc # "clear" =>
    /\ \A f \in File \ Undeletable :
         \/ cache[f].content \in {"none", "whole"}
         \/ job.pc \in {"connect", "download"} /\ f = Reading
    /\ \A s \in Tables(CompletedAt(checkpoint)) : Fresh(s)
    /\ job.pc = "save" => \A s \in Tables({Head(job.queue)}) : Fresh(s)

LEMMA ResyncInit == Init => ResyncCurrent
BY IdleFields DEF Init, ResyncCurrent

LEMMA ResyncStep ==
  Base /\ FilesCurrent /\ ResyncCurrent /\ [Next]_vars => ResyncCurrent'
<1> SUFFICES ASSUME Base, FilesCurrent, ResyncCurrent, [Next]_vars PROVE ResyncCurrent'
  OBVIOUS
<1>0. TypeOK /\ Control
  BY DEF Base
<1>a. ASSUME job'.kind = "import" PROVE ResyncCurrent'
  BY <1>a DEF ResyncCurrent
<1>b. ASSUME UNCHANGED <<cache, loaded, checkpoint, base, cut>>,
             job.pc \notin {"clear", "connect", "download"}, job'.kind = job.kind,
             job'.pc = "save" => Tables({Head(job'.queue)}) = {}
      PROVE  ResyncCurrent'
  BY <1>b DEF ResyncCurrent, Fresh
<1>1. CASE Publish
  BY <1>1 DEF Publish, ResyncCurrent, Fresh, Reading
<1>2. CASE StartImport
  BY <1>a, <1>2 DEF StartImport, Idle
<1>3. CASE StartResync
  <2>1. job'.pc = "clear"
    BY <1>3 DEF StartResync, Idle
  <2> QED
    BY <2>1 DEF ResyncCurrent
<1>4. CASE ClearProgress
  <2>1. \A f \in File \ Undeletable : cache'[f].content = "none"
    BY <1>4, Typed DEF ClearProgress, FilesCurrent
  <2>2. checkpoint' = None /\ job'.pc = "next"
    BY <1>4, Typed DEF ClearProgress
  <2> QED
    BY <2>1, <2>2, NothingCompleted, TablesOf DEF ResyncCurrent
<1>5. CASE Proceed
  <2>1. job'.kind = job.kind /\ job'.pc # "save"
    BY <1>5, Typed DEF Proceed
  <2> QED
    BY <1>b, <1>5, <2>1 DEF Proceed
<1>6. CASE OpenFile
  <2>1. job'.kind = job.kind /\ job'.pc = "download" /\ Reading' = Reading
    BY <1>6, Typed DEF OpenFile, Reading
  <2>2. \A f \in File : f # Reading => cache'[f] = cache[f]
    BY <1>0, <1>6 DEF OpenFile, TypeOK
  <2>3. job.pc = "connect" /\ UNCHANGED <<loaded, checkpoint, base, cut>>
    BY <1>6 DEF OpenFile
  <2> QED
    BY <2>1, <2>2, <2>3 DEF ResyncCurrent, Fresh
<1>7. CASE EndDownload
  <2>1. job'.kind = job.kind /\ job'.pc = "load"
    BY <1>7, Typed DEF EndDownload
  <2>2. /\ \A f \in File : f # Reading => cache'[f] = cache[f]
        /\ Reading \in File => cache'[Reading].content = "whole"
    BY <1>0, <1>7 DEF EndDownload, TypeOK, CachedFile
  <2>3. job.pc = "download" /\ UNCHANGED <<loaded, checkpoint, base, cut>>
    BY <1>7 DEF EndDownload
  <2> QED
    BY <2>1, <2>2, <2>3 DEF ResyncCurrent, Fresh
<1>8. CASE BuildPointLookup
  <2>1. /\ job'.kind = job.kind /\ job'.queue = job.queue
        /\ job'.pc = IF Head(job.queue) = "points" THEN "save" ELSE "next"
    BY <1>8, Typed DEF BuildPointLookup
  <2>2. job'.pc = "save" => Tables({Head(job'.queue)}) = {}
    BY <2>1, TablesOf
  <2> QED
    BY <1>b, <1>8, <2>1, <2>2 DEF BuildPointLookup
<1>9. ASSUME NEW s \in File, LoadStep(s) PROVE ResyncCurrent'
  <2> SUFFICES ASSUME job'.kind = "resync", job'.pc # "clear" PROVE ResyncCurrent'
    BY DEF ResyncCurrent
  <2>1. /\ job.kind = "resync" /\ job.pc = "load" /\ job'.queue = job.queue
        /\ Head(job.queue) = s /\ checkpoint' = checkpoint /\ cache' = cache
    BY <1>9, LoadOutcome, Typed DEF LoadStep
  <2>2. /\ \A f \in File \ Undeletable : cache[f].content \in {"none", "whole"}
        /\ \A t \in Tables(CompletedAt(checkpoint)) : Fresh(t)
    BY <2>1 DEF ResyncCurrent
  <2>3. Fresh(s)' /\ (s = "addresses" => Fresh("points")')
    BY <1>9, <2>2, LoadOutcome DEF Fresh
  <2>4. ASSUME NEW t \in File, Fresh(t) PROVE Fresh(t)'
    <3>1. CASE t = s
      BY <2>3, <3>1
    <3>2. CASE t = "points" /\ s = "addresses"
      BY <2>3, <3>2
    <3>3. CASE t # s /\ (t = "points" => s # "addresses")
      BY <1>9, <2>4, <3>3, LoadOutcome DEF Fresh
    <3> QED
      BY <3>1, <3>2, <3>3
  <2>5. \A t \in Tables({Head(job'.queue)}) : Fresh(t)'
    BY <2>1, <2>3, TablesOf
  <2>6. \A t \in Tables(CompletedAt(checkpoint')) : Fresh(t)'
    BY <2>1, <2>2, <2>4, TablesOf, CompletedIsStep
  <2> QED
    BY <2>1, <2>2, <2>5, <2>6 DEF ResyncCurrent
<1>10. CASE LoadFails
  BY <1>a, <1>10, IdleFields DEF LoadFails
<1>11. CASE SaveHeadCid
  <2>1. job'.kind = job.kind /\ job'.queue = job.queue /\ Head(job.queue) = "cid"
    BY <1>11, Typed DEF SaveHeadCid, Reading
  <2> QED
    BY <1>b, <1>11, <2>1, TablesOf DEF SaveHeadCid
<1>12. CASE SaveStep
  <2>1. job.queue = StepsAfter(checkpoint) /\ job.queue # <<>> /\ job.pc = "save"
    BY <1>0, <1>12 DEF SaveStep, Control
  <2>2. /\ Head(job.queue) \in Step
        /\ CompletedAt(checkpoint') = CompletedAt(checkpoint) \cup {Head(job.queue)}
    BY <1>0, <1>12, <2>1, StepsLeft DEF TypeOK, SaveStep
  <2>3. Tables(CompletedAt(checkpoint')) =
          Tables(CompletedAt(checkpoint)) \cup Tables({Head(job.queue)})
    BY <2>2, TablesOf, CompletedIsStep
  <2>4. job'.kind = job.kind /\ job'.pc = "next" /\ UNCHANGED <<cache, loaded, base, cut>>
    BY <1>12, Typed DEF SaveStep
  <2> QED
    BY <2>1, <2>3, <2>4 DEF ResyncCurrent, Fresh
<1>13. CASE EndImport
  <2>1. CASE job.kind = "resync"
    <3>1. job'.kind = job.kind /\ job'.pc = "mark"
      BY <1>13, <2>1, Typed DEF EndImport
    <3> QED
      BY <1>b, <1>13, <3>1 DEF EndImport
  <2>2. CASE job.kind # "resync"
    BY <1>a, <1>13, <2>2, IdleFields DEF EndImport
  <2> QED
    BY <2>1, <2>2
<1>14. CASE MarkDeleted
  BY <1>a, <1>14, IdleFields DEF MarkDeleted
<1>15. CASE AttemptFails
  <2> DEFINE to == IF Reading = "cid" THEN "load" ELSE "connect"
  <2>1. \/ job' = Idle
        \/ job' = [job EXCEPT !.attempt = @ + 1, !.pc = to]
    BY <1>15 DEF AttemptFails
  <2>2. CASE job' = Idle
    BY <1>a, <2>2, IdleFields
  <2>3. CASE job' = [job EXCEPT !.attempt = @ + 1, !.pc = to]
    <3>1. /\ job'.kind = job.kind /\ job'.pc = to /\ job'.queue = job.queue
          /\ job'.points = job.points
      BY <2>3, Typed
    <3>2. Reading' = Reading
      BY <3>1 DEF Reading
    <3>3. \/ job.pc \in {"connect", "download"} /\ Reading \in File
          \/ job.pc = "load" /\ Reading = "cid"
      BY <1>0, <1>15 DEF AttemptFails, Control
    <3>4. UNCHANGED <<cache, loaded, checkpoint, base, cut>>
      BY <1>15 DEF AttemptFails
    <3> QED
      BY <3>1, <3>2, <3>3, <3>4, Files DEF ResyncCurrent, Fresh
  <2> QED
    BY <2>1, <2>2, <2>3
<1>16. CASE Crash
  BY <1>a, <1>16, IdleFields DEF Crash
<1>17. CASE UNCHANGED vars
  BY <1>17 DEF vars, ResyncCurrent, Fresh, Reading
<1> QED
  BY <1>1, <1>2, <1>3, <1>4, <1>5, <1>6, <1>7, <1>8, <1>9, <1>10, <1>11, <1>12, <1>13,
     <1>14, <1>15, <1>16, <1>17 DEF Next, Run

\* The resync deletes by comparison with a whole address file that is not older than
\* its start, whatever earlier runs left in the cache and in the checkpoint
\* (_clear_cache, clear_import_progress, full_import, _mark_deleted of
\* monthly_full_resync.py, in this order).
THEOREM MarkSafeCorrect == Spec => MarkSafe
<1>1. ASSUME Base, ResyncCurrent, MarkDeleted
      PROVE  /\ "addresses" \notin cut \/ "addresses" \in Undeletable
             /\ \A s \in File \ Undeletable : loaded[s] >= base
  <2>1. job.kind = "resync" /\ job.pc = "mark" /\ StepsAfter(checkpoint) = <<>>
    BY <1>1 DEF MarkDeleted, Base, Control
  <2>2. Tables(CompletedAt(checkpoint)) = File
    BY <1>1, <2>1, StepsLeft, TablesOf DEF Base, TypeOK
  <2>3. \A s \in File : Fresh(s)
    BY <1>1, <2>1, <2>2 DEF ResyncCurrent
  <2> QED
    BY <2>3, Files DEF Fresh
<1>2. Init => Base /\ FilesCurrent /\ ResyncCurrent
  BY BaseInit, FilesInit, ResyncInit
<1>3. Base /\ FilesCurrent /\ ResyncCurrent /\ [Next]_vars
        => Base' /\ FilesCurrent' /\ ResyncCurrent'
  BY BaseStep, FilesStep, ResyncStep
<1>4. Base /\ ResyncCurrent /\ [Next]_vars =>
        [MarkDeleted => /\ "addresses" \notin cut \/ "addresses" \in Undeletable
                        /\ \A s \in File \ Undeletable : loaded[s] >= base]_vars
  BY <1>1
<1> QED
  BY <1>2, <1>3, <1>4, PTL DEF Spec, MarkSafe

-----------------------------------------------------------------------------
(* Rows: a mapper catches what a bad cell of a whole row raises              *)

\* A set of positions has a least one.
LEMMA MinIn ==
  ASSUME NEW S \in SUBSET Nat, S # {}
  PROVE  Min(S) \in S
<1> DEFINE Below == OpToRel(<, Nat)
<1>1. IsWellFoundedOn(Below, Nat)
  BY NatLessThanWellFounded
<1>2. PICK x \in S : \A y \in S : ~ <<y, x>> \in Below
  <2> HIDE DEF Below
  <2> QED
    BY <1>1, WFMin
<1>3. \A y \in S : ~ y < x
  BY <1>2 DEF OpToRel
<1>4. x \in Nat /\ \A y \in S : x =< y
  BY <1>3
<1> QED
  BY <1>4 DEF Min

\* A cell that is there raises nothing but what _safe_map catches.
LEMMA CellErrors ==
  ASSUME NEW how, NEW cell \in Cell \ {"short"}
  PROVE  Error(how, cell) \in {"KeyError", "ValueError", "skip", "none"}
BY DEF Error, Cell

LEMMA RowsNotAborted ==
  ASSUME NEW t \in CsvTable, NEW row \in [Columns(t) -> Cell \ {"short"}]
  PROVE  RowOutcome(t, row) # "aborts"
<1> DEFINE Raised(i) == Error(Reads[t][i].how, row[Reads[t][i].column])
           failing == {i \in DOMAIN Reads[t] : Raised(i) # "none"}
<1>1. \A i \in DOMAIN Reads[t] : row[Reads[t][i].column] \in Cell \ {"short"}
  BY DEF Columns
<1>2. \A i \in DOMAIN Reads[t] : Raised(i) \in {"KeyError", "ValueError", "skip", "none"}
  BY <1>1, CellErrors
<1>3. DOMAIN Reads[t] \subseteq Nat
  <2>1. t \in {"counties", "municipalities", "localities", "streets", "addresses"}
    BY DEF CsvTable, Reads
  <2>2. /\ DOMAIN Reads["counties"] = 1..2
        /\ DOMAIN Reads["municipalities"] = 1..4
        /\ DOMAIN Reads["localities"] = 1..6
        /\ DOMAIN Reads["streets"] = 1..4
        /\ DOMAIN Reads["addresses"] = 1..7
    BY DEF Reads
  <2> QED
    BY <2>1, <2>2
<1>4. ~ \E i \in DOMAIN Reads[t] :
          Reads[t][i].how = "text" /\ row[Reads[t][i].column] = "short"
  BY <1>1
<1>5. failing # {} => Raised(Min(failing)) \in Caught \cup {"skip"}
  <2>1. failing \in SUBSET Nat
    BY <1>3
  <2>2. failing # {} => Min(failing) \in failing
    <3> HIDE DEF failing
    <3> QED
      BY <2>1, MinIn
  <2> QED
    BY <1>2, <2>2 DEF Caught
<1> QED
  BY <1>4, <1>5 DEF RowOutcome

\* A bad row does not abort an import: whatever stands in the cells of a row that has
\* all its columns, or in the codes of a feature, it is written or skipped
\* (address_mapper.py, _import_addresses, _build_point_lookup).
THEOREM BadRowsSkippedCorrect == Spec => []BadRowsSkipped
<1>1. ASSUME NEW t \in CsvTable PROVE "aborts" \notin CsvOutcomes[t]
  <2>1. CsvOutcomes[t] = {RowOutcome(t, row) : row \in [Columns(t) -> Cell \ {"short"}]}
    BY DEF CsvOutcomes, RowsOf
  <2> QED
    BY <2>1, RowsNotAborted
<1>2. "aborts" \notin GeometryOutcomes
  BY DEF GeometryOutcomes, GeometryOutcome, FeatureError, Properties, Cell, Caught
<1>3. "aborts" \notin PointOutcomes
  BY DEF PointOutcomes, PointOutcome, Properties, Cell
<1>4. \A f \in File : "aborts" \notin Outcomes[f]
  BY <1>1, <1>2, <1>3 DEF Outcomes
<1>5. BadRowsSkipped
  BY <1>4 DEF BadRowsSkipped
<1> QED
  BY <1>5, PTL
=============================================================================
