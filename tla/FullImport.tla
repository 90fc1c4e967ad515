----------------------------- MODULE FullImport -----------------------------
(***************************************************************************)
(* The full import of the register (etl/tasks/full_import.py) with its     *)
(* checkpoint (etl/state_db.py), its cached files (etl/downloaders,        *)
(* etl/utils/download.py) and its retries (etl/utils/retry.py), and the    *)
(* monthly resync (etl/tasks/monthly_full_resync.py), which clears the     *)
(* cache, forces an import and marks what it did not see.                  *)
(*                                                                         *)
(* The register publishes editions of its files; a table holds an edition  *)
(* once every row of a file of it was written.  One import runs at a time: *)
(* nothing enforces it, but cron starts only the monthly one.              *)
(***************************************************************************)
EXTENDS RegisterRows

CONSTANTS MaxEdition,  \* editions the register publishes (bound)
          MaxFailures, \* failed or interrupted downloads and runs (bound)
          MaxRetries,  \* attempts of a download or a request
          Undeletable, \* files that unlink may fail for (bound)
          None         \* no checkpoint

VARIABLES edition,    \* the edition the register publishes
          cache,      \* the files in the cache directory
          loaded,     \* the edition each table holds, 0 for none
          checkpoint, \* etl_state: full_import_step
          job,        \* the local state of the running import
          base,       \* history: the edition when the checkpoint was cleared
          cut,        \* history: tables last loaded from a file that was cut off
          failures    \* how often something failed

vars == <<edition, cache, loaded, checkpoint, job, base, cut, failures>>

-----------------------------------------------------------------------------
(* Steps and files *)

IMPORT_STEPS == <<"counties", "municipalities", "localities", "streets", "points",
                  "addresses", "boundaries", "axes", "cid">>
Step == ToSet(IMPORT_STEPS)

\* Each step but the last reads a file; what "points" reads becomes the column
\* point of addresses.
File == Step \ {"cid"}

\* The steps after the last completed one, in order.
StepsAfter(done) ==
  SubSeq(IMPORT_STEPS, SelectInSeq(IMPORT_STEPS, LAMBDA s : s = done) + 1, Len(IMPORT_STEPS))

\* Mutant: the step after the last completed one is skipped.
StepsAfterNext(done) ==
  IF done \in {None, "cid"} THEN StepsAfter(done) ELSE Tail(StepsAfter(done))

steps_to_run(done) == StepsAfter(done)

\* The tables a row of a table refers to.
Parents(s) ==
  CASE s = "municipalities" -> {"counties"}
    [] s = "localities" -> {"municipalities"}
    [] s = "streets" -> {"localities"}
    [] s = "addresses" -> {"localities", "streets"}
    [] OTHER -> {}

Edition == 1..MaxEdition

\* A file that was cut off is "ragged" if reading it fails and "short" if it just
\* has fewer rows; a ZIP without its directory and a JSON array without its end
\* can not be read.
CachedFile == [edition: 0..MaxEdition, content: {"none", "whole", "short", "ragged"}]
NoFile == [edition |-> 0, content |-> "none"]

CutContents ==
  [f \in File |->
     IF f \in CsvTable
     THEN {IF outcome = "aborts" THEN "ragged" ELSE "short" : outcome \in ReadsOfCut(f)}
     ELSE {"ragged"}]

\* queue: the steps still to run; points: the edition of the lookup in memory, 0
\* if it is not built; attempt: failed attempts of the running operation.
Job == [pc: {"idle", "clear", "next", "connect", "download", "load", "save", "mark"},
        kind: {"import", "resync"}, queue: Seq(Step), points: 0..MaxEdition,
        attempt: 0..MaxRetries - 1]

Idle == [pc |-> "idle", kind |-> "import", queue |-> <<>>, points |-> 0, attempt |-> 0]

ASSUME BoundsAssumption ==
  MaxEdition \in Nat \ {0} /\ MaxFailures \in Nat /\ MaxRetries \in Nat \ {0}
ASSUME UndeletableAssumption == Undeletable \subseteq File
ASSUME NoneAssumption == None \notin Step

TypeOK ==
  /\ edition \in Edition
  /\ cache \in [File -> CachedFile]
  /\ loaded \in [File -> 0..MaxEdition]
  /\ checkpoint \in Step \cup {None}
  /\ job \in Job
  /\ base \in Edition
  /\ cut \subseteq File
  /\ failures \in 0..MaxFailures

Init ==
  /\ edition = 1
  /\ cache = [f \in File |-> NoFile]
  /\ loaded = [f \in File |-> 0]
  /\ checkpoint = None
  /\ job = Idle
  /\ base = 1
  /\ cut = {}
  /\ failures = 0

Publish ==
  /\ edition < MaxEdition
  /\ edition' = edition + 1
  /\ UNCHANGED <<cache, loaded, checkpoint, job, base, cut, failures>>

-----------------------------------------------------------------------------
(* Start *)

\* full_import: a resumed one, or one that has nothing left to do.
StartImport ==
  /\ job.pc = "idle"
  /\ steps_to_run(checkpoint) # <<>>
  /\ job' = [Idle EXCEPT !.pc = "next", !.queue = steps_to_run(checkpoint)]
  /\ UNCHANGED <<edition, cache, loaded, checkpoint, base, cut, failures>>

\* Mutant: the pattern adr_*.zip is forgotten.
CachedCsvJson == File \ {"points"}

\* _CACHE_PATTERNS
Cached == File

\* _clear_cache: an unlink that fails is logged.
StartResync ==
  /\ job.pc = "idle"
  /\ \E kept \in SUBSET Undeletable :
       cache' = [f \in File |-> IF f \in Cached \ kept THEN NoFile ELSE cache[f]]
  /\ job' = [Idle EXCEPT !.pc = "clear", !.kind = "resync"]
  /\ UNCHANGED <<edition, loaded, checkpoint, base, cut, failures>>

\* clear_import_progress, committed; then get_completed_step.
ClearProgress ==
  /\ job.pc = "clear"
  /\ checkpoint' = None
  /\ base' = edition
  /\ job' = [job EXCEPT !.pc = "next", !.queue = steps_to_run(None)]
  /\ UNCHANGED <<edition, cache, loaded, cut, failures>>

-----------------------------------------------------------------------------
(* Downloads and retries *)

\* Mutant: the lookup is built only in its own step.
ReadingInOrder == Head(job.queue)

\* needs_point_lookup: the lookup is not kept, so that addresses rebuild it.
Reading ==
  IF Head(job.queue) = "addresses" /\ job.points = 0 THEN "points" ELSE Head(job.queue)

\* A file in the cache is taken as it is.
Proceed ==
  /\ job.pc = "next"
  /\ job.queue # <<>>
  /\ job' = [job EXCEPT !.attempt = 0, !.pc =
       IF Reading \in File /\ cache[Reading].content = "none" THEN "connect" ELSE "load"]
  /\ UNCHANGED <<edition, cache, loaded, checkpoint, base, cut, failures>>

\* The response is there: the file is opened for writing, and up to its last
\* chunk it is one that was cut off.
OpenFile ==
  /\ job.pc = "connect"
  /\ \E content \in CutContents[Reading] :
       cache' = [cache EXCEPT ![Reading] = [edition |-> edition, content |-> content]]
  /\ job' = [job EXCEPT !.pc = "download"]
  /\ UNCHANGED <<edition, loaded, checkpoint, base, cut, failures>>

EndDownload ==
  /\ job.pc = "download"
  /\ cache' = [cache EXCEPT ![Reading].content = "whole"]
  /\ job' = [job EXCEPT !.pc = "load", !.attempt = 0]
  /\ UNCHANGED <<edition, loaded, checkpoint, base, cut, failures>>

Fail ==
  /\ failures < MaxFailures
  /\ failures' = failures + 1

\* A timeout (or an error of reading or of the protocol), a status of 400 or more, a
\* CancelledError though nobody cancelled the task, one of a cancelled task, others.
Failure == {"timeout", "status", "dropped", "cancelled", "other"}

\* _RETRYABLE of the client of the change streams and _RETRYABLE_DOWNLOAD.
Retryable ==
  IF Reading = "cid" THEN {"timeout", "status", "dropped", "cancelled"} ELSE {"timeout"}

\* Mutant: one attempt too many.
RetriedOften(failure) ==
  failure \in Retryable \ {"cancelled"} /\ job.attempt < MaxRetries

\* with_exponential_backoff
Retried(failure) ==
  failure \in Retryable \ {"cancelled"} /\ job.attempt < MaxRetries - 1

\* The file stays behind, whatever was written of it.
AttemptFails ==
  /\ job.pc \in {"connect", "download"} \/ (job.pc = "load" /\ Reading = "cid")
  /\ Fail
  /\ \E failure \in Failure :
       IF ~ Retried(failure) THEN job' = Idle
       ELSE job' = [job EXCEPT !.attempt = @ + 1,
                               !.pc = IF Reading = "cid" THEN "load" ELSE "connect"]
  /\ UNCHANGED <<edition, cache, loaded, checkpoint, base, cut>>

-----------------------------------------------------------------------------
(* Steps *)

\* Reading a ragged file raises, whatever its format; the batches before the end
\* are committed.  A short file ends like a whole one.
Readable == cache[Reading].content # "ragged"

\* _build_point_lookup
BuildPointLookup ==
  /\ job.pc = "load"
  /\ Reading = "points"
  /\ Readable
  /\ job' = [job EXCEPT !.points = cache["points"].edition,
                        !.pc = IF Head(job.queue) = "points" THEN "save" ELSE "next"]
  /\ UNCHANGED <<edition, cache, loaded, checkpoint, base, cut, failures>>

\* The tables a step completes: addresses take their points from the lookup.
Loaded(s) ==
  [f \in File |->
     IF f = s THEN cache[s].edition
     ELSE IF s = "addresses" /\ f = "points" THEN job.points
     ELSE loaded[f]]

\* upsert_all over the mapped rows of a csv file, update_geometries over the
\* features of a GeoJSON file, whose localities and streets are there.
LoadStep(s) ==
  /\ job.pc = "load"
  /\ Reading = s
  /\ s \in File \ {"points"}
  /\ Readable
  /\ \/ /\ cache[s].content = "whole"
        /\ loaded' = Loaded(s)
        /\ cut' = cut \ {s}
     \/ /\ cache[s].content = "short"
        /\ loaded' = [Loaded(s) EXCEPT ![s] = loaded[s]]
        /\ cut' = cut \cup {s}
  /\ job' = [job EXCEPT !.pc = "save"]
  /\ UNCHANGED <<edition, cache, checkpoint, base, failures>>

\* A ragged file, or a row whose locality, street, municipality or county no file
\* of its edition has brought.
LoadFails ==
  /\ job.pc = "load"
  /\ Reading \in File
  /\ ~ Readable \/ \E f \in Parents(Reading) : loaded[f] < cache[Reading].edition
  /\ job' = Idle
  /\ UNCHANGED <<edition, cache, loaded, checkpoint, base, cut, failures>>

\* _save_head_cid; module RegisterSync has what becomes of the cursor.
SaveHeadCid ==
  /\ job.pc = "load"
  /\ Reading = "cid"
  /\ job' = [job EXCEPT !.pc = "save"]
  /\ UNCHANGED <<edition, cache, loaded, checkpoint, base, cut, failures>>

\* save_completed_step, a COMMIT of its own.
SaveStep ==
  /\ job.pc = "save"
  /\ checkpoint' = Head(job.queue)
  /\ job' = [job EXCEPT !.pc = "next", !.queue = Tail(@)]
  /\ UNCHANGED <<edition, cache, loaded, base, cut, failures>>

\* The import ends; the resync goes on to _mark_deleted.
EndImport ==
  /\ job.pc = "next"
  /\ job.queue = <<>>
  /\ job' = IF job.kind = "resync" THEN [job EXCEPT !.pc = "mark"] ELSE Idle
  /\ UNCHANGED <<edition, cache, loaded, checkpoint, base, cut, failures>>

\* Rows not written since sync_start are deleted: of an address file that was
\* cut off, all that the cut took away.
MarkDeleted ==
  /\ job.pc = "mark"
  /\ loaded' = IF "addresses" \in cut THEN [loaded EXCEPT !["addresses"] = 0] ELSE loaded
  /\ job' = Idle
  /\ UNCHANGED <<edition, cache, checkpoint, base, cut, failures>>

\* The process ends, or a statement fails.
Crash ==
  /\ job.pc # "idle"
  /\ Fail
  /\ job' = Idle
  /\ UNCHANGED <<edition, cache, loaded, checkpoint, base, cut>>

-----------------------------------------------------------------------------
Run ==
  \/ ClearProgress
  \/ Proceed
  \/ OpenFile
  \/ EndDownload
  \/ BuildPointLookup
  \/ \E s \in File : LoadStep(s)
  \/ LoadFails
  \/ SaveHeadCid
  \/ SaveStep
  \/ EndImport
  \/ MarkDeleted

Next ==
  \/ Publish
  \/ StartImport
  \/ StartResync
  \/ Run
  \/ AttemptFails
  \/ Crash

Spec == Init /\ [][Next]_vars

\* A started run goes on, and cron starts the resync every month.
Fairness == WF_vars(Run) /\ SF_vars(StartResync)

FairSpec == Spec /\ Fairness

-----------------------------------------------------------------------------
(* Properties *)

Completed == Step \ ToSet(steps_to_run(checkpoint))

\* The tables that must hold their data once the completed steps are skipped.
Promised ==
  IF "addresses" \in Completed THEN Completed \cap File
  ELSE (Completed \cap File) \ {"points"}

\* A step that is skipped on resume has its data in the database, of an edition no
\* older than the last forced restart, the points of the addresses too, although
\* the lookup is lost with the process; except what comes from a file that an
\* interrupted download left behind or that could not be deleted.
CheckpointSound ==
  \A s \in Promised : loaded[s] >= base \/ s \in cut \cup Undeletable

\* A bad row does not abort an import: whatever stands in the cells of a row that
\* has all its columns, or in the codes of a feature, it is written or skipped
\* (address_mapper.py, "All mappers return None on malformed rows").
Outcomes ==
  [f \in File |-> CASE f \in CsvTable -> CsvOutcomes[f]
                    [] f = "points" -> PointOutcomes
                    [] OTHER -> GeometryOutcomes]

BadRowsSkipped ==
  job.pc = "load" /\ Reading \in File /\ Readable => "aborts" \notin Outcomes[Reading]

\* The resync deletes by comparison with a whole address file that is not older
\* than its start, whatever earlier runs left in the cache and in the checkpoint.
MarkSafe ==
  [][MarkDeleted => /\ "addresses" \notin cut \/ "addresses" \in Undeletable
                    /\ \A s \in File \ Undeletable : loaded[s] >= base]_vars

\* However the downloads of earlier runs were interrupted, some month all tables
\* are complete again.
Recovers == []<>(\A s \in File \ Undeletable : loaded[s] # 0 /\ s \notin cut)

\* What the docstring of full_import.py says of a run resumed after a failure:
\* no data is lost.
NoDataLost == checkpoint = "cid" => \A s \in File : loaded[s] # 0
=============================================================================
