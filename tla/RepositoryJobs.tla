--------------------------- MODULE RepositoryJobs ---------------------------
(***************************************************************************)
(* The imports and source indexes of one repository (services/repository.py,  *)
(* services/index.py, jobs/import_repository.py, jobs/index_repository.py).   *)
(* An import copies one commit; an index is built from the files of the       *)
(* completed import and stays readable while a newer one is prepared.         *)
(***************************************************************************)
EXTENDS JobLeases

CONSTANTS Commits,     \* commits the GitHub branch may point at
          MaxRelease   \* model bound: pipeline versions ever deployed

Kinds == {"import", "index"}
NoCommit == "no commit"

ASSUME CommitsAssumption == NoCommit \notin Commits /\ MaxRelease \in Nat

VARIABLES
  repository,  \* "none", "live" or "deleted"
  commit,      \* repositories.last_commit_sha
  kind,        \* table of each job
  source,      \* repository_indexes.import_job_id
  pinned,      \* repository_indexes.commit_sha
  version,     \* repository_indexes.pipeline_version
  release,     \* PIPELINE_VERSION of the API
  rows,        \* files, or symbols and chunks, of a job: who wrote them, from what
  found        \* worker's local: the commits its fetched or loaded data is of

jobVars == <<repository, commit, kind, source, pinned, version, release, rows, found>>
vars == <<leaseVars, jobVars>>

Init ==
  /\ InitLeases
  /\ repository = "none" /\ commit = NoCommit
  /\ kind = [j \in Jobs |-> "import"]
  /\ source = [j \in Jobs |-> NoJob]
  /\ pinned = [j \in Jobs |-> NoCommit]
  /\ version = [j \in Jobs |-> 0]
  /\ release = 1
  /\ rows = [j \in Jobs |-> {}]
  /\ found = [w \in Workers |-> {}]

Table(k) == {j \in 1..inserted : kind[j] = k}
Import == {j \in current : kind[j] = "import"}
Latest(s) == {j \in current : kind[j] = "index" /\ source[j] = s}

(* Mutant: readers follow the latest index, completed or not.               *)
CompletedLatest ==
  {j \in current : kind[j] = "index" /\ status[j] = "completed" /\ source[j] \in Import}

CompletedIndexes == {j \in Table("index") : status[j] = "completed" /\ source[j] \in Import}

(* IndexStore.active: the newest completed index of the current import.      *)
ActiveIndex == {j \in CompletedIndexes : \A i \in CompletedIndexes : i <= j}

-----------------------------------------------------------------------------
(* Requests.                                                               *)

Connect ==
  /\ repository = "none"
  /\ Insert({})
  /\ repository' = "live"
  /\ UNCHANGED <<commit, kind, source, pinned, version, release, rows, found>>

(* Mutant: a completed import may be repeated.                              *)
RetryAnyImport(j) ==
  /\ j \in Import /\ status[j] \in Terminal
  /\ Insert({j})
  /\ UNCHANGED jobVars

RetryImport(j) ==
  /\ j \in Import
  /\ status[j] \in {"failed", "cancelled"}
  /\ Insert({j})
  /\ UNCHANGED jobVars

CancelImport(j) ==
  /\ j \in Import
  /\ status[j] \in Active
  /\ CancelJobs({j})
  /\ UNCHANGED jobVars

(* The cascade reaches jobs, files, symbols and chunks.                     *)
RemoveRepository ==
  /\ repository = "live"
  /\ DeleteAll
  /\ repository' = "deleted"
  /\ rows' = [j \in Jobs |-> {}]
  /\ UNCHANGED <<commit, kind, source, pinned, version, release, found>>

(* Mutant: a running index may be superseded.                               *)
SupersedableEarly(j) == TRUE

(* The latest index is replaced once it ended, unless it is up to date.       *)
Supersedable(j) ==
  /\ status[j] \notin Active
  /\ ~(status[j] = "completed" /\ version[j] = release)

StartIndex(s) ==
  LET i == inserted + 1 IN
  /\ s \in Import
  /\ status[s] = "completed" /\ commit # NoCommit
  /\ \A j \in Latest(s) : Supersedable(j)
  /\ Insert(Latest(s))
  /\ kind' = [kind EXCEPT ![i] = "index"]
  /\ source' = [source EXCEPT ![i] = s]
  /\ pinned' = [pinned EXCEPT ![i] = commit]
  /\ version' = [version EXCEPT ![i] = release]
  /\ UNCHANGED <<repository, commit, release, rows, found>>

CancelIndex(s) ==
  /\ s \in Import
  /\ \E j \in Latest(s) : status[j] \in Active
  /\ CancelJobs(Latest(s))
  /\ UNCHANGED jobVars

(* A new application image with another pipeline.                           *)
Upgrade ==
  /\ release < MaxRelease
  /\ release' = release + 1
  /\ UNCHANGED <<leaseVars, repository, commit, kind, source, pinned, version, rows, found>>

Requests ==
  \/ Connect \/ RemoveRepository \/ Upgrade
  \/ \E j \in Jobs : RetryImport(j) \/ CancelImport(j) \/ StartIndex(j) \/ CancelIndex(j)

-----------------------------------------------------------------------------
(* A worker's attempt.                                                     *)

Working == {"started", "resolved", "downloading", "validating", "loaded", "parsing", "storing"}

NextStage ==
  [resolved |-> "downloading", downloading |-> "validating", validating |-> "storing",
   loaded |-> "parsing", parsing |-> "storing"]

(* github.resolve: the commit the branch points at now.                     *)
Resolve(w) ==
  /\ task[w].pc = "started" /\ kind[task[w].job] = "import"
  /\ \E c \in Commits : found' = [found EXCEPT ![w] = {c}]
  /\ Proceed(w, "resolved")
  /\ UNCHANGED <<repository, commit, kind, source, pinned, version, release, rows>>

(* The job's row, and the files of its import; the image of this worker may   *)
(* be older or newer than the one that accepted the job.                    *)
Load(w) ==
  LET j == task[w].job IN
  /\ task[w].pc = "started" /\ kind[j] = "index"
  /\ \/ /\ status[j] = "deleted"
        /\ GiveUp(w) /\ UNCHANGED found
     \/ /\ status[j] # "deleted"
        /\ found' = [found EXCEPT ![w] = {r.commit : r \in rows[source[j]]}]
        /\ \E v \in 1..MaxRelease : Proceed(w, IF v = version[j] THEN "loaded" ELSE "failing")
  /\ UNCHANGED <<repository, commit, kind, source, pinned, version, release, rows>>

(* report_stage                                                            *)
ReportStage(w) ==
  /\ task[w].pc \in DOMAIN NextStage
  /\ \/ Held(w) /\ Proceed(w, NextStage[task[w].pc])
     \/ ~Held(w) /\ GiveUp(w)
  /\ UNCHANGED jobVars

(* Mutant: the result is stored whoever holds the job now.                  *)
PublishUnfenced(w) ==
  LET j == task[w].job IN
  /\ task[w].pc = "storing"
  /\ Finish(w, "completed")
  /\ rows' = [rows EXCEPT ![j] = @ \cup [by : {task[w].token}, commit : found[w]]]
  /\ IF kind[j] = "import" THEN commit' \in found[w] ELSE UNCHANGED commit
  /\ UNCHANGED <<repository, kind, source, pinned, version, release, found>>

(* publish_result and publish_index: fence, rows, and for an import the       *)
(* repository's commit, in one transaction.                                 *)
Publish(w) ==
  LET j == task[w].job IN
  /\ task[w].pc = "storing"
  /\ \/ /\ Held(w)
        /\ Finish(w, "completed")
        /\ rows' = [rows EXCEPT ![j] = @ \cup [by : {task[w].token}, commit : found[w]]]
        /\ IF kind[j] = "import" THEN commit' \in found[w] ELSE UNCHANGED commit
     \/ ~Held(w) /\ GiveUp(w) /\ UNCHANGED <<rows, commit>>
  /\ UNCHANGED <<repository, kind, source, pinned, version, release, found>>

(* A timeout, a provider failure, an invalid archive or a parser error; only  *)
(* some failures of an import may be retried.                               *)
Raise(w) ==
  /\ task[w].pc \in Working
  /\ \/ Proceed(w, "failing")
     \/ kind[task[w].job] = "import" /\ Proceed(w, "retryable")
  /\ UNCHANGED jobVars

(* Mutant: one attempt too many.                                            *)
RetryOnceMore(w) == task[w].pc = "retryable" /\ task[w].attempt <= MaxAttempts

Retry(w) == task[w].pc = "retryable" /\ task[w].attempt < MaxAttempts

(* record_failure, and the end of run_index.                                *)
RecordFailure(w) ==
  LET j == task[w].job IN
  /\ task[w].pc \in {"failing", "retryable"}
  /\ \/ /\ Held(w)
        /\ SetStatus({j}, IF Retry(w) THEN "queued" ELSE "failed")
        /\ waiting' = IF kind[j] = "import" THEN waiting \cup {j} ELSE waiting
        /\ dispatched' = IF kind[j] = "import" THEN dispatched \ {j} ELSE dispatched
        /\ Return(w)
        /\ UNCHANGED <<inserted, attempts, current, loopVars, lastToken, faults>>
     \/ ~Held(w) /\ GiveUp(w)
  /\ UNCHANGED jobVars

Work(w) == Resolve(w) \/ Load(w) \/ ReportStage(w) \/ Publish(w) \/ RecordFailure(w)

(* The order in which the dispatcher's cycle comes to the tables.            *)
Tables == <<Table("import"), Table("index")>>

Next ==
  \/ Requests
  \/ Scheduling(Tables) /\ UNCHANGED jobVars
  \/ \E w \in Workers : Work(w) \/ Raise(w)

Spec == Init /\ [][Next]_vars

(* Workers, the dispatcher's loop and time go on, a message that is there is  *)
(* delivered again and again; faults and deployments are finitely many.      *)
FairSpec ==
  /\ Spec
  /\ WF_vars(Dispatcher(Tables) /\ UNCHANGED jobVars)
  /\ \A j \in Jobs :
       /\ WF_vars(LeaseExpires(j) /\ UNCHANGED jobVars)
       /\ WF_vars(BackoffEnds(j) /\ UNCHANGED jobVars)
       /\ WF_vars(RedispatchDue(j) /\ UNCHANGED jobVars)
       /\ SF_vars((\E w \in Workers : Deliver(w, j)) /\ UNCHANGED jobVars)
  /\ \A w \in Workers : WF_vars(Work(w) \/ (Claim(w) /\ UNCHANGED jobVars))

-----------------------------------------------------------------------------
TypeOK ==
  /\ LeaseTypeOK
  /\ repository \in {"none", "live", "deleted"}
  /\ commit \in Commits \cup {NoCommit}
  /\ kind \in [Jobs -> Kinds]
  /\ source \in [Jobs -> Jobs \cup {NoJob}]
  /\ pinned \in [Jobs -> Commits \cup {NoCommit}]
  /\ version \in [Jobs -> Nat] /\ release \in Nat
  /\ rows \in [Jobs -> SUBSET [by : Nat, commit : Commits]]
  /\ found \in [Workers -> SUBSET Commits]

(* The rows of a job exist exactly when it completed, and one claim wrote     *)
(* them: a worker that was cancelled, overtaken or whose repository is gone   *)
(* leaves nothing behind.                                                  *)
RowsOfOneClaim ==
  \A j \in Jobs :
    /\ rows[j] # {} <=> status[j] = "completed"
    /\ \A r, s \in rows[j] : r = s

(* Everything derived from a repository is of one commit: the files, the      *)
(* repository's row, what an index says and what it was built from.          *)
OneCommit ==
  repository = "live" =>
    /\ commit # NoCommit <=> \E j \in Import : status[j] = "completed"
    /\ \A j \in Jobs : \A r \in rows[j] : r.commit = commit
    /\ \A j \in Table("index") : pinned[j] = commit /\ source[j] \in Import

(* A live repository has one current import and at most one current index;     *)
(* whatever is still active is current, so no superseded job keeps running.  *)
OneCurrent ==
  /\ repository = "live" => Cardinality(Import) = 1
  /\ Cardinality({j \in current : kind[j] = "index"}) <= 1
  /\ \A j \in Jobs : status[j] \in Active => j \in current

(* ADR 0004: once an index is readable there is always one to read, and it     *)
(* only moves to a newer one, until the repository is removed.               *)
ReadersKeepAnIndex ==
  [][repository' = "live" /\ ActiveIndex # {} =>
       \E new \in ActiveIndex' : \A old \in ActiveIndex : old <= new]_vars

Lifecycle == INSTANCE JobLifecycle WITH
  phase <- status, tries <- attempts, MaxTries <- MaxAttempts, Resumable <- FALSE,
  results <- {j \in Jobs : rows[j] # {}}

(* Imports and indexes are tried a bounded number of times, publish when they *)
(* complete and never leave a final status.                                *)
ImplementsJobLifecycle == Lifecycle!Spec

(* Every accepted job ends, whatever its workers and the broker do.          *)
JobsTerminate == \A j \in Jobs : status[j] \in Active ~> status[j] \notin Active

=============================================================================
