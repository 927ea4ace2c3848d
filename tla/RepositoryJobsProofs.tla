------------------------- MODULE RepositoryJobsProofs -------------------------
(* Proofs about RepositoryJobs for every number of workers, commits, jobs,    *)
(* claims, faults and deployments: its invariant, that imports and indexes     *)
(* follow the life cycle of leased jobs, and that readers keep an index.       *)
EXTENDS RepositoryJobs, FiniteSetTheorems, TLAPS

USE DEF Kinds, Active, Terminal, Rows, NoToken, NoJob, Steps

(* Job numbers are natural numbers, and 0 is none of them.                   *)
LEMMA Bounds ==
  /\ MaxJobs \in Nat /\ MaxAttempts \in Nat /\ MaxAttempts > 0 /\ BatchLimit \in Nat
  /\ MaxFaults \in Nat /\ MaxRelease \in Nat /\ NoCommit \notin Commits
  /\ Jobs \subseteq Nat /\ 0 \notin Jobs
  BY JobBounds, CommitsAssumption DEF JobBounds, CommitsAssumption, Jobs

-----------------------------------------------------------------------------
(* What the type invariant and the properties need to be inductive.          *)

(* Rows are numbered in the order of their insertion, and a number that is   *)
(* not used yet has no row.                                                *)
Numbered ==
  /\ \A j \in Jobs : status[j] = "none" <=> j > inserted
  /\ \A j \in Jobs : j > inserted => attempts[j] = 0 /\ kind[j] = "import" /\ j \notin current

(* A job has a token and a lease while it runs, no token is from the future.  *)
Leased ==
  \A j \in Jobs :
    /\ token[j] <= lastToken
    /\ token[j] # NoToken <=> status[j] = "running"
    /\ lease[j] # "none" <=> status[j] = "running"

(* A worker that claimed a job has a token; while the job has the same one,   *)
(* it is the worker's job, in the attempt the worker knows.                  *)
Claims ==
  \A w \in Workers :
    /\ task[w].token <= lastToken
    /\ task[w].token = NoToken <=> task[w].pc \in {"idle", "claim"}
    /\ task[w].pc # "idle" => task[w].job \in Jobs
    /\ \A j \in Jobs : task[w].token # NoToken /\ token[j] = task[w].token
                         => j = task[w].job /\ attempts[j] = task[w].attempt

(* One current job of each kind; what is active or was imported is current.   *)
Currency ==
  /\ \A i, j \in current : kind[i] = kind[j] => i = j
  /\ \A j \in Jobs : status[j] \in Active => j \in current
  /\ \A j \in Jobs : status[j] = "completed" /\ kind[j] = "import" => j \in current
  /\ \A j \in current : status[j] \in Rows

(* A repository has rows while it is live, and then an import.               *)
Ownership ==
  /\ repository = "none" => inserted = 0 /\ commit = NoCommit
  /\ repository # "live" => current = {} /\ \A j \in Jobs : status[j] \notin Rows
  /\ repository = "live" => /\ \E j \in current : kind[j] = "import"
                            /\ \A j \in Jobs : status[j] # "deleted"

(* An index is built from the completed import, whose commit it says.         *)
Sources ==
  \A j \in Jobs : kind[j] = "index" =>
    /\ source[j] \in Jobs
    /\ status[j] \in Rows => /\ source[j] \in current /\ kind[source[j]] = "import"
                             /\ status[source[j]] = "completed" /\ pinned[j] = commit

(* The repository's row names a commit once its import completed.            *)
Imported ==
  repository = "live" =>
    (commit # NoCommit <=> \E j \in current : kind[j] = "import" /\ status[j] = "completed")

Fetched == {"resolved", "downloading", "validating", "loaded", "parsing", "storing"}

(* A worker that still owns its job works on one commit.                     *)
FoundOne ==
  \A w \in Workers :
    task[w].pc \in Fetched /\ token[task[w].job] = task[w].token =>
      /\ \E c \in Commits : found[w] = {c}
      /\ kind[task[w].job] = "index" => found[w] = {commit}

(* Rows are written by one claim, from the repository's commit.              *)
Written == RowsOfOneClaim /\ \A j \in Jobs : \A r \in rows[j] : r.commit = commit

Invariant ==
  /\ TypeOK /\ Numbered /\ Leased /\ Claims /\ Currency
  /\ Ownership /\ Sources /\ Imported /\ FoundOne /\ Written /\ QueuedIsClaimable
-----------------------------------------------------------------------------
(* Pieces of a transaction.                                                *)

(* SetStatus keeps the types of the columns it writes.                       *)
LEMMA SetStatusType ==
  ASSUME TypeOK, NEW S \in SUBSET Jobs, NEW s \in Rows \cup {"deleted"}, SetStatus(S, s)
  PROVE  /\ status' \in [Jobs -> Rows \cup {"none", "deleted"}]
         /\ token' \in [Jobs -> Nat]
         /\ lease' \in [Jobs -> {"none", "live", "expired"}]
         /\ \A j \in Jobs : /\ status'[j] = IF j \in S THEN s ELSE status[j]
                            /\ token'[j] = IF j \in S THEN 0 ELSE token[j]
                            /\ lease'[j] = IF j \in S THEN "none" ELSE lease[j]
  BY DEF SetStatus, TypeOK, LeaseTypeOK

(* A row that is written frees its claim and its lease; a job that has no     *)
(* row keeps having none.                                                  *)
LEMMA SetStatusLeases ==
  ASSUME TypeOK, Numbered, Leased, NEW S \in SUBSET Jobs,
         NEW s \in (Rows \ {"running"}) \cup {"deleted"}, SetStatus(S, s),
         \A j \in S : status[j] # "none", UNCHANGED <<inserted, lastToken>>
  PROVE  /\ Leased'
         /\ \A j \in Jobs : status'[j] = "none" <=> j > inserted'
  <1>1. \A j \in Jobs : /\ status'[j] = IF j \in S THEN s ELSE status[j]
                        /\ token'[j] = IF j \in S THEN 0 ELSE token[j]
                        /\ lease'[j] = IF j \in S THEN "none" ELSE lease[j]
    BY SetStatusType
  <1>2. lastToken \in Nat /\ s # "none" /\ s # "running"
    BY DEF TypeOK, LeaseTypeOK
  <1>3. Leased'
    BY <1>1, <1>2 DEF Leased
  <1>4. QED
    BY <1>1, <1>2, <1>3 DEF Numbered

-----------------------------------------------------------------------------
(* Initially no row exists and every worker is idle.                        *)
LEMMA InitInvariant == Init => Invariant
  <1> SUFFICES ASSUME Init PROVE Invariant
    OBVIOUS
  <1> USE DEF Init, InitLeases, IdleTask
  <1>1. TypeOK
    <2>1. task \in [Workers -> [pc : Steps, job : Jobs \cup {NoJob}, token : Nat,
                                attempt : 0..MaxAttempts]]
      BY Bounds
    <2>2. LeaseTypeOK
      BY <2>1, Bounds DEF LeaseTypeOK
    <2>3. QED
      BY <2>2, Bounds DEF TypeOK
  <1>2. Numbered /\ Leased /\ Claims
    BY Bounds DEF Numbered, Leased, Claims
  <1>3. Currency /\ Ownership /\ Sources /\ Imported
    BY Bounds DEF Currency, Ownership, Sources, Imported
  <1>4. FoundOne /\ Written /\ QueuedIsClaimable
    BY Bounds DEF FoundOne, Fetched, Written, RowsOfOneClaim, QueuedIsClaimable
  <1>5. QED
    BY <1>1, <1>2, <1>3, <1>4 DEF Invariant

-----------------------------------------------------------------------------
(* Steps of a kind.                                                        *)

dataVars == <<repository, commit, kind, source, pinned, rows, found>>

(* A step that leaves the rows' claims, currency and data alone.              *)
LEMMA QuietStep ==
  ASSUME Invariant, TypeOK', UNCHANGED <<inserted, status, attempts, token, lease, current,
                                         lastToken, task>>, UNCHANGED dataVars
  PROVE  Invariant'
  BY DEF Invariant, dataVars, Numbered, Leased, Claims, Currency, Ownership, Sources, Imported,
         FoundOne, Fetched, Written, RowsOfOneClaim, QueuedIsClaimable, Import, Table

(* A worker's locals become t: it works on as before, or has no claim.        *)
Follows(w, t) ==
  \/ /\ t.token = task[w].token /\ t.job = task[w].job /\ t.attempt = task[w].attempt
     /\ task[w].pc \notin {"idle", "claim"} /\ t.pc \notin {"idle", "claim"}
     /\ t.pc \in Fetched => task[w].pc \in Fetched
  \/ t.token = NoToken /\ t.pc \in {"idle", "claim"} /\ (t.pc # "idle" => t.job \in Jobs)

(* Claims and what they found survive such a step if no job gets a token.     *)
LEMMA TaskStep ==
  ASSUME TypeOK, Leased, Claims, FoundOne, TypeOK', NEW w \in Workers, NEW t, Follows(w, t),
         task' = [task EXCEPT ![w] = t],
         \A j \in Jobs : token'[j] = token[j] \/ token'[j] = NoToken,
         UNCHANGED <<attempts, lastToken, kind, commit, found>>
  PROVE  Claims' /\ FoundOne'
  <1>1. \A v \in Workers : task'[v] = IF v = w THEN t ELSE task[v]
    BY DEF TypeOK, LeaseTypeOK
  <1>2. lastToken \in Nat /\ task' \in [Workers -> [pc : Steps, job : Jobs \cup {NoJob},
          token : Nat, attempt : 0..MaxAttempts]]
    BY DEF TypeOK, LeaseTypeOK
  <1>3. Claims'
    BY <1>1, <1>2 DEF Claims, Follows, Fetched
  <1>4. FoundOne'
    BY <1>1, <1>2 DEF Claims, FoundOne, Follows, Fetched
  <1>5. QED
    BY <1>3, <1>4

(* The same when no worker moves.                                           *)
LEMMA RevokeStep ==
  ASSUME Claims, FoundOne, TypeOK, UNCHANGED <<attempts, lastToken, kind, commit, found, task>>,
         \A j \in Jobs : token'[j] = token[j] \/ token'[j] = NoToken
  PROVE  Claims' /\ FoundOne'
  BY DEF Claims, FoundOne, Fetched, TypeOK, LeaseTypeOK

(* Active rows get a final state that shows no result.                       *)
LEMMA EndStep ==
  ASSUME Invariant, NEW S \in SUBSET Jobs, NEW s \in {"failed", "cancelled"}, SetStatus(S, s),
         \A j \in S : status[j] \in Active,
         UNCHANGED <<inserted, attempts, current, lastToken>>, UNCHANGED dataVars
  PROVE  Numbered' /\ Leased' /\ Currency' /\ Ownership' /\ Sources' /\ Imported' /\ Written'
           /\ QueuedIsClaimable'
  <1> USE DEF dataVars
  <1>1. \A j \in Jobs : status'[j] = IF j \in S THEN s ELSE status[j]
    BY SetStatusType DEF Invariant
  <1>2. Leased' /\ Numbered'
    BY SetStatusLeases, <1>1 DEF Invariant, Numbered
  <1>3. Currency' /\ QueuedIsClaimable'
    BY <1>1 DEF Invariant, Currency, QueuedIsClaimable, TypeOK, LeaseTypeOK
  <1>4. Ownership'
    BY <1>1 DEF Invariant, Ownership
  <1>5. Sources' /\ Imported'
    BY <1>1 DEF Invariant, Sources, Imported, TypeOK, LeaseTypeOK
  <1>6. Written'
    BY <1>1 DEF Invariant, Written, RowsOfOneClaim
  <1>7. QED
    BY <1>2, <1>3, <1>4, <1>5, <1>6

-----------------------------------------------------------------------------
(* Requests.                                                               *)

(* The row that an Insert adds.                                             *)
LEMMA InsertFacts ==
  ASSUME Invariant, NEW old \in SUBSET Jobs, Insert(old)
  PROVE  /\ inserted + 1 \in Jobs /\ LeaseTypeOK'
         /\ status[inserted + 1] = "none" /\ kind[inserted + 1] = "import"
         /\ inserted + 1 \notin current /\ attempts[inserted + 1] = 0
         /\ \A j \in Jobs : status'[j] = IF j = inserted + 1 THEN "queued" ELSE status[j]
  <1>1. inserted + 1 \in Jobs
    BY Bounds DEF Insert, Invariant, TypeOK, LeaseTypeOK, Jobs
  <1>2. LeaseTypeOK'
    <2>1. inserted + 1 \in 0..MaxJobs
      BY <1>1, Bounds DEF Jobs
    <2>2. status' \in [Jobs -> Rows \cup {"none", "deleted"}]
      BY <1>1 DEF Insert, Invariant, TypeOK, LeaseTypeOK
    <2>3. QED
      BY <1>1, <2>1, <2>2 DEF Insert, Invariant, TypeOK, LeaseTypeOK, queueVars, loopVars
  <1>3. QED
    BY <1>1, <1>2 DEF Insert, Invariant, Numbered, TypeOK, LeaseTypeOK

(* What holds of the claims after an Insert.                                *)
LEMMA InsertStep ==
  ASSUME Invariant, NEW old \in SUBSET Jobs, Insert(old), UNCHANGED <<commit, found>>,
         \A j \in Jobs : kind'[j] = kind[j] \/ j = inserted + 1,
         TypeOK', \A j \in old : status[j] \notin Active
  PROVE  Numbered' /\ Leased' /\ Claims' /\ FoundOne' /\ QueuedIsClaimable'
  <1> USE InsertFacts DEF Invariant, Insert, queueVars
  <1>1. inserted \in Nat /\ attempts \in [Jobs -> 0..MaxAttempts] /\ Jobs \subseteq Nat
    BY Bounds DEF TypeOK, LeaseTypeOK
  <1>2. Numbered'
    BY <1>1 DEF Numbered
  <1>3. Leased'
    BY <1>1 DEF Leased
  <1>4. Claims'
    BY DEF Claims
  <1>5. FoundOne'
    <2>1. ASSUME NEW w \in Workers, task[w].pc \in Fetched, token[task[w].job] = task[w].token
          PROVE  task[w].job \in Jobs /\ kind'[task[w].job] = kind[task[w].job]
      BY <2>1 DEF Claims, Leased, Fetched
    <2>2. QED
      BY <2>1 DEF FoundOne
  <1>6. QueuedIsClaimable'
    BY <1>1, Bounds DEF QueuedIsClaimable, Currency
  <1>7. QED
    BY <1>2, <1>3, <1>4, <1>5, <1>6

(* Every action keeps the invariant: first what users ask for.              *)
LEMMA ConnectStep == ASSUME Invariant, Connect PROVE Invariant'
  <1> USE DEF Connect
  <1>1. Insert({}) /\ {} \in SUBSET Jobs
    OBVIOUS
  <1>2. inserted = 0 /\ commit = NoCommit /\ current = {} /\ \A j \in Jobs : status[j] = "none"
    BY Bounds DEF Invariant, Ownership, Numbered
  <1>3. current' = {inserted + 1}
    BY <1>2 DEF Insert
  <1>4. TypeOK'
    BY <1>1, InsertFacts DEF TypeOK, Invariant
  <1>5. Numbered' /\ Leased' /\ Claims' /\ FoundOne' /\ QueuedIsClaimable'
    BY <1>1, <1>4, InsertStep
  <1>6. \A j \in Jobs : status'[j] \in {"none", "queued"} /\ status'[inserted + 1] = "queued"
    BY <1>1, <1>2, InsertFacts
  <1>7. \A j \in Jobs : kind'[j] = "import" /\ inserted + 1 \in Jobs
    BY <1>1, <1>2, Bounds, InsertFacts DEF Invariant, Numbered
  <1>8. Currency' /\ Ownership' /\ Sources' /\ Imported'
    BY <1>1, <1>2, <1>3, <1>6, <1>7, InsertFacts DEF Currency, Ownership, Sources, Imported
  <1>9. Written'
    BY <1>1, <1>2, <1>6 DEF Invariant, Written, RowsOfOneClaim
  <1>10. QED
    BY <1>4, <1>5, <1>8, <1>9 DEF Invariant

LEMMA RetryImportStep == ASSUME Invariant, NEW j \in Jobs, RetryImport(j) PROVE Invariant'
  <1> USE DEF RetryImport, jobVars
  <1>1. Insert({j}) /\ {j} \in SUBSET Jobs /\ j \in current /\ kind[j] = "import"
    BY DEF Import
  <1>2. TypeOK'
    BY <1>1, InsertFacts DEF TypeOK, Invariant
  <1>3. Numbered' /\ Leased' /\ Claims' /\ FoundOne' /\ QueuedIsClaimable'
    BY <1>1, <1>2, InsertStep
  <1>4. current' = (current \ {j}) \cup {inserted + 1} /\ repository = "live"
    BY <1>1 DEF Insert, Invariant, Ownership
  <1>5. \A i \in current : kind[i] = "import" => i = j
    BY <1>1 DEF Invariant, Currency
  <1>6. Currency'
    BY <1>1, <1>4, <1>5, InsertFacts DEF Invariant, Currency, TypeOK, LeaseTypeOK
  <1>7. Ownership' /\ Imported'
    BY <1>1, <1>4, <1>5, InsertFacts DEF Invariant, Ownership, Imported, TypeOK, LeaseTypeOK
  <1>8. Sources'
    BY <1>1, <1>4, InsertFacts DEF Invariant, Sources, TypeOK, LeaseTypeOK
  <1>9. Written'
    BY <1>1, InsertFacts DEF Invariant, Written, RowsOfOneClaim
  <1>10. QED
    BY <1>2, <1>3, <1>6, <1>7, <1>8, <1>9 DEF Invariant

LEMMA StartIndexStep == ASSUME Invariant, NEW s \in Jobs, StartIndex(s) PROVE Invariant'
  <1> DEFINE i == inserted + 1
             old == Latest(s)
  <1> USE DEF StartIndex
  <1>1. Insert(old) /\ old \in SUBSET Jobs /\ \A j \in old : status[j] \notin Active
    BY DEF Latest, Invariant, TypeOK, LeaseTypeOK, Supersedable
  <1>2. /\ kind' = [kind EXCEPT ![i] = "index"] /\ source' = [source EXCEPT ![i] = s]
        /\ pinned' = [pinned EXCEPT ![i] = commit] /\ version' = [version EXCEPT ![i] = release]
    OBVIOUS
  <1>3. TypeOK'
    BY <1>1, <1>2, InsertFacts DEF TypeOK, Invariant
  <1>4. \A j \in Jobs : /\ kind'[j] = IF j = i THEN "index" ELSE kind[j]
                        /\ source'[j] = IF j = i THEN s ELSE source[j]
                        /\ pinned'[j] = IF j = i THEN commit ELSE pinned[j]
    BY <1>2 DEF Invariant, TypeOK
  <1>5. Numbered' /\ Leased' /\ Claims' /\ FoundOne' /\ QueuedIsClaimable'
    BY <1>1, <1>3, <1>4, InsertStep
  <1>6. /\ s \in current /\ kind[s] = "import" /\ status[s] = "completed" /\ repository = "live"
        /\ current' = (current \ old) \cup {i} /\ i \in Jobs /\ i # s
        /\ \A j \in Jobs : status'[j] = IF j = i THEN "queued" ELSE status[j]
    BY <1>1, InsertFacts DEF Insert, Import, Invariant, Ownership
  <1>7. \A j \in current : (kind[j] = "index" <=> j \in old) /\ (kind[j] = "import" => j = s)
    BY <1>6 DEF Latest, Invariant, Currency, Sources, TypeOK, LeaseTypeOK
  <1>8. Currency'
    BY <1>1, <1>4, <1>6, <1>7 DEF Invariant, Currency, TypeOK, LeaseTypeOK
  <1>9. Ownership' /\ Imported'
    BY <1>1, <1>4, <1>6, <1>7 DEF Invariant, Ownership, Imported, TypeOK, LeaseTypeOK
  <1>10. Sources'
    BY <1>1, <1>4, <1>6, <1>7 DEF Invariant, Sources, TypeOK, LeaseTypeOK
  <1>11. Written'
    BY <1>1, <1>6, InsertFacts DEF Invariant, Written, RowsOfOneClaim
  <1>12. QED
    BY <1>3, <1>5, <1>8, <1>9, <1>10, <1>11 DEF Invariant

(* A request that cancels active jobs.                                      *)
LEMMA CancelStep ==
  ASSUME Invariant, NEW S \in SUBSET Jobs, CancelJobs(S), UNCHANGED jobVars,
         \A j \in S : status[j] \in Active
  PROVE  Invariant'
  <1> USE DEF CancelJobs, jobVars
  <1>1. SetStatus(S, "cancelled") /\ UNCHANGED dataVars
    BY DEF dataVars
  <1>2. TypeOK'
    BY <1>1, SetStatusType DEF Invariant, TypeOK, LeaseTypeOK, queueVars, loopVars
  <1>3. \A j \in Jobs : token'[j] = token[j] \/ token'[j] = NoToken
    BY <1>1, SetStatusType DEF Invariant
  <1>4. Claims' /\ FoundOne'
    BY <1>3, RevokeStep DEF Invariant
  <1>5. Numbered' /\ Leased' /\ Currency' /\ Ownership' /\ Sources' /\ Imported' /\ Written'
          /\ QueuedIsClaimable'
    BY <1>1, EndStep
  <1>6. QED
    BY <1>2, <1>4, <1>5 DEF Invariant

LEMMA RemoveStep == ASSUME Invariant, RemoveRepository PROVE Invariant'
  <1> DEFINE S == {j \in Jobs : status[j] \in Rows}
  <1> USE DEF RemoveRepository, DeleteAll
  <1>1. SetStatus(S, "deleted") /\ S \in SUBSET Jobs
    OBVIOUS
  <1>2. /\ status' \in [Jobs -> Rows \cup {"none", "deleted"}] /\ token' \in [Jobs -> Nat]
        /\ lease' \in [Jobs -> {"none", "live", "expired"}]
        /\ \A j \in Jobs : /\ status'[j] = IF j \in S THEN "deleted" ELSE status[j]
                           /\ token'[j] = IF j \in S THEN 0 ELSE token[j]
    BY <1>1, SetStatusType DEF Invariant
  <1>3. TypeOK'
    BY <1>2 DEF Invariant, TypeOK, LeaseTypeOK, queueVars, loopVars
  <1>4. Claims' /\ FoundOne'
    BY <1>2, RevokeStep DEF Invariant
  <1>5. Leased' /\ Numbered'
    BY <1>1, <1>2, SetStatusLeases DEF Invariant, Numbered
  <1>6. \A j \in Jobs : status'[j] \in {"none", "deleted"}
    BY <1>2 DEF Invariant, TypeOK, LeaseTypeOK
  <1>7. Currency' /\ Ownership' /\ Sources' /\ Imported' /\ Written' /\ QueuedIsClaimable'
    BY <1>6 DEF Invariant, Currency, Ownership, Sources, Imported, Written, RowsOfOneClaim,
                QueuedIsClaimable
  <1>8. QED
    BY <1>3, <1>4, <1>5, <1>7 DEF Invariant

(* Requests keep the invariant.                                             *)
LEMMA RequestsStep == ASSUME Invariant, Requests PROVE Invariant'
  <1>1. ASSUME NEW j \in Jobs, CancelImport(j) PROVE Invariant'
    BY <1>1, CancelStep DEF CancelImport
  <1>2. ASSUME NEW s \in Jobs, CancelIndex(s) PROVE Invariant'
    <2>1. Latest(s) \in SUBSET Jobs /\ \A j \in Latest(s) : status[j] \in Active
      BY <1>2 DEF CancelIndex, Latest, Invariant, Currency, TypeOK, LeaseTypeOK
    <2>2. QED
      BY <1>2, <2>1, CancelStep DEF CancelIndex
  <1>3. CASE Upgrade
    <2>1. TypeOK'
      BY <1>3 DEF Upgrade, Invariant, TypeOK, LeaseTypeOK, leaseVars, rowVars, queueVars, loopVars
    <2>2. QED
      BY <1>3, <2>1, QuietStep DEF Upgrade, leaseVars, rowVars, dataVars
  <1>4. QED
    BY <1>1, <1>2, <1>3, ConnectStep, RemoveStep, RetryImportStep, StartIndexStep DEF Requests

-----------------------------------------------------------------------------
(* Time, the dispatcher and the faults.                                     *)

LEMMA DispatcherType ==
  ASSUME TypeOK, Dispatcher(Tables) \/ AbortCycle
  PROVE  /\ dispatched' \subseteq Jobs /\ broker' \subseteq Jobs /\ batch' \subseteq Jobs
         /\ sent' \in Jobs \cup {NoJob} /\ turn' \in Nat \ {0} /\ faults' \in Nat
  <1> USE DEF TypeOK, LeaseTypeOK
  <1>1. CASE Sweep(Tables)
    <2>1. Len(Tables) = 2
      BY DEF Tables
    <2>2. turn' \in Nat \ {0}
      BY <1>1, <2>1 DEF Sweep
    <2>3. Eligible \subseteq Jobs
      BY DEF Eligible
    <2>4. batch' \subseteq Jobs
      BY <1>1, <2>3 DEF Sweep
    <2>5. QED
      BY <1>1, <2>2, <2>4 DEF Sweep
  <1>2. CASE PublishMessage
    <2>1. PICK j \in batch :
            /\ sent = NoJob /\ batch' = batch \ {j} /\ UNCHANGED <<dispatched, turn>>
            /\ \/ broker' = broker \cup {j} /\ sent' = j /\ UNCHANGED faults
               \/ faults' = faults + 1 /\ UNCHANGED <<broker, sent>>
      BY <1>2 DEF PublishMessage
    <2>2. j \in Jobs /\ batch' \subseteq Jobs /\ broker' \subseteq Jobs
      BY <2>1
    <2>3. sent' \in Jobs \cup {NoJob} /\ faults' \in Nat
      BY <2>1, <2>2
    <2>4. QED
      BY <2>1, <2>2, <2>3
  <1>3. CASE MarkDispatched
    BY <1>3 DEF MarkDispatched
  <1>4. CASE AbortCycle
    BY <1>4 DEF AbortCycle
  <1>5. QED
    BY <1>1, <1>2, <1>3, <1>4 DEF Dispatcher

LEMMA SweepStep == ASSUME Invariant, Sweep(Tables), UNCHANGED jobVars PROVE Invariant'
  <1> DEFINE S == Lost \cap Tables[turn]
  <1> USE DEF Sweep, jobVars
  <1>1. SetStatus(S, "failed") /\ S \in SUBSET Jobs /\ \A j \in S : status[j] \in Active
    BY DEF Lost
  <1>2. TypeOK'
    BY <1>1, SetStatusType, DispatcherType DEF Invariant, TypeOK, LeaseTypeOK, Dispatcher
  <1>3. Claims' /\ FoundOne'
    BY <1>1, SetStatusType, RevokeStep DEF Invariant
  <1>4. Numbered' /\ Leased' /\ Currency' /\ Ownership' /\ Sources' /\ Imported' /\ Written'
          /\ QueuedIsClaimable'
    BY <1>1, EndStep DEF dataVars
  <1>5. QED
    BY <1>2, <1>3, <1>4 DEF Invariant

(* A lease runs out; the claim stays until somebody else takes the job.       *)
LEMMA LeaseExpiresStep ==
  ASSUME Invariant, NEW j \in Jobs, LeaseExpires(j), UNCHANGED jobVars
  PROVE  Invariant'
  <1> USE DEF LeaseExpires, jobVars, queueVars, loopVars
  <1>1. TypeOK'
    BY DEF Invariant, TypeOK, LeaseTypeOK
  <1>2. Leased'
    BY DEF Invariant, Leased, TypeOK, LeaseTypeOK
  <1>3. QED
    BY <1>1, <1>2 DEF Invariant, Numbered, Claims, Currency, Ownership, Sources, Imported,
                      FoundOne, Fetched, Written, RowsOfOneClaim, QueuedIsClaimable

(* A worker returns without having changed a row.                            *)
LEMMA GiveUpStep ==
  ASSUME Invariant, NEW w \in Workers, GiveUp(w), UNCHANGED jobVars
  PROVE  Invariant'
  <1> USE DEF GiveUp, Return, rowVars, loopVars, jobVars
  <1>1. TypeOK'
    <2>1. IdleTask \in [pc : Steps, job : Jobs \cup {NoJob}, token : Nat, attempt : 0..MaxAttempts]
      BY Bounds DEF IdleTask
    <2>2. QED
      BY <2>1 DEF Invariant, TypeOK, LeaseTypeOK
  <1>2. Claims' /\ FoundOne'
    BY <1>1, TaskStep DEF Invariant, Follows, IdleTask
  <1>3. QED
    BY <1>1, <1>2 DEF Invariant, Numbered, Leased, Currency, Ownership, Sources, Imported,
                      Written, RowsOfOneClaim, QueuedIsClaimable

(* The claim: the token is new, so nobody else's claim matches it.           *)
LEMMA ClaimStep == ASSUME Invariant, NEW w \in Workers, Claim(w), UNCHANGED jobVars PROVE Invariant'
  <1> USE DEF jobVars
  <1> DEFINE j == task[w].job
  <1>1. CASE ~Claimable(j) /\ GiveUp(w)
    BY <1>1, GiveUpStep
  <1>2. CASE Claimable(j)
    <2> USE DEF queueVars, loopVars
    <2> DEFINE k == lastToken + 1
               a == attempts[j] + 1
               t == [task[w] EXCEPT !.pc = "started", !.token = k, !.attempt = a]
    <2>1. /\ lastToken' = lastToken + 1 /\ status' = [status EXCEPT ![j] = "running"]
          /\ attempts' = [attempts EXCEPT ![j] = @ + 1]
          /\ token' = [token EXCEPT ![j] = lastToken + 1]
          /\ lease' = [lease EXCEPT ![j] = "live"] /\ task' = [task EXCEPT ![w] = t]
          /\ UNCHANGED <<inserted, current, waiting, queueVars, faults>>
      BY <1>2 DEF Claim
    <2>2. j \in current /\ j \in Jobs /\ attempts[j] < MaxAttempts /\ status[j] \in Active
      BY <1>2 DEF Claimable, Invariant, TypeOK, LeaseTypeOK
    <2>3. /\ lastToken \in Nat /\ attempts[j] + 1 \in 0..MaxAttempts
          /\ t \in [pc : Steps, job : Jobs \cup {NoJob}, token : Nat, attempt : 0..MaxAttempts]
          /\ t.pc = "started" /\ t.job = j /\ t.token = lastToken + 1 /\ t.attempt = attempts[j] + 1
      <3>1. task[w] \in [pc : Steps, job : Jobs \cup {NoJob}, token : Nat, attempt : 0..MaxAttempts]
        BY DEF Invariant, TypeOK, LeaseTypeOK
      <3>2. lastToken \in Nat /\ attempts[j] \in 0..MaxAttempts
        BY <2>2 DEF Invariant, TypeOK, LeaseTypeOK
      <3>3. k \in Nat /\ a \in 0..MaxAttempts
        BY <2>2, <3>2, Bounds
      <3> HIDE DEF k, a
      <3>4. /\ t \in [pc : Steps, job : Jobs \cup {NoJob}, token : Nat, attempt : 0..MaxAttempts]
            /\ t.pc = "started" /\ t.job = j /\ t.token = k /\ t.attempt = a
        BY <3>1, <3>3
      <3>5. QED
        BY <3>2, <3>3, <3>4 DEF k, a
    <2> HIDE DEF k, a, t
    <2>4. TypeOK'
      BY <2>1, <2>2, <2>3 DEF Invariant, TypeOK, LeaseTypeOK
    <2>5. \A i \in Jobs : /\ status'[i] = IF i = j THEN "running" ELSE status[i]
                          /\ attempts'[i] = IF i = j THEN attempts[j] + 1 ELSE attempts[i]
                          /\ token'[i] = IF i = j THEN lastToken + 1 ELSE token[i]
                          /\ lease'[i] = IF i = j THEN "live" ELSE lease[i]
      BY <2>1, <2>2 DEF Invariant, TypeOK, LeaseTypeOK
    <2>6. \A v \in Workers : task'[v] = IF v = w THEN t ELSE task[v]
      BY <2>1 DEF Invariant, TypeOK, LeaseTypeOK
    <2>7. Numbered'
      BY <2>1, <2>2, <2>5 DEF Invariant, Numbered
    <2>8. Leased'
      <3>1. \A i \in Jobs : token[i] \in Nat /\ token[i] <= lastToken
        BY DEF Invariant, Leased, TypeOK, LeaseTypeOK
      <3>2. QED
        BY <2>1, <2>3, <2>5, <3>1 DEF Invariant, Leased
    <2>9. Claims' /\ FoundOne'
      <3>1. \A v \in Workers : task[v].token \in Nat /\ task[v].token <= lastToken /\ task[v].token # lastToken + 1
        <4>1. \A v \in Workers : task[v].token \in Nat
          BY DEF Invariant, TypeOK, LeaseTypeOK
        <4>2. QED
          BY <2>3, <4>1 DEF Invariant, Claims
      <3>2. \A i \in Jobs : token[i] # lastToken + 1
        BY <2>3 DEF Invariant, Leased, TypeOK, LeaseTypeOK
      <3>3. lastToken + 1 # NoToken /\ lastToken' = lastToken + 1 /\ lastToken <= lastToken'
        BY <2>1, <2>3
      <3>4. ASSUME NEW v \in Workers, v # w, NEW i \in Jobs, task[v].token # NoToken, token'[i] = task[v].token
            PROVE  i = task[v].job /\ attempts'[i] = task[v].attempt
        <4>1. i # j
          BY <2>5, <3>1, <3>4
        <4>2. QED
          BY <2>5, <3>4, <4>1 DEF Invariant, Claims
      <3>5. Claims'
        <4>1. ASSUME NEW v \in Workers, v # w
              PROVE  /\ task'[v].token <= lastToken'
                     /\ task'[v].token = NoToken <=> task'[v].pc \in {"idle", "claim"}
                     /\ task'[v].pc # "idle" => task'[v].job \in Jobs
          <5>1. task'[v] = task[v]
            BY <2>6, <4>1
          <5>2. QED
            BY <2>1, <2>3, <3>1, <5>1 DEF Invariant, Claims
        <4>2. ASSUME NEW i \in Jobs, token'[i] = task'[w].token
              PROVE  i = task'[w].job /\ attempts'[i] = task'[w].attempt
          BY <2>3, <2>5, <2>6, <3>2, <4>2
        <4>3. /\ task'[w].token <= lastToken'
              /\ task'[w].token # NoToken /\ task'[w].pc \notin {"idle", "claim"}
              /\ task'[w].job \in Jobs
          <5>1. task'[w] = t
            BY <2>6
          <5>2. QED
            BY <2>1, <2>2, <2>3, <5>1
        <4>4. ASSUME NEW v \in Workers, NEW i \in Jobs, task'[v].token # NoToken, token'[i] = task'[v].token
              PROVE  i = task'[v].job /\ attempts'[i] = task'[v].attempt
          <5>1. v # w => task'[v] = task[v]
            BY <2>6
          <5>2. QED
            BY <3>4, <4>2, <4>4, <5>1
        <4>5. QED
          BY <4>1, <4>3, <4>4 DEF Claims
      <3>6. FoundOne'
        <4>1. task'[w].pc \notin Fetched
          <5>1. task'[w] = t
            BY <2>6
          <5>2. QED
            BY <2>3, <5>1 DEF Fetched
        <4>2. ASSUME NEW v \in Workers, v # w, task[v].pc \in Fetched, token'[task[v].job] = task[v].token
              PROVE  token[task[v].job] = task[v].token
          <5>1. task[v].job \in Jobs
            BY <4>2 DEF Invariant, Claims, Fetched
          <5>2. QED
            BY <2>5, <3>1, <4>2, <5>1
        <4>3. ASSUME NEW v \in Workers, task'[v].pc \in Fetched, token'[task'[v].job] = task'[v].token
              PROVE  /\ \E c \in Commits : found'[v] = {c}
                     /\ kind'[task'[v].job] = "index" => found'[v] = {commit'}
          <5>1. v # w /\ task'[v] = task[v]
            BY <2>6, <4>1, <4>3
          <5>2. QED
            BY <4>2, <4>3, <5>1 DEF Invariant, FoundOne
        <4>4. QED
          BY <4>3 DEF FoundOne
      <3>7. QED
        BY <3>5, <3>6
    <2>10. Currency' /\ Ownership' /\ Sources' /\ Imported' /\ QueuedIsClaimable'
      BY <2>1, <2>2, <2>5 DEF Invariant, Currency, Ownership, Sources, Imported, QueuedIsClaimable,
                              TypeOK, LeaseTypeOK
    <2>11. Written'
      BY <2>1, <2>2, <2>5 DEF Invariant, Written, RowsOfOneClaim
    <2>12. QED
      BY <2>4, <2>7, <2>8, <2>9, <2>10, <2>11 DEF Invariant
  <1>3. QED
    BY <1>1, <1>2 DEF Claim

(* Everything that happens to leases keeps the invariant.                    *)
LEMMA SchedulingStep == ASSUME Invariant, Scheduling(Tables), UNCHANGED jobVars PROVE Invariant'
  <1> USE DEF jobVars, rowVars, loopVars, queueVars
  <1>1. CASE PublishMessage \/ MarkDispatched \/ AbortCycle
    <2>1. UNCHANGED <<rowVars, lastToken, task>>
      BY <1>1 DEF PublishMessage, MarkDispatched, AbortCycle
    <2>2. TypeOK'
      BY <1>1, <2>1, DispatcherType DEF Invariant, TypeOK, LeaseTypeOK, Dispatcher
    <2>3. QED
      BY <2>1, <2>2, QuietStep DEF dataVars
  <1>2. ASSUME NEW j \in Jobs, BackoffEnds(j) \/ RedispatchDue(j) \/ LoseMessage(j)
        PROVE  Invariant'
    <2>1. TypeOK'
      BY <1>2 DEF Invariant, TypeOK, LeaseTypeOK, BackoffEnds, RedispatchDue, LoseMessage
    <2>2. QED
      BY <1>2, <2>1, QuietStep DEF dataVars, BackoffEnds, RedispatchDue, LoseMessage
  <1>3. ASSUME NEW w \in Workers, Crash(w) \/ \E j \in Jobs : Deliver(w, j) PROVE Invariant'
    <2>1. PICK t \in [pc : {"idle", "claim"}, job : Jobs \cup {NoJob}, token : {NoToken},
                      attempt : {0}] :
            task' = [task EXCEPT ![w] = t] /\ (t.pc # "idle" => t.job \in Jobs)
      <3>1. CASE Crash(w)
        <4>1. IdleTask \in [pc : {"idle", "claim"}, job : Jobs \cup {NoJob}, token : {NoToken},
                            attempt : {0}] /\ IdleTask.pc = "idle"
          BY DEF IdleTask
        <4>2. QED
          BY <3>1, <4>1 DEF Crash
      <3>2. ASSUME NEW j \in Jobs, Deliver(w, j)
            PROVE  \E t \in [pc : {"idle", "claim"}, job : Jobs \cup {NoJob}, token : {NoToken},
                             attempt : {0}] :
                     task' = [task EXCEPT ![w] = t] /\ (t.pc # "idle" => t.job \in Jobs)
        <4> DEFINE t == [IdleTask EXCEPT !.pc = "claim", !.job = j]
        <4>1. t \in [pc : {"idle", "claim"}, job : Jobs \cup {NoJob}, token : {NoToken},
                     attempt : {0}] /\ t.job = j
          BY DEF IdleTask
        <4>2. task' = [task EXCEPT ![w] = t]
          BY <3>2 DEF Deliver
        <4> HIDE DEF t
        <4>3. QED
          BY <4>1, <4>2
      <3>3. QED
        BY <1>3, <3>1, <3>2
    <2>2. broker' \subseteq Jobs /\ faults' \in Nat
      <3>1. CASE Crash(w)
        <4>1. task[w].job \in Jobs /\ broker \subseteq Jobs /\ faults \in Nat
          BY <3>1 DEF Crash, Invariant, TypeOK, LeaseTypeOK, Claims
        <4>2. QED
          BY <3>1, <4>1 DEF Crash
      <3>2. CASE \E j \in Jobs : Deliver(w, j)
        BY <3>2 DEF Deliver, Invariant, TypeOK, LeaseTypeOK
      <3>3. QED
        BY <1>3, <3>1, <3>2
    <2>3. UNCHANGED <<rowVars, dispatched, batch, sent, turn, lastToken>>
      BY <1>3 DEF Crash, Deliver
    <2>4. t \in [pc : Steps, job : Jobs \cup {NoJob}, token : Nat, attempt : 0..MaxAttempts]
      BY Bounds
    <2>5. TypeOK'
      BY <2>1, <2>2, <2>3, <2>4 DEF Invariant, TypeOK, LeaseTypeOK
    <2>6. Claims' /\ FoundOne'
      BY <2>1, <2>3, <2>5, TaskStep DEF Invariant, Follows
    <2>7. QED
      BY <2>3, <2>5, <2>6 DEF Invariant, Numbered, Leased, Currency, Ownership, Sources, Imported,
                              Written, RowsOfOneClaim, QueuedIsClaimable
  <1>4. QED
    BY <1>1, <1>2, <1>3, SweepStep, LeaseExpiresStep, ClaimStep DEF Scheduling, Dispatcher, Clock

-----------------------------------------------------------------------------
(* The work of a job.                                                      *)

(* A worker goes on: it moves to another step, having found something or not. *)
LEMMA ProceedStep ==
  ASSUME Invariant, NEW w \in Workers, NEW pc \in Steps \ {"idle", "claim"},
         task[w].pc \notin {"idle", "claim"}, Proceed(w, pc), UNCHANGED jobVars,
         pc \in Fetched => task[w].pc \in Fetched
  PROVE  Invariant'
  <1> USE DEF jobVars, rowVars, queueVars, loopVars
  <1> DEFINE t == [task[w] EXCEPT !.pc = pc]
  <1>1. task' = [task EXCEPT ![w] = t] /\ UNCHANGED <<rowVars, queueVars, lastToken, faults>>
    BY DEF Proceed, Goto
  <1>2. task[w] \in [pc : Steps, job : Jobs \cup {NoJob}, token : Nat, attempt : 0..MaxAttempts]
    BY DEF Invariant, TypeOK, LeaseTypeOK
  <1>3. /\ t \in [pc : Steps, job : Jobs \cup {NoJob}, token : Nat, attempt : 0..MaxAttempts]
        /\ t.pc = pc /\ t.job = task[w].job /\ t.token = task[w].token
        /\ t.attempt = task[w].attempt
    BY <1>2
  <1> HIDE DEF t
  <1>4. TypeOK'
    BY <1>1, <1>3 DEF Invariant, TypeOK, LeaseTypeOK
  <1>5. Claims' /\ FoundOne'
    BY <1>1, <1>3, <1>4, TaskStep DEF Invariant, Follows
  <1>6. QED
    BY <1>1, <1>4, <1>5 DEF Invariant, Numbered, Leased, Currency, Ownership, Sources, Imported,
                            Written, RowsOfOneClaim, QueuedIsClaimable

(* A worker learns which commits its data is of.                            *)
LEMMA FindStep ==
  ASSUME Invariant, NEW w \in Workers, NEW pc \in {"resolved", "loaded", "failing"},
         NEW F \in SUBSET Commits, task[w].pc = "started", Proceed(w, pc),
         found' = [found EXCEPT ![w] = F],
         UNCHANGED <<repository, commit, kind, source, pinned, version, release, rows>>,
         token[task[w].job] = task[w].token =>
           /\ \E c \in Commits : F = {c}
           /\ kind[task[w].job] = "index" => F = {commit}
  PROVE  Invariant'
  <1> USE DEF rowVars, queueVars, loopVars
  <1> DEFINE t == [task[w] EXCEPT !.pc = pc]
  <1>1. task' = [task EXCEPT ![w] = t] /\ UNCHANGED <<rowVars, queueVars, lastToken, faults>>
    BY DEF Proceed, Goto
  <1>2. task[w] \in [pc : Steps, job : Jobs \cup {NoJob}, token : Nat, attempt : 0..MaxAttempts]
    BY DEF Invariant, TypeOK, LeaseTypeOK
  <1>3. /\ t \in [pc : Steps, job : Jobs \cup {NoJob}, token : Nat, attempt : 0..MaxAttempts]
        /\ t.pc = pc /\ t.job = task[w].job /\ t.token = task[w].token
        /\ t.attempt = task[w].attempt
    BY <1>2
  <1> HIDE DEF t
  <1>4. TypeOK'
    BY <1>1, <1>3 DEF Invariant, TypeOK, LeaseTypeOK
  <1>5. \A v \in Workers : /\ task'[v] = IF v = w THEN t ELSE task[v]
                           /\ found'[v] = IF v = w THEN F ELSE found[v]
    BY <1>1 DEF Invariant, TypeOK, LeaseTypeOK
  <1>6. Claims'
    BY <1>1, <1>3, <1>5 DEF Invariant, Claims
  <1>7. FoundOne'
    BY <1>1, <1>3, <1>5 DEF Invariant, FoundOne
  <1>8. QED
    BY <1>1, <1>4, <1>6, <1>7 DEF Invariant, Numbered, Leased, Currency, Ownership, Sources,
                                  Imported, Written, RowsOfOneClaim, QueuedIsClaimable

(* The steps of a worker's task.                                            *)
LEMMA ResolveStep == ASSUME Invariant, NEW w \in Workers, Resolve(w) PROVE Invariant'
  <1>1. PICK c \in Commits : found' = [found EXCEPT ![w] = {c}]
    BY DEF Resolve
  <1>2. /\ task[w].pc = "started" /\ kind[task[w].job] = "import" /\ Proceed(w, "resolved")
        /\ UNCHANGED <<repository, commit, kind, source, pinned, version, release, rows>>
    BY DEF Resolve
  <1>3. {c} \in SUBSET Commits /\ \E d \in Commits : {c} = {d}
    OBVIOUS
  <1>4. QED
    BY <1>1, <1>2, <1>3, FindStep

LEMMA LoadStep == ASSUME Invariant, NEW w \in Workers, Load(w) PROVE Invariant'
  <1> DEFINE j == task[w].job
             F == {r.commit : r \in rows[source[j]]}
  <1>1. CASE status[j] = "deleted"
    BY <1>1, GiveUpStep DEF Load, jobVars
  <1>2. CASE status[j] # "deleted"
    <2>1. /\ task[w].pc = "started" /\ kind[j] = "index" /\ found' = [found EXCEPT ![w] = F]
          /\ UNCHANGED <<repository, commit, kind, source, pinned, version, release, rows>>
      BY <1>2 DEF Load
    <2>2. PICK pc \in {"loaded", "failing"} : Proceed(w, pc)
      BY <1>2 DEF Load
    <2>3. j \in Jobs /\ source[j] \in Jobs
      BY <2>1 DEF Invariant, Claims, Sources
    <2>4. F \in SUBSET Commits
      BY <2>3 DEF Invariant, TypeOK
    <2>5. ASSUME token[j] = task[w].token PROVE F = {commit} /\ commit \in Commits
      <3>1. status[j] = "running"
        BY <2>1, <2>3, <2>5 DEF Invariant, Claims, Leased
      <3>2. status[source[j]] = "completed"
        BY <2>1, <2>3, <3>1 DEF Invariant, Sources
      <3>3. rows[source[j]] # {} /\ \A r \in rows[source[j]] : r.commit = commit
        BY <2>3, <3>2 DEF Invariant, Written, RowsOfOneClaim
      <3>4. F = {commit}
        BY <3>3
      <3>5. QED
        BY <2>4, <3>4
    <2> HIDE DEF F
    <2>6. QED
      BY <2>1, <2>2, <2>4, <2>5, FindStep
  <1>3. QED
    BY <1>1, <1>2

LEMMA ReportStageStep == ASSUME Invariant, NEW w \in Workers, ReportStage(w) PROVE Invariant'
  <1>1. CASE GiveUp(w)
    BY <1>1, GiveUpStep DEF ReportStage
  <1>2. CASE Proceed(w, NextStage[task[w].pc])
    <2>1. /\ task[w].pc \in Fetched /\ NextStage[task[w].pc] \in Steps \ {"idle", "claim"}
          /\ UNCHANGED jobVars
      BY DEF ReportStage, NextStage, Fetched
    <2>2. task[w].pc \notin {"idle", "claim"}
      BY <2>1 DEF Fetched
    <2>3. QED
      BY <1>2, <2>1, <2>2, ProceedStep
  <1>3. QED
    BY <1>1, <1>2 DEF ReportStage

LEMMA RaiseStep == ASSUME Invariant, NEW w \in Workers, Raise(w) PROVE Invariant'
  <1>1. PICK pc \in {"failing", "retryable"} : Proceed(w, pc)
    BY DEF Raise
  <1>2. task[w].pc \notin {"idle", "claim"} /\ pc \notin Fetched
    BY DEF Raise, Working, Fetched
  <1>3. QED
    BY <1>1, <1>2, ProceedStep DEF Raise

(* A worker that holds its job works on it, in its attempt.                   *)
LEMMA HeldFacts ==
  ASSUME Invariant, NEW w \in Workers, Held(w), task[w].pc \notin {"idle", "claim"}
  PROVE  LET j == task[w].job IN
         /\ j \in Jobs /\ j \in current /\ status[j] = "running" /\ token[j] = task[w].token
         /\ attempts[j] = task[w].attempt /\ repository = "live"
  BY DEF Held, Invariant, Claims, Ownership, TypeOK, LeaseTypeOK

(* The end of a worker's claim: its job's row is freed and it returns.        *)
LEMMA ReleaseStep ==
  ASSUME Invariant, NEW w \in Workers, Held(w), task[w].pc \notin {"idle", "claim"},
         NEW s \in (Rows \ {"running"}), SetStatus({task[w].job}, s), Return(w),
         UNCHANGED <<inserted, attempts, current, lastToken, loopVars, faults>>
  PROVE  /\ Leased' /\ task' = [task EXCEPT ![w] = IdleTask] /\ broker' \subseteq Jobs
         /\ \A i \in Jobs : status'[i] = IF i = task[w].job THEN s ELSE status[i]
         /\ status' \in [Jobs -> Rows \cup {"none", "deleted"}]
         /\ token' \in [Jobs -> Nat] /\ lease' \in [Jobs -> {"none", "live", "expired"}]
         /\ task' \in [Workers -> [pc : Steps, job : Jobs \cup {NoJob}, token : Nat,
                                   attempt : 0..MaxAttempts]]
         /\ \A i \in Jobs : token'[i] = token[i] \/ token'[i] = NoToken
         /\ \A i \in Jobs : status'[i] = "none" <=> i > inserted'
  <1> DEFINE S == {task[w].job}
  <1>1. S \in SUBSET Jobs /\ status[task[w].job] # "none"
    BY HeldFacts
  <1>2. /\ \A i \in Jobs : /\ status'[i] = IF i = task[w].job THEN s ELSE status[i]
                           /\ token'[i] = token[i] \/ token'[i] = NoToken
        /\ status' \in [Jobs -> Rows \cup {"none", "deleted"}]
        /\ token' \in [Jobs -> Nat] /\ lease' \in [Jobs -> {"none", "live", "expired"}]
    BY <1>1, SetStatusType DEF Invariant
  <1>3. Leased' /\ \A i \in Jobs : status'[i] = "none" <=> i > inserted'
    BY <1>1, SetStatusLeases DEF Invariant
  <1>4. IdleTask \in [pc : Steps, job : Jobs \cup {NoJob}, token : Nat, attempt : 0..MaxAttempts]
    BY Bounds DEF IdleTask
  <1>5. task' = [task EXCEPT ![w] = IdleTask] /\ broker' \subseteq Jobs
    BY DEF Return, Invariant, TypeOK, LeaseTypeOK
  <1>6. task' \in [Workers -> [pc : Steps, job : Jobs \cup {NoJob}, token : Nat,
                               attempt : 0..MaxAttempts]]
    BY <1>4, <1>5 DEF Invariant, TypeOK, LeaseTypeOK
  <1>7. QED
    BY <1>2, <1>3, <1>5, <1>6

LEMMA RecordFailureStep == ASSUME Invariant, NEW w \in Workers, RecordFailure(w) PROVE Invariant'
  <1> DEFINE j == task[w].job
             s == IF Retry(w) THEN "queued" ELSE "failed"
  <1>1. CASE GiveUp(w)
    BY <1>1, GiveUpStep DEF RecordFailure
  <1>2. CASE Held(w) /\ ~GiveUp(w)
    <2> USE DEF jobVars, loopVars
    <2>1. /\ SetStatus({j}, s) /\ Return(w) /\ waiting' \in {waiting, waiting \cup {j}}
          /\ dispatched' \in {dispatched, dispatched \ {j}} /\ task[w].pc \notin {"idle", "claim"}
          /\ UNCHANGED <<inserted, attempts, current, loopVars, lastToken, faults>>
          /\ UNCHANGED jobVars
      BY <1>2 DEF RecordFailure
    <2>2. /\ j \in Jobs /\ j \in current /\ status[j] = "running" /\ repository = "live"
          /\ attempts[j] = task[w].attempt
      BY <1>2, <2>1, HeldFacts
    <2>3. s \in Rows \ {"running"}
      OBVIOUS
    <2>4. /\ Leased' /\ task' = [task EXCEPT ![w] = IdleTask] /\ broker' \subseteq Jobs
          /\ \A i \in Jobs : status'[i] = IF i = j THEN s ELSE status[i]
          /\ status' \in [Jobs -> Rows \cup {"none", "deleted"}]
          /\ token' \in [Jobs -> Nat] /\ lease' \in [Jobs -> {"none", "live", "expired"}]
          /\ task' \in [Workers -> [pc : Steps, job : Jobs \cup {NoJob}, token : Nat,
                                    attempt : 0..MaxAttempts]]
          /\ \A i \in Jobs : token'[i] = token[i] \/ token'[i] = NoToken
          /\ \A i \in Jobs : status'[i] = "none" <=> i > inserted'
      BY <1>2, <2>1, <2>3, ReleaseStep
    <2>5. waiting' \subseteq Jobs /\ dispatched' \subseteq Jobs
      BY <2>1, <2>2 DEF Invariant, TypeOK, LeaseTypeOK
    <2>6. TypeOK'
      BY <2>1, <2>4, <2>5 DEF Invariant, TypeOK, LeaseTypeOK
    <2>7. Claims' /\ FoundOne'
      BY <2>1, <2>4, <2>6, TaskStep DEF Invariant, Follows, IdleTask
    <2>8. Numbered'
      BY <2>1, <2>4 DEF Invariant, Numbered
    <2>9. QueuedIsClaimable'
      <3>1. s = "queued" => attempts[j] < MaxAttempts
        BY <2>2 DEF Retry
      <3>2. QED
        BY <2>1, <2>2, <2>4, <3>1 DEF Invariant, QueuedIsClaimable
    <2> HIDE DEF s
    <2>10. Currency' /\ Ownership' /\ Sources' /\ Imported'
      BY <2>1, <2>2, <2>3, <2>4 DEF Invariant, Currency, Ownership, Sources, Imported, TypeOK,
                                    LeaseTypeOK, s
    <2>11. Written'
      BY <2>1, <2>2, <2>3, <2>4 DEF Invariant, Written, RowsOfOneClaim, s
    <2>12. QED
      BY <2>4, <2>6, <2>7, <2>8, <2>9, <2>10, <2>11 DEF Invariant
  <1>3. QED
    BY <1>1, <1>2 DEF RecordFailure

(* The first completed import finds a repository without a commit or rows; an *)
(* index adds rows of the repository's commit.                              *)
LEMMA PublishStep == ASSUME Invariant, NEW w \in Workers, Publish(w) PROVE Invariant'
  <1> DEFINE j == task[w].job
             new == [by : {task[w].token}, commit : found[w]]
  <1>1. CASE GiveUp(w) /\ UNCHANGED <<rows, commit>>
    BY <1>1, GiveUpStep DEF Publish, jobVars
  <1>2. CASE Held(w) /\ ~(GiveUp(w) /\ UNCHANGED <<rows, commit>>)
    <2> USE DEF loopVars
    <2>1. /\ SetStatus({j}, "completed") /\ Return(w) /\ task[w].pc = "storing"
          /\ rows' = [rows EXCEPT ![j] = @ \cup new]
          /\ IF kind[j] = "import" THEN commit' \in found[w] ELSE UNCHANGED commit
          /\ UNCHANGED <<inserted, attempts, current, waiting, dispatched, loopVars, lastToken, faults>>
          /\ UNCHANGED <<repository, kind, source, pinned, version, release, found>>
      BY <1>2 DEF Publish, Finish
    <2>2. /\ j \in Jobs /\ j \in current /\ status[j] = "running" /\ repository = "live"
          /\ token[j] = task[w].token /\ task[w].token \in Nat
      BY <1>2, <2>1, HeldFacts DEF Invariant, TypeOK, LeaseTypeOK
    <2>3. /\ Leased' /\ task' = [task EXCEPT ![w] = IdleTask] /\ broker' \subseteq Jobs
          /\ \A i \in Jobs : status'[i] = IF i = j THEN "completed" ELSE status[i]
          /\ status' \in [Jobs -> Rows \cup {"none", "deleted"}]
          /\ token' \in [Jobs -> Nat] /\ lease' \in [Jobs -> {"none", "live", "expired"}]
          /\ task' \in [Workers -> [pc : Steps, job : Jobs \cup {NoJob}, token : Nat,
                                    attempt : 0..MaxAttempts]]
          /\ \A i \in Jobs : token'[i] = token[i] \/ token'[i] = NoToken
          /\ \A i \in Jobs : status'[i] = "none" <=> i > inserted'
      BY <1>2, <2>1, ReleaseStep
    <2>4. PICK c \in Commits : found[w] = {c} /\ (kind[j] = "index" => c = commit)
      BY <2>1, <2>2 DEF Invariant, FoundOne, Fetched
    <2>5. commit' = c /\ kind[j] \in Kinds
      BY <2>1, <2>2, <2>4 DEF Invariant, TypeOK
    <2>6. rows[j] = {}
      BY <2>2 DEF Invariant, Written, RowsOfOneClaim
    <2>7. \A i \in Jobs : rows'[i] = IF i = j THEN new ELSE rows[i]
      BY <2>1, <2>2, <2>6 DEF Invariant, TypeOK
    <2>8. new # {} /\ (\A r, s \in new : r = s) /\ (\A r \in new : r.commit = c)
          /\ new \subseteq [by : Nat, commit : Commits]
      <3>1. task[w].token \in Nat /\ new = [by : {task[w].token}, commit : {c}]
        BY <2>2, <2>4
      <3> HIDE DEF new
      <3>2. [by |-> task[w].token, commit |-> c] \in new
        BY <3>1
      <3>3. \A r, s \in new : r = s
        BY <3>1
      <3>4. (\A r \in new : r.commit = c) /\ new \subseteq [by : Nat, commit : Commits]
        BY <3>1
      <3>5. QED
        BY <3>2, <3>3, <3>4
    <2> HIDE DEF new
    <2>9. rows' \in [Jobs -> SUBSET [by : Nat, commit : Commits]]
      BY <2>1, <2>2, <2>6, <2>8 DEF Invariant, TypeOK
    <2>10. TypeOK'
      BY <2>1, <2>3, <2>5, <2>9 DEF Invariant, TypeOK, LeaseTypeOK
    <2>11. \A i \in Jobs : kind[j] = "import" /\ i # j =>
             (status[i] # "completed" /\ (kind[i] = "index" => status[i] \notin Rows))
      BY <2>2 DEF Invariant, Currency, Sources, TypeOK
    <2>12. Claims' /\ FoundOne'
      <3>1. Claims'
        BY <2>1, <2>3, <2>10 DEF Invariant, Claims, IdleTask, TypeOK, LeaseTypeOK
      <3>2. FoundOne'
        <4>1. ASSUME NEW v \in Workers, v # w, task[v].pc \in Fetched,
                     token'[task[v].job] = task[v].token
              PROVE  /\ token[task[v].job] = task[v].token
                     /\ kind[task[v].job] = "index" => commit' = commit
          <5>1. task[v].job \in Jobs /\ task[v].token # NoToken
            BY <4>1 DEF Invariant, Claims, Fetched
          <5>2. token[task[v].job] = task[v].token
            BY <2>3, <4>1, <5>1
          <5>3. status[task[v].job] = "running"
            BY <5>1, <5>2 DEF Invariant, Leased
          <5>4. QED
            BY <2>4, <2>5, <2>11, <5>1, <5>2, <5>3
        <4>2. \A v \in Workers : task'[v] = IF v = w THEN IdleTask ELSE task[v]
          BY <2>3 DEF Invariant, TypeOK, LeaseTypeOK
        <4>3. QED
          BY <2>1, <4>1, <4>2 DEF Invariant, FoundOne, Fetched, IdleTask
      <3>3. QED
        BY <3>1, <3>2
    <2>13. Numbered' /\ QueuedIsClaimable'
      BY <2>1, <2>2, <2>3, <2>7 DEF Invariant, Numbered, QueuedIsClaimable
    <2>14. Currency' /\ Ownership'
      BY <2>1, <2>2, <2>3 DEF Invariant, Currency, Ownership, TypeOK, LeaseTypeOK
    <2>15. Sources'
      BY <2>1, <2>2, <2>3, <2>4, <2>5, <2>11 DEF Invariant, Sources, TypeOK
    <2>16. Imported'
      <3>1. CASE kind[j] = "import"
        BY <2>1, <2>2, <2>3, <2>5, <3>1, Bounds DEF Imported
      <3>2. CASE kind[j] = "index"
        BY <2>1, <2>2, <2>3, <2>4, <2>5, <3>2 DEF Invariant, Imported, TypeOK, LeaseTypeOK
      <3>3. QED
        BY <2>5, <3>1, <3>2
    <2>17. Written'
      <3>1. \A i \in Jobs : i # j /\ commit' # commit => rows[i] = {}
        BY <2>4, <2>5, <2>11 DEF Invariant, Written, RowsOfOneClaim
      <3>2. QED
        BY <2>2, <2>3, <2>5, <2>7, <2>8, <3>1 DEF Invariant, Written, RowsOfOneClaim
    <2>18. QED
      BY <2>3, <2>10, <2>12, <2>13, <2>14, <2>15, <2>16, <2>17 DEF Invariant
  <1>3. QED
    BY <1>1, <1>2 DEF Publish

-----------------------------------------------------------------------------
(* Every step keeps the invariant.                                          *)
LEMMA InvariantStep == Invariant /\ [Next]_vars => Invariant'
  <1> SUFFICES ASSUME Invariant, [Next]_vars PROVE Invariant'
    OBVIOUS
  <1>1. CASE UNCHANGED vars
    <2>1. TypeOK'
      BY <1>1 DEF vars, leaseVars, rowVars, queueVars, loopVars, jobVars, Invariant, TypeOK,
                  LeaseTypeOK
    <2>2. QED
      BY <1>1, <2>1, QuietStep DEF vars, leaseVars, rowVars, jobVars, dataVars
  <1>2. CASE Next
    BY <1>2, RequestsStep, SchedulingStep, ResolveStep, LoadStep, ReportStageStep, PublishStep,
       RecordFailureStep, RaiseStep DEF Next, Work
  <1>3. QED
    BY <1>1, <1>2

(* The theorems.                                                           *)

(* Every step keeps the invariant from which the theorems below follow.       *)
THEOREM InvariantHolds == Spec => []Invariant
  BY InitInvariant, InvariantStep, PTL DEF Spec

(* The types of all variables are preserved.                                *)
THEOREM TypeCorrect == Spec => []TypeOK
  <1>1. Invariant => TypeOK
    BY DEF Invariant
  <1>2. QED
    BY <1>1, InvariantHolds, PTL

(* No job waits with its attempts used up, or for a claim that is refused.     *)
THEOREM QueuedJobsClaimable == Spec => []QueuedIsClaimable
  <1>1. Invariant => QueuedIsClaimable
    BY DEF Invariant
  <1>2. QED
    BY <1>1, InvariantHolds, PTL

(* However often a job is taken over, its rows are those of one claim.        *)
THEOREM RowsWrittenOnce == Spec => []RowsOfOneClaim
  <1>1. Invariant => RowsOfOneClaim
    BY DEF Invariant, Written
  <1>2. QED
    BY <1>1, InvariantHolds, PTL

(* Files, indexes and the repository's row are of the same commit.            *)
THEOREM CommitsAgree == Spec => []OneCommit
  <1>1. Invariant => OneCommit
    <2> SUFFICES ASSUME Invariant, repository = "live" PROVE OneCommit
      BY DEF OneCommit
    <2>1. commit # NoCommit <=> \E j \in Import : status[j] = "completed"
      BY DEF Invariant, Imported, Import
    <2>2. \A j \in Jobs : \A r \in rows[j] : r.commit = commit
      BY DEF Invariant, Written
    <2>3. ASSUME NEW j \in Table("index") PROVE pinned[j] = commit /\ source[j] \in Import
      <3>1. j \in Jobs /\ kind[j] = "index" /\ status[j] # "none" /\ status[j] # "deleted"
        BY Bounds DEF Table, Invariant, TypeOK, LeaseTypeOK, Numbered, Ownership, Jobs
      <3>2. status[j] \in Rows
        BY <3>1 DEF Invariant, TypeOK, LeaseTypeOK
      <3>3. QED
        BY <3>1, <3>2 DEF Invariant, Sources, Import
    <2>4. QED
      BY <2>1, <2>2, <2>3 DEF OneCommit
  <1>2. QED
    BY <1>1, InvariantHolds, PTL

(* One import and at most one index are current, and nothing else is active.   *)
THEOREM CurrentJobsUnique == Spec => []OneCurrent
  <1>1. Invariant => OneCurrent
    <2> SUFFICES ASSUME Invariant PROVE OneCurrent
      OBVIOUS
    <2> DEFINE I == {j \in current : kind[j] = "index"}
    <2>1. ASSUME repository = "live" PROVE Cardinality(Import) = 1
      <3>1. PICK j \in Import : TRUE
        BY <2>1 DEF Invariant, Ownership, Import
      <3>2. Import = {j}
        BY <3>1 DEF Invariant, Currency, Import
      <3>3. QED
        BY <3>2, FS_Singleton
    <2>2. Cardinality(I) <= 1
      <3>1. CASE I = {}
        BY <3>1, FS_EmptySet
      <3>2. ASSUME NEW j \in I PROVE Cardinality(I) <= 1
        <4>1. I = {j}
          BY <3>2 DEF Invariant, Currency
        <4>2. QED
          BY <4>1, FS_Singleton
      <3>3. QED
        BY <3>1, <3>2
    <2>3. \A j \in Jobs : status[j] \in Active => j \in current
      BY DEF Invariant, Currency
    <2>4. QED
      BY <2>1, <2>2, <2>3 DEF OneCurrent
  <1>2. QED
    BY <1>1, InvariantHolds, PTL

-----------------------------------------------------------------------------
(* Imports and indexes follow the life cycle of leased jobs.                *)

LEMMA InitRefines == Init => Lifecycle!Init
  BY DEF Init, InitLeases, Lifecycle!Init

(* Nothing of the life cycle changes.                                       *)
LEMMA Stutter ==
  ASSUME UNCHANGED <<status, attempts, rows>>
  PROVE  UNCHANGED Lifecycle!jvars
  BY DEF Lifecycle!jvars

-----------------------------------------------------------------------------
(* What each kind of step is in the life cycle.                             *)

LEMMA InsertRefines ==
  ASSUME Invariant, NEW old \in SUBSET Jobs, Insert(old), UNCHANGED rows
  PROVE  Lifecycle!Next
  <1> DEFINE i == inserted + 1
  <1>1. i \in Jobs /\ status[i] = "none"
    BY InsertFacts
  <1>2. status' = [j \in Jobs |-> IF j \in {i} THEN "queued" ELSE status[j]]
    BY <1>1 DEF Insert, Invariant, TypeOK, LeaseTypeOK
  <1>3. Lifecycle!Accept(i)
    BY <1>1, <1>2 DEF Insert, Lifecycle!Accept, Lifecycle!Enter
  <1>4. QED
    BY <1>1, <1>3 DEF Lifecycle!Next

(* Rows that are ended together are ended one by one in the life cycle.     *)
LEMMA EndRefines ==
  ASSUME NEW S \in SUBSET Jobs, NEW s, SetStatus(S, s),
         UNCHANGED <<attempts, rows>>,
         \/ s = "cancelled" /\ \A j \in S : status[j] \in Active
         \/ s = "failed" /\ \A j \in S : status[j] = "running"
  PROVE  Lifecycle!Next
  <1>1. Lifecycle!Enter(S, s)
    BY DEF SetStatus, Lifecycle!Enter
  <1>2. Lifecycle!Cancel(S) \/ Lifecycle!Abandon(S)
    BY <1>1 DEF Lifecycle!Cancel, Lifecycle!Abandon, Lifecycle!Active
  <1>3. QED
    BY <1>2 DEF Lifecycle!Next

LEMMA RemoveRefines == ASSUME Invariant, RemoveRepository PROVE Lifecycle!Next
  <1>0. PICK S \in SUBSET Jobs : S = {j \in Jobs : status[j] \in Rows}
    OBVIOUS
  <1>1. Lifecycle!Enter(S, "deleted") /\ UNCHANGED attempts
    BY <1>0 DEF RemoveRepository, DeleteAll, SetStatus, Lifecycle!Enter
  <1>2. \A j \in Jobs : rows'[j] = {} /\ (rows[j] # {} => j \in S)
    BY <1>0 DEF RemoveRepository, Invariant, Written, RowsOfOneClaim
  <1>3. {j \in Jobs : rows'[j] # {}} = {j \in Jobs : rows[j] # {}} \ S
    BY <1>2
  <1>4. \A j \in S : status[j] \in Lifecycle!Active \cup Lifecycle!Terminal
    BY <1>0 DEF Lifecycle!Active, Lifecycle!Terminal
  <1>5. Lifecycle!Delete(S)
    BY <1>1, <1>3, <1>4 DEF Lifecycle!Delete
  <1>6. QED
    BY <1>5 DEF Lifecycle!Next

(* A claim starts its job, or starts it again.                              *)
LEMMA ClaimRefines ==
  ASSUME Invariant, NEW w \in Workers, Claim(w), UNCHANGED jobVars
  PROVE  [Lifecycle!Next]_(Lifecycle!jvars)
  <1> DEFINE j == task[w].job
  <1>1. CASE GiveUp(w)
    BY <1>1, Stutter DEF GiveUp, rowVars, jobVars
  <1>2. CASE Claimable(j) /\ ~GiveUp(w)
    <2>1. j \in Jobs /\ attempts[j] < MaxAttempts /\ status[j] \in Active
      BY <1>2 DEF Claimable, Invariant, TypeOK, LeaseTypeOK
    <2>2. status' = [i \in Jobs |-> IF i \in {j} THEN "running" ELSE status[i]]
      BY <1>2, <2>1 DEF Claim, Invariant, TypeOK, LeaseTypeOK
    <2>3. attempts' = [attempts EXCEPT ![j] = @ + 1] /\ UNCHANGED rows
      BY <1>2 DEF Claim, jobVars
    <2>4. Lifecycle!Try(j)
      BY <2>1, <2>2, <2>3 DEF Lifecycle!Try, Lifecycle!Enter, Lifecycle!Active
    <2>5. QED
      BY <2>1, <2>4 DEF Lifecycle!Next
  <1>3. QED
    BY <1>1, <1>2 DEF Claim

(* A recorded failure ends the job or leaves it to be claimed again.        *)
LEMMA RecordFailureRefines ==
  ASSUME Invariant, NEW w \in Workers, RecordFailure(w)
  PROVE  [Lifecycle!Next]_(Lifecycle!jvars)
  <1> DEFINE j == task[w].job
             s == IF Retry(w) THEN "queued" ELSE "failed"
  <1>1. CASE GiveUp(w)
    BY <1>1, Stutter DEF RecordFailure, GiveUp, rowVars, jobVars
  <1>2. CASE Held(w) /\ ~GiveUp(w)
    <2>1. SetStatus({j}, s) /\ task[w].pc \notin {"idle", "claim"} /\ UNCHANGED <<attempts, rows>>
      BY <1>2 DEF RecordFailure, jobVars
    <2>2. j \in Jobs /\ status[j] = "running" /\ attempts[j] = task[w].attempt
      BY <1>2, <2>1, HeldFacts
    <2>3. CASE Retry(w)
      <3>1. Lifecycle!Enter({j}, "queued") /\ attempts[j] < MaxAttempts
        BY <2>1, <2>2, <2>3 DEF SetStatus, Lifecycle!Enter, Retry
      <3>2. Lifecycle!Requeue(j)
        BY <2>1, <2>2, <3>1 DEF Lifecycle!Requeue
      <3>3. QED
        BY <2>2, <3>2 DEF Lifecycle!Next
    <2>4. CASE ~Retry(w)
      BY <2>1, <2>2, <2>4, EndRefines
    <2>5. QED
      BY <2>3, <2>4
  <1>3. QED
    BY <1>1, <1>2 DEF RecordFailure

(* A publication completes its job and makes its rows readable at once.     *)
LEMMA PublishRefines ==
  ASSUME Invariant, Invariant', NEW w \in Workers, Publish(w)
  PROVE  [Lifecycle!Next]_(Lifecycle!jvars)
  <1>1. CASE GiveUp(w) /\ UNCHANGED rows
    BY <1>1, Stutter DEF GiveUp, rowVars
  <1>2. CASE Held(w) /\ ~(GiveUp(w) /\ UNCHANGED <<rows, commit>>)
    <2>0. PICK j \in Jobs : j = task[w].job /\ status[j] = "running"
      BY <1>2, HeldFacts DEF Publish
    <2>1. /\ SetStatus({j}, "completed") /\ task[w].pc = "storing" /\ UNCHANGED attempts
          /\ rows' = [rows EXCEPT ![j] = @ \cup [by : {task[w].token}, commit : found[w]]]
      BY <1>2, <2>0 DEF Publish, Finish
    <2>2. j \in Jobs /\ status[j] = "running"
      BY <2>0
    <2>3. status'[j] = "completed" /\ Lifecycle!Enter({j}, "completed")
      BY <2>1, <2>2 DEF SetStatus, Lifecycle!Enter
    <2>4. rows'[j] # {} /\ \A i \in Jobs : i # j => rows'[i] = rows[i]
      BY <2>1, <2>2, <2>3 DEF Invariant, Written, RowsOfOneClaim, TypeOK
    <2>5. {i \in Jobs : rows'[i] # {}} = {i \in Jobs : rows[i] # {}} \cup {j}
      BY <2>2, <2>4
    <2>6. Lifecycle!Complete(j)
      BY <2>1, <2>2, <2>3, <2>5 DEF Lifecycle!Complete
    <2>7. QED
      BY <2>2, <2>6 DEF Lifecycle!Next
  <1>3. QED
    BY <1>1, <1>2 DEF Publish

(* Together: users, and the scheduling of the jobs.                         *)
LEMMA RequestsRefine ==
  ASSUME Invariant, Requests
  PROVE  [Lifecycle!Next]_(Lifecycle!jvars)
  <1>1. CASE Connect
    BY <1>1, InsertRefines, {} \in SUBSET Jobs DEF Connect
  <1>2. ASSUME NEW j \in Jobs, RetryImport(j) PROVE Lifecycle!Next
    BY <1>2, InsertRefines, {j} \in SUBSET Jobs DEF RetryImport, jobVars
  <1>3. ASSUME NEW s \in Jobs, StartIndex(s) PROVE Lifecycle!Next
    BY <1>3, InsertRefines, Latest(s) \in SUBSET Jobs
       DEF StartIndex, Latest, Invariant, TypeOK, LeaseTypeOK
  <1>4. ASSUME NEW j \in Jobs, CancelImport(j) PROVE Lifecycle!Next
    BY <1>4, EndRefines, {j} \in SUBSET Jobs DEF CancelImport, CancelJobs, jobVars
  <1>5. ASSUME NEW s \in Jobs, CancelIndex(s) PROVE Lifecycle!Next
    <2>1. Latest(s) \in SUBSET Jobs /\ \A j \in Latest(s) : status[j] \in Active
      BY <1>5 DEF CancelIndex, Latest, Invariant, Currency, TypeOK, LeaseTypeOK
    <2>2. QED
      BY <1>5, <2>1, EndRefines DEF CancelIndex, CancelJobs, jobVars
  <1>6. CASE Upgrade
    BY <1>6, Stutter DEF Upgrade, leaseVars, rowVars
  <1>7. QED
    BY <1>1, <1>2, <1>3, <1>4, <1>5, <1>6, RemoveRefines DEF Requests

LEMMA SchedulingRefines ==
  ASSUME Invariant, Scheduling(Tables), UNCHANGED jobVars
  PROVE  [Lifecycle!Next]_(Lifecycle!jvars)
  <1>1. CASE Sweep(Tables)
    <2>1. Lost \cap Tables[turn] \in SUBSET Jobs /\ \A j \in Lost : status[j] = "running"
      BY DEF Lost
    <2>2. QED
      BY <1>1, <2>1, EndRefines DEF Sweep, jobVars
  <1>2. CASE UNCHANGED <<status, attempts>>
    BY <1>2, Stutter DEF jobVars
  <1>3. ASSUME NEW w \in Workers, Claim(w) PROVE [Lifecycle!Next]_(Lifecycle!jvars)
    BY <1>3, ClaimRefines
  <1>4. QED
    BY <1>1, <1>2, <1>3 DEF Scheduling, Dispatcher, Clock, PublishMessage, MarkDispatched,
       AbortCycle, LeaseExpires, BackoffEnds, RedispatchDue, LoseMessage, Crash, Deliver, rowVars

(* Every step is a step of the life cycle, or none.                          *)
LEMMA StepRefines ==
  ASSUME Invariant, Invariant', [Next]_vars
  PROVE  [Lifecycle!Next]_(Lifecycle!jvars)
  <1>1. CASE UNCHANGED vars
    BY <1>1, Stutter DEF vars, leaseVars, rowVars, jobVars
  <1>2. ASSUME NEW w \in Workers, Resolve(w) \/ Load(w) \/ ReportStage(w) \/ Raise(w)
        PROVE  [Lifecycle!Next]_(Lifecycle!jvars)
    <2>1. UNCHANGED <<status, attempts, rows>>
      BY <1>2 DEF Resolve, Load, ReportStage, Raise, Proceed, GiveUp, rowVars, jobVars
    <2>2. QED
      BY <2>1, Stutter
  <1>3. CASE Next
    BY <1>2, <1>3, RequestsRefine, SchedulingRefines, RecordFailureRefines, PublishRefines
       DEF Next, Work
  <1>4. QED
    BY <1>1, <1>3

(* Imports and indexes implement the life cycle of leased jobs.              *)
THEOREM JobsFollowLifecycle == Spec => ImplementsJobLifecycle
  <1>1. Invariant /\ Invariant' /\ [Next]_vars => [Lifecycle!Next]_(Lifecycle!jvars)
    BY StepRefines
  <1>2. QED
    BY <1>1, InitRefines, InvariantHolds, PTL DEF Spec, Lifecycle!Spec, ImplementsJobLifecycle

-----------------------------------------------------------------------------
(* Readers keep an index.                                                  *)

(* The indexes that readers may follow.                                     *)
LEMMA Readable ==
  Invariant => CompletedIndexes = {j \in Jobs : kind[j] = "index" /\ status[j] = "completed"}
  <1> SUFFICES ASSUME Invariant
               PROVE  CompletedIndexes = {j \in Jobs : kind[j] = "index" /\ status[j] = "completed"}
    OBVIOUS
  <1>1. \A j \in Jobs : kind[j] = "index" /\ status[j] = "completed" => source[j] \in Import
    BY DEF Invariant, Sources, Import
  <1>2. \A j : j \in 1..inserted => j \in Jobs
    BY Bounds DEF Invariant, TypeOK, LeaseTypeOK, Jobs
  <1>3. \A j \in Jobs : status[j] = "completed" => j \in 1..inserted
    BY Bounds DEF Invariant, TypeOK, LeaseTypeOK, Numbered, Jobs
  <1>4. QED
    BY <1>1, <1>2, <1>3 DEF CompletedIndexes, Table

(* While the repository lives, a step completes one job at most and takes the *)
(* completion of none back.                                                *)
LEMMA CompletionStep ==
  ASSUME Invariant, Invariant', [Next]_vars, repository' = "live"
  PROVE  \E k \in Nat : \A j \in Jobs :
           /\ status[j] = "completed" => status'[j] = "completed"
           /\ status'[j] = "completed" /\ j # k => status[j] = "completed"
  <1>1. [Lifecycle!Next]_(Lifecycle!jvars)
    BY StepRefines
  <1>2. CASE UNCHANGED Lifecycle!jvars
    BY <1>2 DEF Lifecycle!jvars
  <1>3. ASSUME NEW j \in Jobs, Lifecycle!Accept(j) \/ Lifecycle!Try(j) \/ Lifecycle!Requeue(j)
                                 \/ Lifecycle!Complete(j) \/ Lifecycle!Resume(j)
        PROVE  \A i \in Jobs : /\ status[i] = "completed" => status'[i] = "completed"
                               /\ status'[i] = "completed" /\ i # j => status[i] = "completed"
    BY <1>3 DEF Lifecycle!Accept, Lifecycle!Try, Lifecycle!Requeue, Lifecycle!Complete,
                Lifecycle!Resume, Lifecycle!Enter, Lifecycle!Active
  <1>4. ASSUME NEW S \in SUBSET Jobs, Lifecycle!Abandon(S) \/ Lifecycle!Cancel(S)
        PROVE  \A i \in Jobs : status[i] = "completed" <=> status'[i] = "completed"
    BY <1>4 DEF Lifecycle!Abandon, Lifecycle!Cancel, Lifecycle!Enter, Lifecycle!Active
  <1>5. ASSUME NEW S \in SUBSET Jobs, Lifecycle!Delete(S)
        PROVE  \A i \in Jobs : status[i] = "completed" <=> status'[i] = "completed"
    <2>1. \A i \in Jobs : status'[i] = IF i \in S THEN "deleted" ELSE status[i]
      BY <1>5 DEF Lifecycle!Delete, Lifecycle!Enter
    <2>2. \A i \in Jobs : status'[i] # "deleted"
      BY DEF Invariant, Ownership
    <2>3. QED
      BY <2>1, <2>2
  <1>6. QED
    BY <1>1, <1>2, <1>3, <1>4, <1>5, Bounds DEF Lifecycle!Next

(* A row stays in its table.                                                *)
LEMMA KindsStay ==
  ASSUME Invariant, [Next]_vars, NEW j \in Jobs, status[j] # "none"
  PROVE  kind'[j] = kind[j]
  <1>1. CASE kind' = kind
    BY <1>1
  <1>2. ASSUME NEW s \in Jobs, StartIndex(s) PROVE kind'[j] = kind[j]
    <2>1. Insert(Latest(s)) /\ Latest(s) \in SUBSET Jobs
      BY <1>2 DEF StartIndex, Latest, Invariant, TypeOK, LeaseTypeOK
    <2>2. j # inserted + 1
      BY <2>1, InsertFacts
    <2>3. QED
      BY <1>2, <2>2 DEF StartIndex, Invariant, TypeOK
  <1>3. QED
    BY <1>1, <1>2 DEF Next, Requests, Connect, RemoveRepository, Upgrade, RetryImport,
       CancelImport, CancelIndex, Work, Resolve, Load, ReportStage, Publish, RecordFailure, Raise,
       jobVars, vars

(* The newest readable index of a step's end is the old one, or a newer one.  *)
LEMMA ReadersStep ==
  ASSUME Invariant, Invariant', [Next]_vars, repository' = "live", ActiveIndex # {}
  PROVE  \E new \in ActiveIndex' : \A old \in ActiveIndex : old <= new
  <1>1. PICK k \in Nat : \A j \in Jobs :
           /\ status[j] = "completed" => status'[j] = "completed"
           /\ status'[j] = "completed" /\ j # k => status[j] = "completed"
    BY CompletionStep
  <1>2. \A j \in Jobs : status[j] = "completed" => kind'[j] = kind[j]
    BY KindsStay
  <1>3. /\ CompletedIndexes = {j \in Jobs : kind[j] = "index" /\ status[j] = "completed"}
        /\ CompletedIndexes' = {j \in Jobs : kind'[j] = "index" /\ status'[j] = "completed"}
    <2>1. Invariant' =>
            (CompletedIndexes = {j \in Jobs : kind[j] = "index" /\ status[j] = "completed"})'
      BY Readable, PTL
    <2>2. QED
      BY <2>1, Readable
  <1>4. CompletedIndexes \subseteq CompletedIndexes'
    BY <1>1, <1>2, <1>3
  <1>5. \A j \in CompletedIndexes' : j = k \/ j \in CompletedIndexes
    BY <1>1, <1>2, <1>3
  <1>6. CompletedIndexes \subseteq Nat /\ CompletedIndexes' \subseteq Nat
    BY <1>3, Bounds
  <1>7. PICK old \in ActiveIndex : TRUE
    OBVIOUS
  <1>8. old \in CompletedIndexes /\ (\A i \in CompletedIndexes : i <= old)
    BY <1>7 DEF ActiveIndex
  <1>9. \A i \in ActiveIndex : i <= old
    BY <1>8 DEF ActiveIndex
  <1>10. CASE k \in CompletedIndexes' /\ old <= k
    <2>1. \A i \in CompletedIndexes' : i <= k
      BY <1>5, <1>6, <1>8, <1>10
    <2>2. k \in ActiveIndex'
      BY <1>10, <2>1 DEF ActiveIndex
    <2>3. QED
      BY <1>6, <1>8, <1>9, <1>10, <2>2 DEF ActiveIndex
  <1>11. CASE ~(k \in CompletedIndexes' /\ old <= k)
    <2>1. \A i \in CompletedIndexes' : i <= old
      BY <1>5, <1>6, <1>8, <1>11
    <2>2. old \in ActiveIndex'
      BY <1>4, <1>8, <2>1 DEF ActiveIndex
    <2>3. QED
      BY <1>9, <2>2
  <1>12. QED
    BY <1>10, <1>11

(* An index stays readable until a newer one completes (ADR 0004).            *)
THEOREM IndexStaysReadable == Spec => ReadersKeepAnIndex
  <1>1. Invariant /\ Invariant' /\ [Next]_vars =>
          [repository' = "live" /\ ActiveIndex # {} =>
             \E new \in ActiveIndex' : \A old \in ActiveIndex : old <= new]_vars
    BY ReadersStep
  <1>2. QED
    BY <1>1, InvariantHolds, PTL DEF Spec, ReadersKeepAnIndex

=============================================================================
