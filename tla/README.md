# A verification of RepoPilot in TLA+

RepoPilot imports a public GitHub repository, indexes it, prepares it for search and answers
questions about it with cited evidence. Its backend is FastAPI, PostgreSQL, Redis and Celery, its
frontend is React. Nearly everything that is hard in it comes from one decision: long work is a row
of the database that an API request inserts, a dispatcher publishes again and again over an
at-least-once broker, and a worker claims under a lease, while users cancel, retry, re-index and
delete. This directory holds models of that machinery, the configurations that model-check them
with TLC, and proofs that TLAPS checks. Everything is read off the code; documents and ADRs are
quoted only where the code is compared with them. `PROJECT.json` maps every definition to its lines.

To check: `tlc -config <cfg> <MC module>` for the runs below, `tlapm <module>` for the proofs.

## 1. Inventory

| Component | State | Operations | Interacts with | What is hard | What makes it correct |
|---|---|---|---|---|---|
| Answer runs (`services/answer_runs.py`, `jobs/answer_run.py`, `jobs/answer_dispatcher.py`) | `answer_runs`, `run_events`, `usage_receipts`, broker, worker locals | submit, cancel, claim, execute, preview, record usage, publish, fail, sweep, dispatch | conversations, search, provider, broker | duplicate delivery, dead workers, cancellation and deletion during a paid call | one execution, one payment per purpose, atomic publication, honest usage, termination |
| Conversations (`services/conversations.py`, `repositories/conversation.py`) | message counter, message pairs | create, delete, ask synchronously, append a pair | answer runs | two kinds of writers, a minute between read and write, the last free positions | gapless transcript, nothing returns after deletion |
| Repository imports (`services/repository.py`, `jobs/import_repository.py`) | `repositories`, `import_jobs`, files | connect, retry, cancel, remove, claim, stages, publish, retry with backoff | GitHub, broker, indexes | takeover of expired leases, attempts running out | files of one claim and one commit, every job ends |
| Source indexes (`services/index.py`, `jobs/index_repository.py`) | `repository_indexes`, symbols, chunks | start, supersede, cancel, publish | imports, search, answer runs | replacing an index that is being read | one current index, readers never lose theirs |
| Search preparation (`services/search_preparation.py`, `jobs/prepare_search.py`) | `search_indexes`, documents, token ledger | start, resume, cancel, reserve, embed, checkpoint, complete | indexes, embedding provider | paid batches under takeover and resumption | spending within the budget, ledger equals documents |
| The job dispatcher (`jobs/dispatcher.py`) | its cycle: table, batch, id to mark | sweep, select, publish, mark | the three kinds of jobs, broker | one process serves the tables in turn and may stop anywhere | no table is starved |
| Event stream (`services/run_stream.py`, `RunTimeline.tsx`, `events.ts`) | handler's page and cursor, frames on the wire, the shown timeline | connect, poll, send, read, reconnect | answer runs, sessions | two statements per page, broken connections, replay | the timeline is the log, complete means complete, no stray draft |
| Submission (`RunComposer.tsx`, `api.ts`, `services/answer_runs.py`) | key, pending, list of runs in the tab | press, retry, cancel, poll, replay | answer runs | lost answers, late requests, polls in between | a key makes one run, nothing is forgotten silently |
| Row locks and quotas (every service and job that writes) | locks and uncommitted writes of open transactions | each transaction as the sequence of its locks | PostgreSQL | orders of locks, cascades, counts before insertions | known deadlocks only, no limit exceeded |
| Provider streaming (`generation/openai*.py`, `jobs/answer_preview.py`) | text, identity and number of the last event | read events, validate, report usage | answer runs | unvouched event sequences | accepted exactly when whole, usage survives rejection |
| Archive reading (`indexing/archive.py`) | names seen, bytes and members counted | read a member, skip, store, refuse | imports, chunking | five limits, names of skipped members | exactly the wanted files, or a refusal |
| Parsing and chunking (`indexing/parser.py`, `chunks.py`) | none between calls | cut a file | indexes | line ends, wide characters, nesting | an exact partition under the right names |
| Ranking, evidence, history (`retrieval/ranking.py`, `retrieval/context.py`, `repositories/conversation_history.py`, `generation/history.py`, `generation/context.py`) | none between calls | fuse channels, fill a budget, select turns, drop until it fits | answer service | a constant that is just large enough, several limits at once | agreement wins, first fit, a recent unbroken dialogue |
| Answer service and retrieval (`services/answers.py`, `services/search.py`) | none of their own | retrieve, check the source, call, validate | all of the above | a source that changes meanwhile | evidence of the pinned source |
| Sessions (`services/auth.py`), rate limits (`core/rate_limits.py`), GitHub client, embeddings, browser views, evaluation, health, configuration, migrations | one row or counter each, or none | see section 5 | | | |

The hazards, each at its line and with the properties that would catch it, are in `PROJECT.json`.

## 2. Modules

```
RunLifecycle  <=  AnswerRuns         (AnswerRunsRefinement)     the core
JobLifecycle  <=  RepositoryJobs     (both EXTEND JobLeases)
              <=  SearchPreparation
RunStream, RunSubmission                                        the browser and its requests
RowLocks                                                        all transactions, as their locks
Archive, Chunking, AnswerContext, ProviderStream                sequential parts (MCAlgorithms)
```

`MC*` modules extend a specification for TLC and add symmetry and the larger constants. Eight
modules hold proofs: AnswerRunsProofs and AnswerRunsConversationProofs (over AnswerRunsInvariant),
SearchPreparationProofs (the lemmas about leases with it) and RepositoryJobsProofs, RunStreamProofs,
RunSubmissionProofs, RowLocksProofs, and AlgorithmsProofs for the sequential parts.

**AnswerRuns.** One action is one database transaction, one exchange with the provider or one with
the broker; between two actions of a worker anything may happen. A worker's `task` holds the locals
of `run_answer` and where it stands: claim, load, search, begin (commit an open receipt), send,
await, record, context, publish or fail. `Submit` is the transaction behind the HTTP request with
its refusals; replays of a known key change nothing and are stuttering here (RunSubmission has
them). `Sweep`, `PublishMessage` and `MarkDispatched` are the three transactions of the dispatcher,
which may crash between them. The broker is a set of runs with a deliverable message: a message
may be lost, delivered while another delivery executes, and redelivered, so duplicates need no
count. Leases and ages expire by actions of their own. History variable: `calls`, the requests sent.

**RunLifecycle** is what a client may rely on: queued, running, one terminal status, an answer
visible in the step that completes the run, both gone with the conversation.
`AnswerRunsRefinement` maps `phase` to the status column and `answers` to the turns with a pair.

**JobLeases** is the protocol that imports, indexes and preparations share (`jobs/state.py`,
`jobs/dispatcher.py`): claim with an attempt count, takeover of an expired lease, fencing by token,
sweep, dispatch. The dispatcher is one process: `turn` is the table its cycle comes to, `Sweep`
fails what may not be claimed again and selects a batch, each id of it is published and marked, and
then comes the next table. `AbortCycle` is the process's death or a database error; the tables
behind it wait for the next cycle. **RepositoryJobs** adds imports and indexes of one repository with
their commits and pipeline versions; **SearchPreparation** adds batches, reservations and resumption.
Both implement **JobLifecycle**, with and without resumption.

**RunStream** has the run (its log, lease and draft), the server's handler with the row it read
before the events, the wire, and the browser's timeline. **RunSubmission** has the rows of one
conversation, the tab's form, one POST and one poll under way, and submissions whose tab has given
up (`stray`); history variables say which text a key was sent for (`about`) and which earlier key a
press under the retry message stands for (`retried`).

**RowLocks** writes every transaction that takes more than one row lock as the list of its
statements: the locks a statement takes (KEY SHARE by a foreign key, NO KEY UPDATE by an UPDATE, FOR
UPDATE by a DELETE or `with_for_update`), the row whose state decides whether the transaction goes
on, and the state it leaves. A DELETE appends the cascade of what refers to the row. A statement
waits while another transaction holds a conflicting lock and judges the row again when it gets it
(READ COMMITTED); writes are seen by others at the commit; a count sees what is committed.
`GiveUp` is the victim of a deadlock or of the command timeout of three seconds
(`database/session.py`).

**Archive** folds `read_archive` over the members of an archive with its names and counters.
**Chunking** opens spans and cuts them, for every file and every forest of definitions the parser can
yield. **AnswerContext** has what the model is given: rank fusion of three channels, both ways to
fill a budget of evidence, the turns a submission stores, and the ones its prompt keeps.
**ProviderStream** reads one request's events; its outcomes are what AnswerRuns' `Respond` and
`Delta` choose from. **MCAlgorithms** runs these four over small inputs, one part per behaviour.

### Abstractions

* A conversation's pair is one record; deletion of a parent deletes its rows in the same step
  (RowLocks has the cascade row by row).
* Guards that only refuse a request (quotas, throttles, configuration, history snapshot, ownership)
  are either left out, because a refused request changes nothing, or a nondeterministic failure
  where something was already done (`Raise`).
* Lease tokens are a counter: `uuid4` never repeats. Tokens and clocks have no arithmetic: a lease
  is live or expired, a queued run young or aged, a message due or not.
* What a job stores (files, symbols, chunks) is one row with its writer and commit. Every chunk
  costs one token. The search pipeline version is fixed; the worker's image version is chosen when
  it loads an index job.
* The dispatcher marks a job with the time its cycle began (`dispatcher.py` 24, 75). The mark counts
  as fresh when it is set: a batch that takes longer than thirty seconds to publish is selected
  again in the next cycle, which the model has anyway, because marks expire at any moment.
* In RunStream the two statements of a page are two actions; "none" is an empty draft. Deletion
  between the statements leaves frames without events, so two properties except deleted runs.
* In RunSubmission a run is active or not, text is typed or not, and which refusal a request meets
  is chosen freely. The reload of the history after completion is left out.
* In RowLocks there is one user and one hour; deeper rows hang on the first row of their parent's
  table; a row nothing else waits for (users, sessions, events, receipts, messages, symbols,
  documents) is left out; two insertions under one unique key are not modelled; a retry resolves the
  current job when its transaction begins; the dispatcher runs alone.
* In ProviderStream a text is a sequence of pieces, "late" says that a number does not increase,
  and everything that ends a stream without a verdict (HTTP status, size, encoding, EOF, time) is
  `Break`. The adapter compares the streamed text with the item the deltas named and does not check
  that this item is the message it validates; `Responses` has other items with text of their own,
  and `AcceptedIffWhole` says of which item it speaks.
* In Chunking imports and variables are left out: chunking skips them and they nest nothing. In
  Archive what makes a name unsafe or ignored is an attribute of the member, and the deadline is the
  number of members that can be read.
* In AnswerContext scores are exact: `Scale` is a common multiple of the denominators. The code adds
  binary floats, whose rounding could only matter between scores that are equal or nearly so. The
  size of a list of turns or hits is the sum of its items' sizes, and a turn is one question with
  its answer.

## 3. Runs

| Run | Bounds | What it shows |
|---|---|---|
| `answer_runs_duplicates` | 1 run, 2 workers, 2 conversations, 2 source generations, both modes | All paths of one run under duplication, loss, crashes, expiry, cancellation, deletion and re-indexing: executed once, paid once per purpose, log, usage and evidence truthful, receipts only forward |
| `answer_runs_conversation` | 2 runs and a synchronous question, room for 2 pairs, 1 worker | The transcript has no gap, one run is active, deletion is final, publication atomic; implements RunLifecycle; every run ends |
| `repository_imports` | 2 jobs, 2 workers, 2 commits, 3 claims, 2 attempts, 1 fault | Takeovers and retries: no queued job is stuck, rows are of one claim |
| `repository_indexes` | 3 jobs, 2 commits, 2 releases, 1 worker, no fault | Import, index and its successor: one commit throughout, one current index, readers keep theirs |
| `repository_liveness` | 2 jobs in two tables, 1 worker, 4 claims, 1 fault | Implements JobLifecycle; every job ends although one process serves both tables |
| `search_batches` | 3 chunks in batches of 2, 2 workers, 3 claims, 1 resume, 2 budgets | Budget and ledger under takeover and resumption |
| `search_liveness` | 2 batches, 2 source indexes, 1 resume, 1 fault | Implements JobLifecycle with resumption; every preparation ends |
| `run_stream` | 3 polls per connection, 2 previews, 2 faults | The timeline is a prefix of the log, is complete when it says so, shows drafts only while running, and completes |
| `run_submission` | 1 tab that closes and reopens, 3 keys | One run per key, no silent loss, pending submissions are recognised |
| `run_submission_retry` | as above, 2 keys | Violated, see section 6 |
| `algorithms` | archives of up to 4 members; files of up to 5 characters and 3 definitions with a limit of 4 bytes; 3 channels of up to 3 of 4 chunks; dialogues of up to 4 turns; streams of up to 4 events | Each sequential part does what it promises, for every such input |
| `row_locks` | 3 transactions open at once and 3 begun, from states with up to 3 repositories and rows of every table, limits of 2 | A deadlock always involves the removal of a repository and one of five other operations; concurrent counts keep the limits |

Why the bounds are enough to be of use: what a property compares is always within them. Two
workers are needed for a worker that outlives its lease beside its successor; two attempts for the
last one to differ from the first; two conversations for the cascade to spare one; two pairs for
the counter to meet its limit while two writers race; three claims for a takeover after a retry;
two sources for a source that changes; three transactions for a cycle of three. Faults (crashes and
losses) are bounded by `MaxFaults` in the job modules; in AnswerRuns they are not bounded.
`BatchLimit = 1` makes the dispatcher leave jobs behind in every cycle. Other bounds: `MaxRuns`,
`MaxJobs`, `MaxTokens` (claims), `MaxSource`, `MaxRelease`, `MaxResumes`, `MaxRevision`, `MaxKeys`,
`MaxLength`, `MaxSymbols`, `MaxTransactions`, `Copies`; the code's own limits (`MaxMessages`,
`RunLimit`, `ConversationLimit`, `RepositoryLimit`, `ImportLimit`, `MaxAttempts`, `BatchSize`,
`Polls`, `ListLimit`, `EventLimit`, `TextLimit`, `MaxBytes`, the limits of Archive and of
AnswerContext) keep their role with smaller values. `Damping = 4` with three candidates is close to
its edge as the code's 60 with thirty is: a chunk in three channels outranks one in two exactly while
the damping exceeds twice the number of candidates less three (57 and 3). Symmetry is used in safety
runs only, over workers, commits, pieces of text and slots. Deadlock checking is off because all of
these systems rest legitimately when every bound is used up or everything has ended; RowLocks states
its deadlocks as a property.

### Fairness

* AnswerRuns: only the dispatcher's transactions and the passing of time are fair. No worker, no
  message and no user has to move, because the sweep must end every run on its own
  (`answer_dispatcher.py` 18-52). The dispatcher is a loop that restarts (`dispatcher.py` 105-114).
* Jobs: the dispatcher's loop as a whole is weakly fair: that each table gets its turn follows from
  the cycle and is not assumed. An expired lease is claimed again by whoever receives the message,
  so termination also needs live workers and a broker that delivers a message it is given again and
  again (strong fairness of `Deliver`). Faults are finitely many, aborted cycles among them.
* RunStream: the handler and the browser go on. That the run ends is a premise of
  `TimelineCompletes`; AnswerRuns shows it. Broken connections are finitely many by `MaxFaults`.
* RunSubmission: a mounted tab polls, and polls succeed again and again. `ListLimit` is not below
  the number of keys, so the run is still listed; the code lists the newest twenty.

## 4. Proofs

For all values of the constants that satisfy the named ASSUMEs (natural or positive bounds; in
AnswerRuns an even message limit, usage values that differ from the markers `absent` and `open`,
askers that are no numbers, a conversation to choose; finitely many workers for preparations):

| Module | Theorem | States |
|---|---|---|
| AnswerRunsProofs | `TypeCorrect` | `TypeOK` |
| | `InvariantHolds` | the inductive invariant `IInv` |
| | `ExecutedOnce`, `ChargedOnce`, `HonestUsage`, `PublishedAtomically`, `LegalEventLogs` | `OneExecution`, `PaidOnce`, `UsageIsHonest`, `CompletedIffPublished`, `EventLogMatchesStatus` |
| AnswerRunsConversationProofs | `OutcomeIsFinal`, `LifecycleImplemented` | a terminal status only changes by deletion; `Spec` implements `RunLifecycle!Spec` |
| | `ConversationInvariantHolds` | two more invariants |
| | `ActiveRunsUnique`, `TranscriptsContiguous`, `EvidencePinned`, `DeletionIsFinal`, `ReceiptsForward` | `OneActiveRun`, `TranscriptIsContiguous`, `AnswersFromPinnedSource`, `DeletedStaysDeleted`, `ReceiptsMoveForward` |
| RepositoryJobsProofs | `InvariantHolds`, `TypeCorrect` | the inductive invariant, `TypeOK` |
| | `QueuedJobsClaimable`, `RowsWrittenOnce`, `CommitsAgree`, `CurrentJobsUnique` | `QueuedIsClaimable`, `RowsOfOneClaim`, `OneCommit`, `OneCurrent` |
| | `JobsFollowLifecycle`, `IndexStaysReadable` | `Spec` implements `JobLifecycle!Spec`; `ReadersKeepAnIndex` |
| SearchPreparationProofs | `PreparationInvariant`, `PreparationTypes` | the inductive invariant, `TypeOK` |
| | `BudgetHolds`, `LedgersMatch` | `SpendWithinBudget`, `LedgerMatchesDocuments` |
| | `PreparationsUnique`, `PreparationsFollowLifecycle` | one completed preparation per source and mode; `Spec` implements `JobLifecycle!Spec` |
| RunStreamProofs | `InvariantHolds` | the inductive invariant |
| | `TimelineHasNoGap`, `CompleteMeansAll`, `DraftsStayInTime` | `TimelineIsPrefix`, `CompleteIsComplete`, `DraftOnlyWhileRunning` |
| RunSubmissionProofs | `InvariantHolds` | the inductive invariant |
| | `SubmissionsAcceptedOnce`, `SubmissionsNotForgotten` | `AcceptedOnce`, `NeverForgotten` |
| RowLocksProofs | `LocksGuardQuotas`, `QuotasAlwaysHold` | the inductive invariant, `QuotasHold` |
| | `OrderOfLocks`, `OnlyKnownDeadlocks` | the order in which locks are taken, `DeadlocksAreKnown` |
| AlgorithmsProofs | `StreamsAreChecked` | the inductive invariant of a provider request |
| | `OnlyWholeStreamsAreAccepted`, `UsageIsNeverLost` | `AcceptedIffWhole`, `UsageSurvives` |
| | `FilesAreCutExactly` | `ChunksAreExact` |
| | `AgreementRanks`, `PackingIsFirstFit`, `HistoryIsRecent`, `ArchivesAreRead` | what ranking, evidence, history and archive reading promise, of every input |
| | `AgreementIsRankedFirst`, `EvidenceFitsItsBudget`, `HistoryNeverSkips`, `AcceptedArchivesAreExact` | `AgreementWins`, `EvidenceIsFirstFit`, `HistoryIsRecentSuffix`, `ArchiveIsExact` |

The arguments:

* **Answer runs.** That nobody pays twice is not inductive: a second `Send` is excluded only because
  the task that sends is the one task past its claim (`OneExecution`), that it stands after its own
  `Begin` and before its own `Record` (`Stage`), and that the receipt's unique row was absent then.
  So `IInv` (AnswerRunsInvariant) ties where a task stands to the receipts, usage, status and
  messages stored for its run, as long as the row exists; once it is deleted only `calls` is bounded.
  Each action is a lemma that preserves `IInv`. `EventLogMatchesStatus` is proved per transition from
  the status it requires. The conversation's promises need two more: a task that calls the model
  holds evidence from its run's source, and a deleted run has no receipts.
* **Leases** (in SearchPreparationProofs, and `Leased` and `Claims` of RepositoryJobsProofs). A job has a token
  exactly while it runs, no token is from the future, and a worker whose token the job still has is
  in the attempt the job counts. Fencing follows: who finds its own token may write. RepositoryJobs
  adds that whatever is active is current, that an owner works on one commit, the repository's for an
  index, and that rows are of one claim: a takeover needs a running job, which has no rows yet.
* **Preparations.** The counters are not inductive alone: a reserved batch may be in the hands of
  several workers that lost their claims. `InFlight` counts the texts each of them may still send;
  what was sent plus what is in flight never exceeds what was reserved (`Reserved`), and what the
  owner sent and has not stored is not yet counted as used (`Unpaid`). Cardinalities come from
  FiniteSetTheorems.
* **Stream.** The browser's timeline is right because of what may be on the wire, whatever the cursor
  behind it is (`WireOK`): every frame is one the log justifies, every event comes after the ones
  before it, nothing follows an end, and a draft comes after running and before the end. What an open
  handler still has to send begins where the wire ends (`StreamOK`).
* **Submission.** Rows differ in key and one is active (`RowsApart`), and whatever a tab has heard of
  is stored (`HeardOf`), late requests included.
* **Refinements.** Each action maps to an action of the life cycle or a stutter, by what it does to
  the status column.

* **Row locks.** A count and the insertion it permits are apart, and counts see what is committed
  only. What is inductive is that a transaction either holds the lock of the row that guards the
  quota, and then committed rows, its own and those it is going to insert fit the limit together
  (`Room`), or will take that lock and count before it inserts (`Waiting`). Two cannot hold it
  (`Exclusive`), so a commit adds nothing behind the back of the one that counted.
* **Deadlocks.** Each operation has a set of locks that it may take and one that it takes first
  (`Way`), and stays on it whatever is skipped or cascades (`Follows`). That alone leaves deadlocks
  the code does not have. Two more facts are needed. Who ends a job or a run has locked it, so one
  that a transaction reports on is active as long as it holds it (`Writes`, `StillActive`), while
  who replaces a job needs it ended: the two never meet. And the removal of a repository holds the
  conversation of every run it deletes (`UnderParents`), so it never meets an answer at the run.
  From these, `WaitsInOrder` says whom an operation that holds locks can wait for when that one waits
  as well (`WaitsOn`, a table of 11 operations), and a circle in that table contains `remove` and one
  of the five (`CirclesAreKnown`).
* **Provider streams.** Events heard are in order; the deltas among them, in order, are the pieces
  of the text, and all are of the item that is named. So a final response confirms the text exactly
  when it is what was streamed.
* **Chunking.** Definitions lie in one another or apart (`Laminar`), because one is only added after
  its siblings and within its parent. So regions are apart, and the definition a character is named
  after is the region it lies in (`OwnerIs`). Spans and chunks then lie end to end: `FileInv` says
  what is behind the cursor, ahead of it, and in the chunks.
* **Ranking.** A share is between `Scale \div (Damping + CandidateLimit)` and
  `Scale \div (Damping + 1)`. `DampingSuffices` (60 + 3 > 2 * 30 in the code) makes three of the
  least more than two of the greatest. Places in the order are a bijection, so `Fuse` is that order.
* **Evidence, history, archives.** The library's folds are recursive functions. Each is first shown
  to exist and to unfold by one item, then what has been packed, dropped or read after k items is
  proved to be right for every k. The induction theorems of the library take an operator; instead
  the k for which a statement holds are a set that contains 0 and the successor of each member
  (`NumbersByInduction`, `NumbersUpTo`). An archive's names are finitely many attributes.

Three definitions were restated so that they can be reasoned about, with the same meaning: `Fuse`
chooses the candidate of each place instead of sorting a sequence, `ahead` of Chunking is a set whose
least member is next, and `Scan` names the fold over an archive's members.

Model-checked only: liveness (`RunsTerminate`, `JobsTerminate`, `PreparationsTerminate`,
`TimelineCompletes`, `PendingResolves`: fairness and ENABLED are outside what tlapm proves).
`PreparationsUnique` is proved only: three jobs in two modes are too many for a run with faults. No
module declares a RECURSIVE operator.

## 5. Not modelled, and what is left

* Rate limits: fixed windows counted by one Redis script, atomic by Redis. Every model lets a request
  be refused and no property depends on when.
* Sessions: registration, login and logout read and write one row each; RunStream lets a session end
  between two polls.
* Listing and paging, and the browser's polling views: they read the server's state and keep none
  beyond the two that are modelled.
* GitHub download, SQL ranking within a channel, tokenizing and vector arithmetic: input and output,
  inside PostgreSQL, or numeric.
* Evaluation scripts, logging, health, configuration, migrations: no state that runs.

Left to do, in this order: unique keys in RowLocks (of two insertions under one key the later waits
for the earlier to end); the window of the rate limiter against its in-memory double, which counts
the first limits of a list before a later one refuses.

## 6. Disagreement between code and text

`run_submission_retry`: when the answer to a submission is lost, RunComposer keeps the key and says
"Retry the same submission below; its key prevents creating a second run." (`RunComposer.tsx:139`).
A poll that lists the run forgets the key (lines 69-74) but leaves message and text on the screen.
Once that run has ended the button is enabled again, and pressing it submits the same text under a
new key: a second run. TLC finds it in the order GiveUp, HandleStray, poll, EndRun, poll, Press.
The server is right throughout (`AcceptedOnce`).

Observed but without a run, because no text contradicts them: a stream that writes its 257th
preview is stopped with an error, just out of reach of the 60-second deadline; an event
`response.incomplete` whose response says it is complete, and a completed event with a number out
of order, end a stream without the usage they carry.
