-------------------------- MODULE SearchPreparation --------------------------
(***************************************************************************)
(* Search preparations of one repository (services/search_preparation.py,     *)
(* jobs/prepare_search.py): the chunks of a source index are made searchable  *)
(* in batches. A hybrid preparation pays for embeddings, so it reserves the    *)
(* tokens of a batch before it sends them and checkpoints the documents with  *)
(* their usage; a failed or cancelled one resumes from its checkpoints. The    *)
(* text of every chunk costs one token.                                    *)
(***************************************************************************)
EXTENDS JobLeases

CONSTANTS ChunkCount,   \* chunks of every source index
          BatchSize,    \* 8 in the code
          Budgets,      \* embedding_token_budget over the server's configurations
          MaxSource,    \* model bound: source indexes ever completed
          MaxResumes    \* model bound: resumed preparations

ASSUME PreparationBounds ==
  /\ IsFiniteSet(Workers) /\ ChunkCount \in Nat /\ BatchSize \in Nat \ {0}
  /\ Budgets \subseteq Nat /\ MaxSource \in Nat /\ MaxResumes \in Nat

Chunks == 1..ChunkCount
Modes == {"keyword", "hybrid"}

VARIABLES
  repository,  \* "live" or "deleted"
  generation,  \* the repository's active source index
  resumes,     \* preparations resumed so far
  mode, source, reserved, usage, stored, budget,  \* columns of search_indexes
  documents,   \* search_documents of a preparation: [chunk, by]
  embedded,    \* tokens the provider has been sent for a preparation
  todo         \* worker's local: the chunks it still has to prepare

jobVars == <<repository, generation, resumes, mode, source, reserved, usage, stored, budget,
             documents, embedded, todo>>
vars == <<leaseVars, jobVars>>

Init ==
  /\ InitLeases
  /\ repository = "live" /\ generation = 1 /\ resumes = 0
  /\ mode = [j \in Jobs |-> "keyword"]
  /\ source = [j \in Jobs |-> 0]
  /\ reserved = [j \in Jobs |-> 0] /\ usage = [j \in Jobs |-> 0]
  /\ stored = [j \in Jobs |-> 0] /\ budget = [j \in Jobs |-> 0]
  /\ documents = [j \in Jobs |-> {}]
  /\ embedded = [j \in Jobs |-> 0]
  /\ todo = [w \in Workers |-> {}]

Done(j) == {d.chunk : d \in documents[j]}
Hybrid(j) == mode[j] = "hybrid"

(* SearchStore.active: the preparation that searches of this mode can use.    *)
Ready(g, m) == {j \in Jobs : status[j] = "completed" /\ source[j] = g /\ mode[j] = m}

-----------------------------------------------------------------------------
(* Requests.                                                               *)

Reindex ==
  /\ repository = "live" /\ generation < MaxSource
  /\ generation' = generation + 1
  /\ UNCHANGED <<leaseVars, repository, resumes, mode, source, reserved, usage, stored, budget,
                 documents, embedded, todo>>

(* Neither an active preparation nor one that is ready already.             *)
Startable(m) ==
  /\ repository = "live"
  /\ \A j \in current : status[j] \notin Active
  /\ Ready(generation, m) = {}

Unfinished(m) == {j \in current : source[j] = generation /\ mode[j] = m}

StartNew(m, b) ==
  LET i == inserted + 1 IN
  /\ Startable(m) /\ Unfinished(m) = {}
  /\ Insert(current)
  /\ mode' = [mode EXCEPT ![i] = m]
  /\ source' = [source EXCEPT ![i] = generation]
  /\ budget' = [budget EXCEPT ![i] = b]
  /\ UNCHANGED <<repository, generation, resumes, reserved, usage, stored, documents, embedded,
                 todo>>

(* Mutant: a resume forgets what was reserved.                              *)
ResumeFresh(m, b) ==
  /\ Startable(m) /\ resumes < MaxResumes
  /\ \E j \in Unfinished(m) :
       /\ SetStatus({j}, "queued")
       /\ attempts' = [attempts EXCEPT ![j] = 0]
       /\ reserved' = [reserved EXCEPT ![j] = 0]
       /\ budget' = [budget EXCEPT ![j] = IF b > @ THEN b ELSE @]
  /\ resumes' = resumes + 1
  /\ UNCHANGED <<inserted, current, waiting, queueVars, lastToken, task, faults, repository,
                 generation, mode, source, usage, stored, documents, embedded, todo>>

(* The same row goes on with its documents and reservations.                *)
Resume(m, b) ==
  /\ Startable(m) /\ resumes < MaxResumes
  /\ \E j \in Unfinished(m) :
       /\ SetStatus({j}, "queued")
       /\ attempts' = [attempts EXCEPT ![j] = 0]
       /\ waiting' = waiting \ {j} /\ dispatched' = dispatched \ {j}
       /\ budget' = [budget EXCEPT ![j] = IF b > @ THEN b ELSE @]
  /\ resumes' = resumes + 1
  /\ UNCHANGED <<inserted, current, broker, loopVars, lastToken, task, faults, repository,
                 generation, mode, source, reserved, usage, stored, documents, embedded, todo>>

Cancel ==
  /\ \E j \in current : status[j] \in Active
  /\ CancelJobs(current)
  /\ UNCHANGED jobVars

RemoveRepository ==
  /\ repository = "live"
  /\ DeleteAll
  /\ repository' = "deleted"
  /\ documents' = [j \in Jobs |-> {}]
  /\ UNCHANGED <<generation, resumes, mode, source, reserved, usage, stored, budget, embedded,
                 todo>>

Requests ==
  \/ Reindex \/ Cancel \/ RemoveRepository
  \/ \E m \in Modes, b \in Budgets : StartNew(m, b) \/ Resume(m, b)

-----------------------------------------------------------------------------
(* A worker's attempt.                                                     *)

Working == {"started", "loaded", "batching", "embedding", "storing"}

(* The next batch, in the order of the chunks.                              *)
Batch(w) == {c \in todo[w] : Cardinality({d \in todo[w] : d < c}) < BatchSize}

(* The row, its chunks without a document, and the check of what they will    *)
(* cost; a provider that is off or another one fails the job (Raise).        *)
Load(w) ==
  LET j == task[w].job
      pending == Chunks \ Done(j)
  IN
  /\ task[w].pc = "started"
  /\ \/ status[j] = "deleted" /\ GiveUp(w) /\ UNCHANGED todo
     \/ /\ status[j] # "deleted"
        /\ todo' = [todo EXCEPT ![w] = pending]
        /\ Proceed(w, IF Hybrid(j) /\ reserved[j] + Cardinality(pending) > budget[j]
                      THEN "failing" ELSE "loaded")
  /\ UNCHANGED <<repository, generation, resumes, mode, source, reserved, usage, stored, budget,
                 documents, embedded>>

ReportStage(w) ==
  /\ task[w].pc = "loaded"
  /\ \/ Held(w) /\ Proceed(w, "batching")
     \/ ~Held(w) /\ GiveUp(w)
  /\ UNCHANGED jobVars

Room(w) == Held(w) /\ reserved[task[w].job] + Cardinality(Batch(w)) <= budget[task[w].job]

(* reserve; a refusal is an error of the application, not a lost lease.       *)
Reserve(w) ==
  LET j == task[w].job IN
  /\ task[w].pc = "batching" /\ todo[w] # {} /\ Hybrid(j)
  /\ \/ /\ Room(w)
        /\ reserved' = [reserved EXCEPT ![j] = @ + Cardinality(Batch(w))]
        /\ Proceed(w, "embedding")
     \/ ~Room(w) /\ Proceed(w, "failing") /\ UNCHANGED reserved
  /\ UNCHANGED <<repository, generation, resumes, mode, source, usage, stored, budget, documents,
                 embedded, todo>>

(* provider.embed sends the batch; it may answer or fail.                    *)
Embed(w) ==
  /\ task[w].pc = "embedding"
  /\ embedded' = [embedded EXCEPT ![task[w].job] = @ + Cardinality(Batch(w))]
  /\ Proceed(w, "storing") \/ Proceed(w, "failing")
  /\ UNCHANGED <<repository, generation, resumes, mode, source, reserved, usage, stored, budget,
                 documents, todo>>

(* Mutant: a batch is stored whoever holds the job now.                     *)
CheckpointUnfenced(w) ==
  LET j == task[w].job IN
  /\ \/ task[w].pc = "storing"
     \/ task[w].pc = "batching" /\ todo[w] # {} /\ ~Hybrid(j)
  /\ documents' = [documents EXCEPT ![j] = @ \cup [chunk : Batch(w), by : {task[w].token}]]
  /\ stored' = [stored EXCEPT ![j] = @ + Cardinality(Batch(w))]
  /\ usage' = [usage EXCEPT ![j] = IF Hybrid(j) THEN @ + Cardinality(Batch(w)) ELSE @]
  /\ todo' = [todo EXCEPT ![w] = @ \ Batch(w)]
  /\ Proceed(w, "batching")
  /\ UNCHANGED <<repository, generation, resumes, mode, source, reserved, budget, embedded>>

(* checkpoint: fence, documents and usage in one transaction.               *)
Checkpoint(w) ==
  LET j == task[w].job IN
  /\ \/ task[w].pc = "storing"
     \/ task[w].pc = "batching" /\ todo[w] # {} /\ ~Hybrid(j)
  /\ \/ /\ Held(w)
        /\ documents' = [documents EXCEPT ![j] = @ \cup [chunk : Batch(w), by : {task[w].token}]]
        /\ stored' = [stored EXCEPT ![j] = @ + Cardinality(Batch(w))]
        /\ usage' = [usage EXCEPT ![j] = IF Hybrid(j) THEN @ + Cardinality(Batch(w)) ELSE @]
        /\ todo' = [todo EXCEPT ![w] = @ \ Batch(w)]
        /\ Proceed(w, "batching")
     \/ ~Held(w) /\ GiveUp(w) /\ UNCHANGED <<documents, stored, usage, todo>>
  /\ UNCHANGED <<repository, generation, resumes, mode, source, reserved, budget, embedded>>

(* Mutant: the job completes after its first batch.                         *)
CompleteEarly(w) ==
  /\ task[w].pc = "batching" /\ Held(w)
  /\ Finish(w, "completed")
  /\ UNCHANGED jobVars

Complete(w) ==
  /\ task[w].pc = "batching" /\ todo[w] = {}
  /\ \/ Held(w) /\ Finish(w, "completed")
     \/ ~Held(w) /\ GiveUp(w)
  /\ UNCHANGED jobVars

Raise(w) ==
  /\ task[w].pc \in Working
  /\ Proceed(w, "failing")
  /\ UNCHANGED jobVars

Fail(w) ==
  /\ task[w].pc = "failing"
  /\ \/ Held(w) /\ Finish(w, "failed")
     \/ ~Held(w) /\ GiveUp(w)
  /\ UNCHANGED jobVars

Work(w) ==
  Load(w) \/ ReportStage(w) \/ Reserve(w) \/ Embed(w) \/ Checkpoint(w) \/ Complete(w) \/ Fail(w)

Next ==
  \/ Requests
  \/ Scheduling(<<Jobs>>) /\ UNCHANGED jobVars
  \/ \E w \in Workers : Work(w) \/ Raise(w)

Spec == Init /\ [][Next]_vars

(* As for imports and indexes: workers, the dispatcher and time go on, every  *)
(* message is delivered again and again, and faults are finitely many.       *)
FairSpec ==
  /\ Spec
  /\ WF_vars(Dispatcher(<<Jobs>>) /\ UNCHANGED jobVars)
  /\ \A j \in Jobs :
       /\ WF_vars(LeaseExpires(j) /\ UNCHANGED jobVars)
       /\ WF_vars(RedispatchDue(j) /\ UNCHANGED jobVars)
       /\ SF_vars((\E w \in Workers : Deliver(w, j)) /\ UNCHANGED jobVars)
  /\ \A w \in Workers : WF_vars(Work(w) \/ (Claim(w) /\ UNCHANGED jobVars))

-----------------------------------------------------------------------------
TypeOK ==
  /\ LeaseTypeOK
  /\ repository \in {"live", "deleted"}
  /\ generation \in Nat /\ resumes \in Nat
  /\ mode \in [Jobs -> Modes] /\ source \in [Jobs -> Nat]
  /\ reserved \in [Jobs -> Nat] /\ usage \in [Jobs -> Nat]
  /\ stored \in [Jobs -> Nat] /\ budget \in [Jobs -> Nat] /\ embedded \in [Jobs -> Nat]
  /\ documents \in [Jobs -> SUBSET [chunk : Chunks, by : Nat]]
  /\ todo \in [Workers -> SUBSET Chunks]

(* The provider is never sent a token that was not reserved before, and no    *)
(* number of attempts, takeovers and resumes reserves more than the budget.   *)
SpendWithinBudget ==
  \A j \in Jobs : usage[j] <= embedded[j] /\ embedded[j] <= reserved[j] /\ reserved[j] <= budget[j]

(* The counters shown to the user are those of the stored documents, and a     *)
(* chunk has one document, whatever workers took the job over.               *)
LedgerMatchesDocuments ==
  \A j \in {i \in Jobs : status[i] # "deleted"} :
    /\ stored[j] = Cardinality(documents[j])
    /\ stored[j] = Cardinality(Done(j))
    /\ usage[j] = IF Hybrid(j) THEN stored[j] ELSE 0

Lifecycle == INSTANCE JobLifecycle WITH
  phase <- status, tries <- attempts, MaxTries <- MaxAttempts, Resumable <- TRUE,
  results <- {j \in Jobs : status[j] = "completed" /\ Done(j) = Chunks}

(* Preparations are tried a bounded number of times per start, are usable     *)
(* exactly once complete, and resume from a failure or a cancellation only.   *)
ImplementsJobLifecycle == Lifecycle!Spec

(* Every accepted or resumed preparation ends.                              *)
PreparationsTerminate == \A j \in Jobs : status[j] \in Active ~> status[j] \notin Active

=============================================================================
