----------------------------- MODULE AnswerRuns -----------------------------
(***************************************************************************)
(* Durable answer runs: the API that submits, cancels and deletes them, the *)
(* dispatcher that expires and publishes them, the at-least-once broker,    *)
(* and the Celery workers that claim a run, pay a model provider, stream a  *)
(* preview and publish the answer as a pair of conversation messages.       *)
(*                                                                         *)
(* One action is one database transaction, one provider exchange or one     *)
(* broker exchange; between two actions of a worker anything may happen.     *)
(* Clocks are abstracted: a lease or a queue age that can run out does so by *)
(* an action of its own.                                                    *)
(***************************************************************************)
EXTENDS Naturals, Sequences, FiniteSets

CONSTANTS Conversations, Workers, Askers,
          Modes,             \* retrieval modes that requests ask for
          Usage,             \* token counts a provider may report
          MaxRuns,           \* model bound: rows ever inserted in answer_runs
          MaxSource,         \* model bound: index generations ever published
          MaxMessages,       \* 200 in the code
          RunLimit,          \* 1000 in the code
          ConversationLimit, \* 100 in the code
          MaxRevision,       \* 256 in the code
          BatchLimit         \* 50 in the code

ASSUME BoundsAssumption ==
  /\ {MaxRuns, MaxSource, MaxMessages, RunLimit, ConversationLimit,
      MaxRevision, BatchLimit} \subseteq Nat
  /\ MaxMessages % 2 = 0 /\ MaxSource > 0
ASSUME ModesAssumption == Modes \subseteq {"keyword", "hybrid"} /\ "keyword" \in Modes
ASSUME UsageAssumption == Usage \cap {"absent", "open"} = {}
ASSUME TurnsAssumption == Askers \cap Nat = {}
ASSUME ConversationsAssumption == Conversations # {}

Runs     == 1..MaxRuns        \* in created_at order
Kinds    == {"query_embedding", "generation"}
Active   == {"queued", "running"}
Terminal == {"completed", "failed", "cancelled"}
Rows     == Active \cup Terminal              \* what the status column may hold
Status   == Rows \cup {"none", "deleted"}     \* no row yet; row deleted
Turns    == Runs \cup Askers
NoToken  == 0
NoRun    == 0

VARIABLES
  conversation,  \* [Conversations -> {"none", "live", "deleted"}]
  messageCount,  \* conversations.message_count
  pairs,         \* messages, one record per user and assistant pair
  evidence,      \* source_index_id stored in the assistant message of a run
  submitted,     \* number of answer_runs rows ever inserted
  request,       \* columns of a run that are written once, at submission
  status, token, lease, revision, usageState, bill,   \* columns of a run
  preview,       \* runs whose preview_text is not empty
  dispatched,    \* runs whose last_dispatched_at is within 30 seconds
  aged,          \* runs created more than one hour ago
  events,        \* run_events, in sequence order
  receipt,       \* usage_receipts: "absent", "open" (no usage yet) or usage
  source,        \* generation of the active source index
  broker,        \* runs with a message that can still be delivered
  batch, sent,   \* dispatcher: ids left to publish, id published but not marked
  lastToken,     \* lease tokens issued so far (uuid4: always fresh)
  task,          \* locals of each worker's run_answer call
  ask,           \* synchronous questions: phase and conversation
  calls          \* history: provider requests sent, per run and kind

convVars == <<conversation, messageCount, pairs, evidence>>
stateVars == <<status, events, preview>>
leaseVars == <<token, lease>>
dispatchVars == <<broker, dispatched, batch, sent>>
vars == <<convVars, submitted, request, stateVars, leaseVars, revision, usageState,
          bill, aged, receipt, source, dispatchVars, lastToken, task, ask, calls>>

IdleTask == [pc |-> "idle", run |-> NoRun, token |-> NoToken, kind |-> "generation",
             result |-> "absent", source |-> 0]

Init ==
  /\ conversation = [c \in Conversations |-> "none"]
  /\ messageCount = [c \in Conversations |-> 0]
  /\ pairs = {}
  /\ evidence = [r \in Runs |-> 0]
  /\ submitted = 0
  /\ request = [r \in Runs |->
       [conversation |-> CHOOSE c \in Conversations : TRUE, mode |-> "keyword", source |-> 0]]
  /\ status = [r \in Runs |-> "none"]
  /\ token = [r \in Runs |-> NoToken]
  /\ lease = [r \in Runs |-> "none"]
  /\ revision = [r \in Runs |-> 0]
  /\ usageState = [r \in Runs |-> "not_started"]
  /\ bill = [r \in Runs |-> "absent"]
  /\ preview = {} /\ dispatched = {} /\ aged = {}
  /\ events = [r \in Runs |-> << >>]
  /\ receipt = [r \in Runs |-> [k \in Kinds |-> "absent"]]
  /\ source = 1
  /\ broker = {} /\ batch = {} /\ sent = NoRun
  /\ lastToken = NoToken
  /\ task = [w \in Workers |-> IdleTask]
  /\ ask = [a \in Askers |-> [phase |-> "new", conversation |-> CHOOSE c \in Conversations : TRUE]]
  /\ calls = [r \in Runs |-> [k \in Kinds |-> 0]]

-----------------------------------------------------------------------------
(* Pieces of a transaction.                                                *)

(* The runs of conversation c that have a row.                             *)
RowsOf(c) == {r \in Runs : status[r] \in Rows /\ request[r].conversation = c}

(* repositories/run_event.py append_state: the event of the new state, in  *)
(* the transaction of the transition; a terminal state drops the preview.  *)
AppendState(S, s) ==
  /\ events' = [r \in Runs |-> IF r \in S THEN Append(events[r], s) ELSE events[r]]
  /\ preview' = IF s \in Terminal THEN preview \ S ELSE preview

(* UPDATE answer_runs SET status = s, for the rows of S, then append_state. *)
Transition(S, s) ==
  /\ status' = [r \in Runs |-> IF r \in S THEN s ELSE status[r]]
  /\ AppendState(S, s)

(* A transition to a terminal state clears lease_token, lease_expires_at.  *)
Stop(S, s) ==
  /\ Transition(S, s)
  /\ token' = [r \in Runs |-> IF r \in S THEN NoToken ELSE token[r]]
  /\ lease' = [r \in Runs |-> IF r \in S THEN "none" ELSE lease[r]]

(* Mutant: a task reports its failure whatever became of the run.          *)
HoldsUnchecked(w) == status[task[w].run] \in Rows

(* The WHERE of fail_run, and the check of run_answer when it loads a run. *)
Holds(w) ==
  /\ status[task[w].run] = "running"
  /\ token[task[w].run] = task[w].token

(* The WHERE of publication, preview and receipts: the lease is not over.  *)
Fenced(w) == Holds(w) /\ lease[task[w].run] = "live"

(* Mutant: positions counted from the value before the update.             *)
AppendPairOffByOne(c, turn) ==
  /\ messageCount' = [messageCount EXCEPT ![c] = @ + 2]
  /\ pairs' = pairs \cup {[conversation |-> c, turn |-> turn,
                           user |-> messageCount[c], assistant |-> messageCount[c] + 1]}

(* append_pair: the counter update allocates two adjacent positions.        *)
Room(c) == conversation[c] = "live" /\ messageCount[c] + 2 <= MaxMessages

AppendPair(c, turn) ==
  /\ messageCount' = [messageCount EXCEPT ![c] = @ + 2]
  /\ pairs' = pairs \cup {[conversation |-> c, turn |-> turn,
                           user |-> messageCount[c] + 1,
                           assistant |-> messageCount[c] + 2]}

Goto(w, pc) == task' = [task EXCEPT ![w].pc = pc]

(* The task returns and its message is acknowledged; another copy of the    *)
(* message, from a later dispatch or a redelivery, may still be around.     *)
Return(w) ==
  /\ task' = [task EXCEPT ![w] = IdleTask]
  /\ broker' \in {broker, broker \ {task[w].run}}

-----------------------------------------------------------------------------
(* Conversations and the API of answer runs.                               *)

(* ConversationService.create                                              *)
Create(c) ==
  /\ conversation[c] = "none"
  /\ Cardinality({d \in Conversations : conversation[d] = "live"}) < ConversationLimit
  /\ conversation' = [conversation EXCEPT ![c] = "live"]
  /\ UNCHANGED <<messageCount, pairs, evidence, submitted, request, stateVars, leaseVars,
                 revision, usageState, bill, aged, receipt, source, dispatchVars,
                 lastToken, task, ask, calls>>

(* ConversationService.remove; the database cascades to messages, runs,    *)
(* run_events and usage_receipts.                                          *)
Remove(c) ==
  LET S == RowsOf(c) IN
  /\ conversation[c] = "live"
  /\ conversation' = [conversation EXCEPT ![c] = "deleted"]
  /\ messageCount' = [messageCount EXCEPT ![c] = 0]
  /\ pairs' = {p \in pairs : p.conversation # c}
  /\ evidence' = [r \in Runs |-> IF r \in S THEN 0 ELSE evidence[r]]
  /\ status' = [r \in Runs |-> IF r \in S THEN "deleted" ELSE status[r]]
  /\ events' = [r \in Runs |-> IF r \in S THEN << >> ELSE events[r]]
  /\ token' = [r \in Runs |-> IF r \in S THEN NoToken ELSE token[r]]
  /\ lease' = [r \in Runs |-> IF r \in S THEN "none" ELSE lease[r]]
  /\ receipt' = [r \in Runs |-> IF r \in S THEN [k \in Kinds |-> "absent"] ELSE receipt[r]]
  /\ preview' = preview \ S
  /\ UNCHANGED <<submitted, request, revision, usageState, bill, aged, source,
                 dispatchVars, lastToken, task, ask, calls>>

(* Mutant: only a queued run stands in the way of another submission.      *)
NothingQueued(c) == \A q \in RowsOf(c) : status[q] # "queued"

(* The active-run check of submit, and the partial index uq_answer_run_active. *)
NothingActive(c) == \A q \in RowsOf(c) : status[q] \notin Active

(* RunService.submit, for a request key that is new: the conversation row   *)
(* is locked from the first check to the insert. Every early return leaves  *)
(* the database as it was.                                                  *)
Submit(c, m) ==
  LET r == submitted + 1 IN
  /\ submitted < MaxRuns
  /\ conversation[c] = "live"
  /\ messageCount[c] < MaxMessages
  /\ NothingActive(c)
  /\ Cardinality(RowsOf(c)) < RunLimit
  /\ submitted' = r
  /\ request' = [request EXCEPT ![r] = [conversation |-> c, mode |-> m, source |-> source]]
  /\ Transition({r}, "queued")
  /\ UNCHANGED <<convVars, leaseVars, revision, usageState, bill, aged, receipt, source,
                 dispatchVars, lastToken, task, ask, calls>>

(* RunService.cancel                                                       *)
Cancel(r) ==
  /\ status[r] \in Active
  /\ Stop({r}, "cancelled")
  /\ UNCHANGED <<convVars, submitted, request, revision, usageState, bill, aged, receipt,
                 source, dispatchVars, lastToken, task, ask, calls>>

(* ConversationService.ask: the count is read and the transaction ended     *)
(* before the answer is generated.                                         *)
AskStart(a, c) ==
  /\ ask[a].phase = "new"
  /\ conversation[c] = "live"
  /\ messageCount[c] < MaxMessages
  /\ ask' = [ask EXCEPT ![a] = [phase |-> "answering", conversation |-> c]]
  /\ UNCHANGED <<convVars, submitted, request, stateVars, leaseVars, revision, usageState,
                 bill, aged, receipt, source, dispatchVars, lastToken, task, calls>>

(* ... and append_pair runs after it: the pair is stored, or the            *)
(* conversation has meanwhile filled up or gone. The answer may also fail.   *)
AskEnd(a) ==
  /\ ask[a].phase = "answering"
  /\ ask' = [ask EXCEPT ![a].phase = "done"]
  /\ \/ /\ Room(ask[a].conversation)
        /\ AppendPair(ask[a].conversation, a)
     \/ UNCHANGED <<messageCount, pairs>>
  /\ UNCHANGED <<conversation, evidence, submitted, request, stateVars, leaseVars, revision,
                 usageState, bill, aged, receipt, source, dispatchVars, lastToken, task, calls>>

(* A new index generation becomes the active source (jobs/index_repository). *)
Reindex ==
  /\ source < MaxSource
  /\ source' = source + 1
  /\ UNCHANGED <<convVars, submitted, request, stateVars, leaseVars, revision, usageState,
                 bill, aged, receipt, dispatchVars, lastToken, task, ask, calls>>

-----------------------------------------------------------------------------
(* Time.                                                                   *)

LeaseExpires(r) ==
  /\ lease[r] = "live"
  /\ lease' = [lease EXCEPT ![r] = "expired"]
  /\ UNCHANGED <<convVars, submitted, request, stateVars, token, revision, usageState, bill,
                 aged, receipt, source, dispatchVars, lastToken, task, ask, calls>>

QueueAges(r) ==
  /\ status[r] = "queued" /\ r \notin aged
  /\ aged' = aged \cup {r}
  /\ UNCHANGED <<convVars, submitted, request, stateVars, leaseVars, revision, usageState,
                 bill, receipt, source, dispatchVars, lastToken, task, ask, calls>>

RedispatchDue(r) ==
  /\ r \in dispatched
  /\ dispatched' = dispatched \ {r}
  /\ UNCHANGED <<convVars, submitted, request, stateVars, leaseVars, revision, usageState,
                 bill, aged, receipt, source, broker, batch, sent, lastToken, task, ask, calls>>

-----------------------------------------------------------------------------
(* The dispatcher, jobs/answer_dispatcher.py dispatch_answers, and Redis.   *)

(* Mutant: runs of dead workers are never given up.                        *)
LostNever == {}

Lost     == {r \in Runs : status[r] = "running" /\ lease[r] = "expired"}
Stale    == {r \in Runs : status[r] = "queued" /\ r \in aged}
Eligible == {r \in Runs : status[r] = "queued" /\ r \notin aged /\ r \notin dispatched}
Oldest(S) == {r \in S : Cardinality({q \in S : q < r}) < BatchLimit}

(* First transaction: fail the runs whose worker is lost and the runs that  *)
(* waited too long, never reclaim one; choose the ids to publish.           *)
Sweep ==
  /\ batch = {} /\ sent = NoRun
  /\ Stop(Lost \cup Stale, "failed")
  /\ batch' = Oldest(Eligible)
  /\ UNCHANGED <<convVars, submitted, request, revision, usageState, bill, aged, receipt,
                 source, broker, dispatched, sent, lastToken, task, ask, calls>>

(* publish(run_id) puts a message on the broker, or raises and is skipped.   *)
PublishMessage ==
  \E r \in batch :
    /\ sent = NoRun
    /\ \A q \in batch : r <= q
    /\ batch' = batch \ {r}
    /\ \/ broker' = broker \cup {r} /\ sent' = r
       \/ UNCHANGED <<broker, sent>>
    /\ UNCHANGED <<convVars, submitted, request, stateVars, leaseVars, revision, usageState,
                   bill, aged, receipt, source, dispatched, lastToken, task, ask, calls>>

(* last_dispatched_at is set by a transaction of its own, if still queued.  *)
MarkDispatched ==
  /\ sent # NoRun
  /\ dispatched' = IF status[sent] = "queued" THEN dispatched \cup {sent} ELSE dispatched
  /\ sent' = NoRun
  /\ UNCHANGED <<convVars, submitted, request, stateVars, leaseVars, revision, usageState,
                 bill, aged, receipt, source, broker, batch, lastToken, task, ask, calls>>

DispatcherCrash ==
  /\ batch # {} \/ sent # NoRun
  /\ batch' = {} /\ sent' = NoRun
  /\ UNCHANGED <<convVars, submitted, request, stateVars, leaseVars, revision, usageState,
                 bill, aged, receipt, source, broker, dispatched, lastToken, task, ask, calls>>

LoseMessage(r) ==
  /\ r \in broker
  /\ broker' = broker \ {r}
  /\ UNCHANGED <<convVars, submitted, request, stateVars, leaseVars, revision, usageState,
                 bill, aged, receipt, source, dispatched, batch, sent, lastToken, task, ask, calls>>

-----------------------------------------------------------------------------
(* A worker, jobs/answer_run.py run_answer.                                 *)

(* Delivery: the message stays until it is acknowledged (task_acks_late).    *)
Deliver(w, r) ==
  /\ task[w].pc = "idle" /\ r \in broker
  /\ task' = [task EXCEPT ![w] = [IdleTask EXCEPT !.pc = "claim", !.run = r]]
  /\ UNCHANGED <<convVars, submitted, request, stateVars, leaseVars, revision, usageState,
                 bill, aged, receipt, source, dispatchVars, lastToken, ask, calls>>

(* Mutant: an expired lease is taken over, as the import jobs do.          *)
ClaimableAgain(r) ==
  \/ status[r] = "queued" /\ r \notin aged
  \/ status[r] = "running" /\ lease[r] = "expired"

Claimable(r) == status[r] = "queued" /\ r \notin aged

Claim(w) ==
  LET r == task[w].run IN
  /\ task[w].pc = "claim"
  /\ \/ /\ Claimable(r)
        /\ Transition({r}, "running")
        /\ lastToken' = lastToken + 1
        /\ token' = [token EXCEPT ![r] = lastToken + 1]
        /\ lease' = [lease EXCEPT ![r] = "live"]
        /\ usageState' = [usageState EXCEPT ![r] = "unknown"]
        /\ task' = [task EXCEPT ![w] = [@ EXCEPT !.pc = "load", !.token = lastToken + 1]]
        /\ UNCHANGED broker
     \/ /\ ~Claimable(r)
        /\ Return(w)
        /\ UNCHANGED <<stateVars, leaseVars, lastToken, usageState>>
  /\ UNCHANGED <<convVars, submitted, request, revision, bill, aged, receipt, source,
                 dispatched, batch, sent, ask, calls>>

Load(w) ==
  /\ task[w].pc = "load"
  /\ \/ Holds(w) /\ Goto(w, "search") /\ UNCHANGED broker
     \/ ~Holds(w) /\ Return(w)
  /\ UNCHANGED <<convVars, submitted, request, stateVars, leaseVars, revision, usageState,
                 bill, aged, receipt, source, dispatched, batch, sent, lastToken, ask, calls>>

(* SearchService._search reads the active source; only the hybrid mode pays *)
(* for an embedding of the query.                                          *)
Search(w) ==
  /\ task[w].pc = "search"
  /\ task' = [task EXCEPT ![w] = [@ EXCEPT !.source = source, !.kind = "query_embedding",
       !.pc = IF request[task[w].run].mode = "hybrid" THEN "begin" ELSE "context"]]
  /\ UNCHANGED <<convVars, submitted, request, stateVars, leaseVars, revision, usageState,
                 bill, aged, receipt, source, dispatchVars, lastToken, ask, calls>>

(* ReceiptWriter.begin; a second row of the same kind breaks uq (run, kind). *)
Begin(w) ==
  LET r == task[w].run
      k == task[w].kind IN
  /\ task[w].pc = "begin"
  /\ \/ /\ Fenced(w) /\ receipt[r][k] = "absent"
        /\ receipt' = [receipt EXCEPT ![r][k] = "open"]
        /\ Goto(w, "send")
     \/ /\ ~(Fenced(w) /\ receipt[r][k] = "absent")
        /\ Goto(w, "fail")
        /\ UNCHANGED receipt
  /\ UNCHANGED <<convVars, submitted, request, stateVars, leaseVars, revision, usageState,
                 bill, aged, source, dispatchVars, lastToken, ask, calls>>

(* The request leaves for the provider: money is spent.                     *)
Send(w) ==
  /\ task[w].pc = "send"
  /\ calls' = [calls EXCEPT ![task[w].run][task[w].kind] = @ + 1]
  /\ Goto(w, "await")
  /\ UNCHANGED <<convVars, submitted, request, stateVars, leaseVars, revision, usageState,
                 bill, aged, receipt, source, dispatchVars, lastToken, ask>>

(* Mutant: the revision has no upper limit.                                *)
PreviewUnbounded(w) == Fenced(w)

PreviewOpen(w) == Fenced(w) /\ revision[task[w].run] < MaxRevision

(* PreviewWriter.delta, while the model streams.                            *)
Delta(w) ==
  LET r == task[w].run IN
  /\ task[w].pc = "await" /\ task[w].kind = "generation"
  /\ \/ /\ PreviewOpen(w)
        /\ revision' = [revision EXCEPT ![r] = @ + 1]
        /\ preview' = preview \cup {r}
        /\ UNCHANGED task
     \/ /\ ~PreviewOpen(w)
        /\ Goto(w, "fail")
        /\ UNCHANGED <<revision, preview>>
  /\ UNCHANGED <<convVars, submitted, request, status, events, leaseVars, usageState, bill,
                 aged, receipt, source, dispatchVars, lastToken, ask, calls>>

(* Mutant: a failed call is sent again.                                    *)
RespondOrRetry(w) ==
  /\ task[w].pc = "await"
  /\ \E u \in Usage, pc \in {"record", "reject", "send"} :
       task' = [task EXCEPT ![w] = [@ EXCEPT !.result = u, !.pc = pc]]
  /\ UNCHANGED <<convVars, submitted, request, stateVars, leaseVars, revision, usageState,
                 bill, aged, receipt, source, dispatchVars, lastToken, ask, calls>>

(* The provider answers with its usage: a result, or ProviderUsageError.     *)
Respond(w) ==
  /\ task[w].pc = "await"
  /\ \E u \in Usage, pc \in {"record", "reject"} :
       task' = [task EXCEPT ![w] = [@ EXCEPT !.result = u, !.pc = pc]]
  /\ UNCHANGED <<convVars, submitted, request, stateVars, leaseVars, revision, usageState,
                 bill, aged, receipt, source, dispatchVars, lastToken, ask, calls>>

(* Mutants: usage is not stored; usage recreates a deleted row.            *)
RecordedNever(r, k, u) == receipt[r][k]
RecordedAlways(r, k, u) == u

(* ReceiptWriter.finish: only a row that exists and has no usage is written, *)
(* whatever became of the run.                                             *)
Recorded(r, k, u) == IF receipt[r][k] = "open" THEN u ELSE receipt[r][k]

Record(w) ==
  LET r == task[w].run
      k == task[w].kind IN
  /\ task[w].pc \in {"record", "reject"}
  /\ receipt' = [receipt EXCEPT ![r][k] = Recorded(r, k, task[w].result)]
  /\ Goto(w, IF task[w].pc = "reject" THEN "fail"
             ELSE IF k = "generation" THEN "publish" ELSE "context")
  /\ UNCHANGED <<convVars, submitted, request, stateVars, leaseVars, revision, usageState,
                 bill, aged, source, dispatchVars, lastToken, ask, calls>>

(* Mutant: evidence of any index generation is accepted.                   *)
AnySource(w) == TRUE

PinnedSource(w) == request[task[w].run].source = task[w].source

(* AnswerService._answer after retrieval: the source must be the one the    *)
(* run was submitted for; without evidence no model is called.              *)
Context(w) ==
  /\ task[w].pc = "context"
  /\ \/ ~PinnedSource(w) /\ Goto(w, "fail")
     \/ /\ PinnedSource(w)
        /\ \E pc \in {"begin", "publish"} :
             task' = [task EXCEPT ![w] =
               [@ EXCEPT !.pc = pc, !.kind = "generation", !.result = "absent"]]
  /\ UNCHANGED <<convVars, submitted, request, stateVars, leaseVars, revision, usageState,
                 bill, aged, receipt, source, dispatchVars, lastToken, ask, calls>>

(* Mutant: the run is completed but its messages are left to a later step. *)
CompleteWithoutPair(w) ==
  LET r == task[w].run IN
  /\ Stop({r}, "completed")
  /\ usageState' = [usageState EXCEPT ![r] = "recorded"]
  /\ bill' = [bill EXCEPT ![r] = task[w].result]
  /\ evidence' = [evidence EXCEPT ![r] = task[w].source]
  /\ UNCHANGED <<messageCount, pairs>>

(* The effect of a publication: status, usage, event and both messages.     *)
Complete(w) ==
  LET r == task[w].run IN
  /\ Stop({r}, "completed")
  /\ usageState' = [usageState EXCEPT ![r] = "recorded"]
  /\ bill' = [bill EXCEPT ![r] = task[w].result]
  /\ evidence' = [evidence EXCEPT ![r] = task[w].source]
  /\ AppendPair(request[r].conversation, r)

(* One transaction: published, fenced off, or rolled back for lack of room.  *)
Publish(w) ==
  LET c == request[task[w].run].conversation IN
  /\ task[w].pc = "publish"
  /\ \/ /\ Fenced(w) /\ Room(c)
        /\ Complete(w)
        /\ Return(w)
     \/ /\ ~Fenced(w)
        /\ Return(w)
        /\ UNCHANGED <<messageCount, pairs, evidence, stateVars, leaseVars, usageState, bill>>
     \/ /\ Fenced(w) /\ ~Room(c)
        /\ Goto(w, "fail")
        /\ UNCHANGED <<messageCount, pairs, evidence, stateVars, leaseVars, usageState, bill, broker>>
  /\ UNCHANGED <<conversation, submitted, request, revision, aged, receipt, source,
                 dispatched, batch, sent, lastToken, ask, calls>>

(* Any exception of the answer pipeline: changed configuration, quotas,     *)
(* missing search, timeouts, a provider error without usage, rejected        *)
(* citations, a failed publication. The open transaction is rolled back.     *)
Raise(w) ==
  /\ task[w].pc \in {"load", "search", "begin", "send", "await", "record", "reject",
                     "context", "publish"}
  /\ Goto(w, "fail")
  /\ UNCHANGED <<convVars, submitted, request, stateVars, leaseVars, revision, usageState,
                 bill, aged, receipt, source, dispatchVars, lastToken, ask, calls>>

(* fail_run: a token holder may fail its run even when the lease is over.    *)
Fail(w) ==
  /\ task[w].pc = "fail"
  /\ IF Holds(w) THEN Stop({task[w].run}, "failed") ELSE UNCHANGED <<stateVars, leaseVars>>
  /\ Return(w)
  /\ UNCHANGED <<convVars, submitted, request, revision, usageState, bill, aged, receipt,
                 source, dispatched, batch, sent, lastToken, ask, calls>>

(* The worker process dies; its message is delivered again.                 *)
Crash(w) ==
  /\ task[w].pc # "idle"
  /\ task' = [task EXCEPT ![w] = IdleTask]
  /\ broker' = broker \cup {task[w].run}
  /\ UNCHANGED <<convVars, submitted, request, stateVars, leaseVars, revision, usageState,
                 bill, aged, receipt, source, dispatched, batch, sent, lastToken, ask, calls>>

-----------------------------------------------------------------------------
Api ==
  \/ \E c \in Conversations : Create(c) \/ Remove(c)
  \/ \E c \in Conversations, m \in Modes : Submit(c, m)
  \/ \E r \in Runs : Cancel(r)
  \/ \E a \in Askers, c \in Conversations : AskStart(a, c)
  \/ \E a \in Askers : AskEnd(a)
  \/ Reindex

Time == \E r \in Runs : LeaseExpires(r) \/ QueueAges(r) \/ RedispatchDue(r)

Dispatcher == Sweep \/ PublishMessage \/ MarkDispatched

Faults ==
  \/ DispatcherCrash
  \/ \E r \in Runs : LoseMessage(r)
  \/ \E w \in Workers : Crash(w)

Worker(w) ==
  \/ \E r \in Runs : Deliver(w, r)
  \/ Claim(w) \/ Load(w) \/ Search(w) \/ Begin(w) \/ Send(w) \/ Delta(w) \/ Respond(w)
  \/ Record(w) \/ Context(w) \/ Publish(w) \/ Raise(w) \/ Fail(w)

Next == Api \/ Time \/ Dispatcher \/ Faults \/ \E w \in Workers : Worker(w)

Spec == Init /\ [][Next]_vars

(* The dispatcher keeps cycling (jobs/dispatcher.py main) and time passes.    *)
(* Nothing is assumed of workers, users, the broker or faults.              *)
FairSpec ==
  /\ Spec
  /\ WF_vars(Dispatcher)
  /\ \A r \in Runs : WF_vars(LeaseExpires(r)) /\ WF_vars(QueueAges(r))

-----------------------------------------------------------------------------
(* Properties.                                                             *)

Request == [conversation : Conversations, mode : Modes, source : 0..MaxSource]
Pair == [conversation : Conversations, turn : Turns, user : Nat, assistant : Nat]
Steps == {"claim", "load", "search", "begin", "send", "await", "record", "reject",
          "context", "publish", "fail"}
Task == {IdleTask} \cup
        [pc : Steps, run : Runs, token : Nat, kind : Kinds,
         result : Usage \cup {"absent"}, source : 0..MaxSource]

(* Every column holds a value its CHECK constraint allows; in particular     *)
(* the preview revision never passes 256, however deltas race the limit.     *)
TypeOK ==
  /\ conversation \in [Conversations -> {"none", "live", "deleted"}]
  /\ messageCount \in [Conversations -> 0..MaxMessages]
  /\ pairs \subseteq Pair
  /\ evidence \in [Runs -> 0..MaxSource]
  /\ submitted \in 0..MaxRuns
  /\ request \in [Runs -> Request]
  /\ status \in [Runs -> Status]
  /\ token \in [Runs -> Nat]
  /\ lease \in [Runs -> {"none", "live", "expired"}]
  /\ revision \in [Runs -> 0..MaxRevision]
  /\ usageState \in [Runs -> {"not_started", "unknown", "recorded"}]
  /\ bill \in [Runs -> Usage \cup {"absent"}]
  /\ preview \subseteq Runs /\ dispatched \subseteq Runs /\ aged \subseteq Runs
  /\ events \in [Runs -> Seq(Rows)]
  /\ receipt \in [Runs -> [Kinds -> Usage \cup {"absent", "open"}]]
  /\ source \in 0..MaxSource
  /\ broker \subseteq Runs /\ batch \subseteq Runs /\ sent \in Runs \cup {NoRun}
  /\ lastToken \in Nat
  /\ task \in [Workers -> Task]
  /\ ask \in [Askers -> [phase : {"new", "answering", "done"}, conversation : Conversations]]
  /\ calls \in [Runs -> [Kinds -> Nat]]

(* The event log of a run is one of the three legal paths and ends in the    *)
(* run's state, whoever made each transition: claim, cancellation, sweep,    *)
(* failure and publication race for it (append_state takes max + 1).         *)
LegalLogs(s) ==
  CASE s = "queued"    -> {<<"queued">>}
    [] s = "running"   -> {<<"queued", "running">>}
    [] s = "completed" -> {<<"queued", "running", "completed">>}
    [] s \in {"failed", "cancelled"} -> {<<"queued", s>>, <<"queued", "running", s>>}
    [] OTHER           -> {<< >>}

EventLogMatchesStatus == \A r \in Runs : events[r] \in LegalLogs(status[r])

(* Publication is atomic: the conversation shows exactly one message pair    *)
(* for a completed run and none for any other, in the run's conversation.    *)
CompletedIffPublished ==
  \A r \in Runs :
    /\ status[r] = "completed" <=> \E p \in pairs : p.turn = r
    /\ \A p, q \in pairs : p.turn = r /\ q.turn = r =>
         p = q /\ p.conversation = request[r].conversation

(* Runs and synchronous questions that finish together still fill positions  *)
(* 1..message_count without gap or overlap, each pair adjacent, user first.   *)
TranscriptIsContiguous ==
  \A c \in Conversations :
    LET own == {p \in pairs : p.conversation = c} IN
    /\ \A p \in own : p.assistant = p.user + 1
    /\ \A p, q \in own : {p.user, p.assistant} \cap {q.user, q.assistant} # {} => p = q
    /\ UNION {{p.user, p.assistant} : p \in own} = 1..messageCount[c]

(* A conversation never has two active runs.                               *)
OneActiveRun ==
  \A q, r \in Runs :
    /\ {status[q], status[r]} \subseteq Active
    /\ request[q].conversation = request[r].conversation
    => q = r

(* Duplicate and redelivered messages, expired leases and dead workers never  *)
(* lead to a second execution of a run: "Never reclaim running paid work".    *)
Executing(w) == task[w].pc \notin {"idle", "claim"}
OneExecution ==
  \A w, v \in Workers :
    Executing(w) /\ Executing(v) /\ task[w].run = task[v].run => w = v

(* A run pays the provider at most once for each purpose.                   *)
PaidOnce == \A r \in Runs, k \in Kinds : calls[r][k] <= 1

(* usage_state tells the truth: not_started means nothing was sent, recorded *)
(* means every attempt has its usage and the bill is the generation's; every  *)
(* request sent for a run that still exists has its receipt.                 *)
UsageIsHonest ==
  \A r \in Runs : status[r] \in Rows =>
    /\ \A k \in Kinds : calls[r][k] > 0 => receipt[r][k] # "absent"
    /\ usageState[r] = "not_started" => \A k \in Kinds : receipt[r][k] = "absent"
    /\ usageState[r] = "recorded" <=> status[r] = "completed"
    /\ status[r] = "completed" =>
         /\ \A k \in Kinds : receipt[r][k] # "open"
         /\ bill[r] = receipt[r]["generation"]

(* A late publication, receipt or synchronous answer never recreates what a  *)
(* deleted conversation held.                                               *)
DeletedStaysDeleted ==
  /\ \A c \in Conversations : conversation[c] # "live" =>
       /\ messageCount[c] = 0
       /\ RowsOf(c) = {}
       /\ \A p \in pairs : p.conversation # c
  /\ \A r \in Runs : status[r] \notin Rows =>
       events[r] = << >> /\ receipt[r] = [k \in Kinds |-> "absent"]

(* A published answer rests on the index generation the run was submitted    *)
(* for, even when indexing replaces it while the run waits or executes.      *)
AnswersFromPinnedSource ==
  \A r \in Runs : status[r] = "completed" => evidence[r] = request[r].source

(* A run that ended stays as it ended until it is deleted.                  *)
TerminalIsFinal ==
  [][\A r \in Runs : status[r] \in Terminal => status'[r] \in {status[r], "deleted"}]_vars

(* Recorded usage is immutable and a receipt only ever moves forward.        *)
ReceiptsMoveForward ==
  [][\A r \in Runs, k \in Kinds : receipt'[r][k] # receipt[r][k] =>
       \/ receipt[r][k] = "absent" /\ receipt'[r][k] = "open" /\ status[r] = "running"
       \/ receipt[r][k] = "open" /\ receipt'[r][k] \in Usage
       \/ status[r] \in Rows /\ status'[r] = "deleted" /\ receipt'[r][k] = "absent"]_vars

(* Every submitted run ends, even if no worker ever runs or every one dies.  *)
RunsTerminate ==
  \A r \in Runs : status[r] \in Active ~> status[r] \in Terminal \cup {"deleted"}

=============================================================================
