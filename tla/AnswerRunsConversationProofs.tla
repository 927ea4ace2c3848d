-------------------- MODULE AnswerRunsConversationProofs --------------------
(***************************************************************************)
(* What AnswerRuns promises beside the safety of single runs. It implements   *)
(* RunLifecycle: because an answer is visible exactly for a completed run, a   *)
(* step maps to a step of the life cycle by what it does to the status column. *)
(* And a conversation has one run at a time, a transcript without gaps,        *)
(* answers from the source that was pinned, nothing left after a deletion, and *)
(* receipts that only move forward; that takes two more invariants beside IInv: *)
(* what a task has in hand when it calls the model, and the receipts of        *)
(* deleted runs.                                                           *)
(***************************************************************************)
EXTENDS AnswerRunsProofs

USE DEF Kinds, Active, Terminal, Rows, Status, NoToken, NoRun

(* The rows of S leave their state for s, and no other row changes.          *)
Assigns(S, s) == status' = [r \in Runs |-> IF r \in S THEN s ELSE status[r]]

(* The status column changes by one edge of the life cycle of one run, or    *)
(* several active runs fail together, or several rows are deleted together.  *)
StatusMoves ==
  \/ UNCHANGED status
  \/ \E r \in Runs, s \in Rows : Moves(status[r], s) /\ Assigns({r}, s)
  \/ \E S \in SUBSET Runs : (\A r \in S : status[r] \in Active) /\ Assigns(S, "failed")
  \/ \E S \in SUBSET Runs : (\A r \in S : status[r] \in Rows) /\ Assigns(S, "deleted")

(* Every step moves the status column along the life cycle.                 *)
LEMMA ApiMoves == ASSUME TypeOK, IInv, Api PROVE StatusMoves
  <1> USE DEF stateVars
  <1>1. ASSUME NEW c \in Conversations, Create(c) PROVE StatusMoves
    BY <1>1 DEF Create, StatusMoves
  <1>2. ASSUME NEW c \in Conversations, Remove(c) PROVE StatusMoves
    <2>1. Assigns(RowsOf(c), "deleted")
      BY <1>2 DEF Remove, Assigns
    <2>2. RowsOf(c) \in SUBSET Runs /\ \A r \in RowsOf(c) : status[r] \in Rows
      BY DEF RowsOf
    <2>3. QED
      BY <2>1, <2>2 DEF StatusMoves
  <1>3. ASSUME NEW c \in Conversations, NEW m \in Modes, Submit(c, m) PROVE StatusMoves
    <2>1. submitted + 1 \in Runs /\ Assigns({submitted + 1}, "queued")
      BY <1>3, Bounds DEF Submit, TypeOK, Runs, Transition, Assigns
    <2>2. status[submitted + 1] = "none"
      BY <2>1, Bounds DEF IInv, RowsInOrder, TypeOK
    <2>3. QED
      BY <2>1, <2>2 DEF StatusMoves, Moves
  <1>4. ASSUME NEW r \in Runs, Cancel(r) PROVE StatusMoves
    <2>1. Assigns({r}, "cancelled") /\ Moves(status[r], "cancelled")
      BY <1>4 DEF Cancel, Stop, Transition, Assigns, Moves
    <2>2. QED
      BY <2>1 DEF StatusMoves
  <1>5. ASSUME NEW a \in Askers, NEW c \in Conversations, AskStart(a, c) PROVE StatusMoves
    BY <1>5 DEF AskStart, StatusMoves
  <1>6. ASSUME NEW a \in Askers, AskEnd(a) PROVE StatusMoves
    BY <1>6 DEF AskEnd, StatusMoves
  <1>7. CASE Reindex
    BY <1>7 DEF Reindex, StatusMoves
  <1>8. QED
    BY <1>1, <1>2, <1>3, <1>4, <1>5, <1>6, <1>7 DEF Api

LEMMA SystemMoves == ASSUME TypeOK, IInv, Time \/ Dispatcher \/ Faults PROVE StatusMoves
  <1> USE DEF stateVars
  <1>1. CASE Time
    BY <1>1 DEF Time, LeaseExpires, QueueAges, RedispatchDue, StatusMoves
  <1>2. CASE Sweep
    <2> DEFINE S == Lost \cup Stale
    <2>1. Assigns(S, "failed")
      BY <1>2 DEF Sweep, Stop, Transition, Assigns
    <2>2. S \in SUBSET Runs /\ \A r \in S : status[r] \in Active
      BY DEF Lost, Stale
    <2> HIDE DEF S
    <2>3. QED
      BY <2>1, <2>2 DEF StatusMoves
  <1>3. CASE PublishMessage \/ MarkDispatched
    BY <1>3 DEF PublishMessage, MarkDispatched, StatusMoves
  <1>4. CASE Faults
    BY <1>4 DEF Faults, DispatcherCrash, LoseMessage, Crash, StatusMoves
  <1>5. QED
    BY <1>1, <1>2, <1>3, <1>4 DEF Dispatcher

LEMMA WorkerMoves == ASSUME TypeOK, IInv, NEW w \in Workers, Worker(w) PROVE StatusMoves
  <1> USE DEF stateVars
  <1> DEFINE r == task[w].run
  <1>0. task[w].pc # "idle" => r \in Runs
    BY TaskFields
  <1>1. CASE \/ \E q \in Runs : Deliver(w, q)
             \/ Load(w) \/ Search(w) \/ Begin(w) \/ Send(w) \/ Delta(w)
    BY <1>1 DEF Deliver, Load, Search, Begin, Send, Delta, StatusMoves
  <1>2. CASE Respond(w) \/ Record(w) \/ Context(w) \/ Raise(w)
    BY <1>2 DEF Respond, Record, Context, Raise, StatusMoves
  <1>3. CASE Claim(w)
    <2>1. CASE Claimable(r)
      <3>1. Assigns({r}, "running") /\ Moves(status[r], "running") /\ r \in Runs
        BY <1>0, <1>3, <2>1 DEF Claim, Claimable, Transition, Assigns, Moves
      <3>2. QED
        BY <3>1 DEF StatusMoves
    <2>2. CASE ~Claimable(r)
      BY <1>3, <2>2 DEF Claim, StatusMoves
    <2>3. QED
      BY <2>1, <2>2
  <1>4. CASE Publish(w)
    <2>1. CASE Fenced(w) /\ Room(request[r].conversation)
      <3>1. Assigns({r}, "completed") /\ Moves(status[r], "completed") /\ r \in Runs
        BY <1>0, <1>4, <2>1 DEF Publish, Complete, Stop, Fenced, Holds, Transition, Assigns, Moves
      <3>2. QED
        BY <3>1 DEF StatusMoves
    <2>2. CASE ~(Fenced(w) /\ Room(request[r].conversation))
      BY <1>4, <2>2 DEF Publish, StatusMoves
    <2>3. QED
      BY <2>1, <2>2
  <1>5. CASE Fail(w)
    <2>1. CASE Holds(w)
      <3>1. Assigns({r}, "failed") /\ Moves(status[r], "failed") /\ r \in Runs
        BY <1>0, <1>5, <2>1 DEF Fail, Stop, Holds, Transition, Assigns, Moves
      <3>2. QED
        BY <3>1 DEF StatusMoves
    <2>2. CASE ~Holds(w)
      BY <1>5, <2>2 DEF Fail, StatusMoves
    <2>3. QED
      BY <2>1, <2>2
  <1>6. QED
    BY <1>1, <1>2, <1>3, <1>4, <1>5 DEF Worker

LEMMA StepMoves == ASSUME TypeOK, IInv, [Next]_vars PROVE StatusMoves
  <1>1. CASE UNCHANGED vars
    BY <1>1 DEF vars, stateVars, StatusMoves
  <1>2. CASE Next
    BY <1>2, ApiMoves, SystemMoves, WorkerMoves DEF Next
  <1>3. QED
    BY <1>1, <1>2

-----------------------------------------------------------------------------
(* The answers a reader sees are those of the completed runs.                *)
Answered == {r \in Runs : \E p \in pairs : p.turn = r}

(* A run that ended keeps its outcome until it is deleted: cancellation,      *)
(* failure, the sweep and a late publication never overwrite one another.     *)
THEOREM OutcomeIsFinal == Spec => TerminalIsFinal
  <1> DEFINE Final == \A r \in Runs : status[r] \in Terminal => status'[r] \in {status[r], "deleted"}
  <1>1. ASSUME TypeOK, IInv, [Next]_vars PROVE Final
    <2>1. StatusMoves
      BY <1>1, StepMoves
    <2>2. QED
      BY <2>1 DEF StatusMoves, Assigns, Moves
  <1>2. TypeOK /\ IInv /\ [Next]_vars => [Final]_vars
    BY <1>1
  <1>3. QED
    BY <1>2, TypeCorrect, InvariantHolds, PTL DEF Spec, TerminalIsFinal

(* The detailed system implements the life cycle: every run moves along it    *)
(* and its answer becomes visible in the step that completes it.             *)
THEOREM LifecycleImplemented == Spec => ImplementsLifecycle
  <1>1. Init => Lifecycle!Init
    BY DEF Init, Lifecycle!Init
  <1>2. ASSUME TypeOK, IInv, IInv', [Next]_vars PROVE [Lifecycle!Next]_(Lifecycle!avars)
    <2> DEFINE A == {r \in Runs : status[r] = "completed"}
    <2>0. Answered = A /\ Answered' = A'
      BY <1>2 DEF IInv, CompletedIffPublished, Answered
    <2>1. CASE UNCHANGED status
      BY <2>0, <2>1 DEF Lifecycle!avars, Answered
    <2>2. ASSUME NEW r \in Runs, NEW s \in Rows, Moves(status[r], s), Assigns({r}, s)
          PROVE  Lifecycle!Next
      <3>1. Answered' = IF s = "completed" THEN Answered \cup {r} ELSE Answered
        BY <2>0, <2>2 DEF Assigns, Moves
      <3>2. CASE s = "failed"
        <4>1. Lifecycle!Abandon({r})
          BY <2>2, <3>1, <3>2 DEF Answered, Assigns, Moves, Lifecycle!Abandon,
               Lifecycle!Enter, Lifecycle!Active
        <4>2. {r} \in SUBSET Runs
          OBVIOUS
        <4>3. QED
          BY <4>1, <4>2 DEF Lifecycle!Next
      <3>3. CASE s # "failed"
        BY <2>2, <3>1, <3>3 DEF Answered, Assigns, Moves, Lifecycle!Next, Lifecycle!Accept,
             Lifecycle!Start, Lifecycle!Answer, Lifecycle!Cancel, Lifecycle!Enter, Lifecycle!Active
      <3>4. QED
        BY <3>2, <3>3
    <2>3. ASSUME NEW S \in SUBSET Runs, \A r \in S : status[r] \in Active, Assigns(S, "failed")
          PROVE  Lifecycle!Next
      <3>1. Answered' = Answered
        BY <2>0, <2>3 DEF Assigns
      <3>2. Lifecycle!Abandon(S)
        BY <2>3, <3>1 DEF Answered, Assigns, Lifecycle!Abandon, Lifecycle!Enter, Lifecycle!Active
      <3>3. QED
        BY <3>2 DEF Lifecycle!Next
    <2>4. ASSUME NEW S \in SUBSET Runs, \A r \in S : status[r] \in Rows, Assigns(S, "deleted")
          PROVE  Lifecycle!Next
      <3>1. Answered' = Answered \ S
        BY <2>0, <2>4 DEF Assigns
      <3>2. Lifecycle!Delete(S)
        BY <2>4, <3>1 DEF Answered, Assigns, Lifecycle!Delete, Lifecycle!Enter,
             Lifecycle!Active, Lifecycle!Terminal
      <3>3. QED
        BY <3>2 DEF Lifecycle!Next
    <2>5. QED
      BY <1>2, <2>1, <2>2, <2>3, <2>4, StepMoves DEF StatusMoves
  <1>3. QED
    BY <1>1, <1>2, TypeCorrect, InvariantHolds, PTL DEF Spec, ImplementsLifecycle, Lifecycle!Spec

-----------------------------------------------------------------------------
(* From the prompt on, a task works with the source its run was submitted for. *)
Prompted(t) ==
  \/ t.pc = "publish"
  \/ t.kind = "generation" /\ t.pc \in {"begin", "send", "await", "record", "reject"}

EvidenceIsPinned ==
  \A w \in Workers : Prompted(task[w]) => task[w].source = request[task[w].run].source

DeletedHasNoReceipts ==
  \A r \in Runs : status[r] = "deleted" => receipt[r] = [k \in Kinds |-> "absent"]

EmptyUnlessLive ==
  \A c \in Conversations : conversation[c] # "live" =>
    messageCount[c] = 0 /\ \A p \in pairs : p.conversation # c

ConversationInvariant ==
  /\ OneActiveRun /\ AnswersFromPinnedSource /\ EvidenceIsPinned
  /\ DeletedHasNoReceipts /\ EmptyUnlessLive /\ TranscriptIsContiguous

-----------------------------------------------------------------------------
(* What one step does to the tables of a conversation.                       *)

(* Messages come in pairs, where there is room; a deletion takes them all.    *)
TranscriptMoves ==
  \/ UNCHANGED <<conversation, messageCount, pairs>>
  \/ \E c \in Conversations : Create(c)
  \/ \E c \in Conversations : Remove(c)
  \/ UNCHANGED conversation /\ \E c \in Conversations, turn \in Turns : Room(c) /\ AppendPair(c, turn)

(* Only a submission inserts a row or writes what was asked.                  *)
SubmissionMoves ==
  UNCHANGED <<submitted, request>> \/ \E c \in Conversations, m \in Modes : Submit(c, m)

(* Evidence is that of the task that publishes, and goes with the deletion.    *)
EvidenceMoves ==
  \A r \in Runs :
    \/ evidence'[r] = evidence[r] /\ (status'[r] = "completed" => status[r] = "completed")
    \/ status'[r] = "deleted"
    \/ \E w \in Workers : /\ task[w].pc = "publish" /\ task[w].run = r
                          /\ evidence'[r] = task[w].source

(* A receipt is opened while its run executes, closed by usage, or deleted.    *)
ReceiptMoves ==
  \A r \in Runs, k \in Kinds : receipt'[r][k] # receipt[r][k] =>
    \/ receipt[r][k] = "absent" /\ receipt'[r][k] = "open" /\ status[r] = "running"
    \/ receipt[r][k] = "open" /\ receipt'[r][k] \in Usage
    \/ status[r] \in Rows /\ status'[r] = "deleted" /\ receipt'[r][k] = "absent"

(* A run that is deleted leaves no receipt.                                  *)
DeletionMoves ==
  \A r \in Runs : status'[r] = "deleted" =>
    status[r] = "deleted" \/ receipt'[r] = [k \in Kinds |-> "absent"]

Effects == DeletionMoves /\ SubmissionMoves /\ TranscriptMoves /\ EvidenceMoves /\ ReceiptMoves

(* Most steps leave all of these tables alone.                               *)
LEMMA QuietEffects ==
  ASSUME UNCHANGED <<conversation, messageCount, pairs, submitted, request, evidence, receipt>>,
         \A r \in Runs : status'[r] \in {"completed", "deleted"} => status'[r] = status[r]
  PROVE  Effects
  BY DEF Effects, DeletionMoves, SubmissionMoves, TranscriptMoves, EvidenceMoves, ReceiptMoves

(* A transition to another state completes and deletes nothing.              *)
LEMMA OtherTransition ==
  ASSUME NEW S, NEW s, Transition(S, s), s \notin {"completed", "deleted"}
  PROVE  \A r \in Runs : status'[r] \in {"completed", "deleted"} => status'[r] = status[r]
  BY DEF Transition

(* What every step does to the tables of a conversation.                    *)
LEMMA ApiEffects == ASSUME TypeOK, IInv, Api PROVE Effects
  <1> USE DEF convVars, stateVars
  <1>1. ASSUME NEW c \in Conversations, Create(c) PROVE Effects
    <2>1. UNCHANGED <<submitted, request, evidence, receipt, status>>
      BY <1>1 DEF Create
    <2>2. TranscriptMoves
      BY <1>1 DEF TranscriptMoves
    <2>3. QED
      BY <2>1, <2>2 DEF Effects, DeletionMoves, SubmissionMoves, EvidenceMoves, ReceiptMoves
  <1>2. ASSUME NEW c \in Conversations, Remove(c) PROVE Effects
    <2> DEFINE S == RowsOf(c)
    <2>1. /\ \A r \in S : r \in Runs /\ status[r] \in Rows
          /\ \A r \in Runs :
               /\ status'[r] = IF r \in S THEN "deleted" ELSE status[r]
               /\ evidence'[r] = IF r \in S THEN 0 ELSE evidence[r]
               /\ receipt'[r] = IF r \in S THEN [k \in Kinds |-> "absent"] ELSE receipt[r]
          /\ UNCHANGED <<submitted, request>>
      BY <1>2 DEF Remove, RowsOf
    <2> HIDE DEF S
    <2>2. EvidenceMoves
      BY <2>1 DEF EvidenceMoves
    <2>3. ReceiptMoves
      BY <2>1 DEF ReceiptMoves
    <2>4. TranscriptMoves
      BY <1>2 DEF TranscriptMoves
    <2>5. QED
      BY <2>1, <2>2, <2>3, <2>4 DEF Effects, DeletionMoves, SubmissionMoves
  <1>3. ASSUME NEW c \in Conversations, NEW m \in Modes, Submit(c, m) PROVE Effects
    <2>1. UNCHANGED <<conversation, messageCount, pairs, evidence, receipt>>
      BY <1>3 DEF Submit
    <2>2. \A r \in Runs : status'[r] \in {"completed", "deleted"} => status'[r] = status[r]
      BY <1>3, OtherTransition DEF Submit
    <2>3. SubmissionMoves
      BY <1>3 DEF SubmissionMoves
    <2>4. QED
      BY <2>1, <2>2, <2>3 DEF Effects, DeletionMoves, TranscriptMoves, EvidenceMoves, ReceiptMoves
  <1>4. ASSUME NEW r \in Runs, Cancel(r) PROVE Effects
    <2>1. \A q \in Runs : status'[q] \in {"completed", "deleted"} => status'[q] = status[q]
      BY <1>4, OtherTransition DEF Cancel, Stop
    <2>2. QED
      BY <1>4, <2>1, QuietEffects DEF Cancel
  <1>5. ASSUME NEW a \in Askers, NEW c \in Conversations, AskStart(a, c) PROVE Effects
    BY <1>5, QuietEffects DEF AskStart
  <1>6. ASSUME NEW a \in Askers, AskEnd(a) PROVE Effects
    <2>1. UNCHANGED <<conversation, submitted, request, evidence, receipt, status>>
      BY <1>6 DEF AskEnd
    <2>2. ask[a].conversation \in Conversations /\ a \in Turns
      BY DEF TypeOK, Turns
    <2>3. TranscriptMoves
      BY <1>6, <2>1, <2>2 DEF AskEnd, TranscriptMoves
    <2>4. QED
      BY <2>1, <2>3 DEF Effects, DeletionMoves, SubmissionMoves, EvidenceMoves, ReceiptMoves
  <1>7. CASE Reindex
    BY <1>7, QuietEffects DEF Reindex
  <1>8. QED
    BY <1>1, <1>2, <1>3, <1>4, <1>5, <1>6, <1>7 DEF Api

LEMMA SystemEffects == ASSUME TypeOK, IInv, Time \/ Dispatcher \/ Faults PROVE Effects
  <1> USE DEF convVars, stateVars
  <1>1. CASE Time
    BY <1>1, QuietEffects DEF Time, LeaseExpires, QueueAges, RedispatchDue
  <1>2. CASE Sweep
    <2>1. \A q \in Runs : status'[q] \in {"completed", "deleted"} => status'[q] = status[q]
      BY <1>2, OtherTransition DEF Sweep, Stop
    <2>2. QED
      BY <1>2, <2>1, QuietEffects DEF Sweep
  <1>3. CASE PublishMessage \/ MarkDispatched
    BY <1>3, QuietEffects DEF PublishMessage, MarkDispatched
  <1>4. CASE Faults
    BY <1>4, QuietEffects DEF Faults, DispatcherCrash, LoseMessage, Crash
  <1>5. QED
    BY <1>1, <1>2, <1>3, <1>4 DEF Dispatcher

(* A receipt that is written has one entry changed.                          *)
LEMMA ReceiptWritten ==
  ASSUME TypeOK, NEW r \in Runs, NEW k \in Kinds, NEW u, receipt' = [receipt EXCEPT ![r][k] = u],
         \/ u = receipt[r][k]
         \/ receipt[r][k] = "absent" /\ u = "open" /\ status[r] = "running"
         \/ receipt[r][k] = "open" /\ u \in Usage
  PROVE  ReceiptMoves
  <1>1. \A q \in Runs, j \in Kinds :
          receipt'[q][j] = IF q = r /\ j = k THEN u ELSE receipt[q][j]
    BY Tables, TableUpdate
  <1>2. QED
    BY <1>1 DEF ReceiptMoves

LEMMA WorkerEffects == ASSUME TypeOK, IInv, NEW w \in Workers, Worker(w) PROVE Effects
  <1> USE DEF convVars, stateVars
  <1> DEFINE r == task[w].run
             k == task[w].kind
  <1>1. CASE \/ \E q \in Runs : Deliver(w, q)
             \/ Load(w) \/ Search(w) \/ Send(w) \/ Delta(w)
    BY <1>1, QuietEffects DEF Deliver, Load, Search, Send, Delta
  <1>2. CASE Respond(w) \/ Context(w) \/ Raise(w)
    BY <1>2, QuietEffects DEF Respond, Context, Raise
  <1>6. CASE Claim(w) \/ Fail(w)
    <2>1. UNCHANGED status \/ Transition({r}, "running") \/ Transition({r}, "failed")
      BY <1>6 DEF Claim, Fail, Stop
    <2>2. \A q \in Runs : status'[q] \in {"completed", "deleted"} => status'[q] = status[q]
      BY <2>1, OtherTransition
    <2>3. QED
      BY <1>6, <2>2, QuietEffects DEF Claim, Fail
  <1>3. CASE Begin(w)
    <2>1. CASE Fenced(w) /\ receipt[r][k] = "absent"
      <3>1. receipt' = [receipt EXCEPT ![r][k] = "open"] /\ status[r] = "running" /\ r \in Runs /\ k \in Kinds
        BY <1>3, <2>1, Payer DEF Begin, Fenced, Holds, Executing
      <3>2. ReceiptMoves
        BY <2>1, <3>1, ReceiptWritten
      <3>3. QED
        BY <1>3, <3>2 DEF Begin, Effects, DeletionMoves, SubmissionMoves, TranscriptMoves, EvidenceMoves
    <2>2. CASE ~(Fenced(w) /\ receipt[r][k] = "absent")
      BY <1>3, <2>2, QuietEffects DEF Begin
    <2>3. QED
      BY <2>1, <2>2
  <1>4. CASE Record(w)
    <2> DEFINE u == Recorded(r, k, task[w].result)
    <2>1. receipt' = [receipt EXCEPT ![r][k] = u] /\ r \in Runs /\ k \in Kinds
      BY <1>4, Payer DEF Record, Executing
    <2>2. task[w].result \in Usage
      BY <1>4 DEF Record, IInv, StagesKeepReceipts, Sound
    <2>3. u = receipt[r][k] \/ (receipt[r][k] = "open" /\ u \in Usage)
      BY <2>2 DEF Recorded
    <2> HIDE DEF u
    <2>4. ReceiptMoves
      BY <2>1, <2>3, ReceiptWritten
    <2>5. QED
      BY <1>4, <2>4 DEF Record, Effects, DeletionMoves, SubmissionMoves, TranscriptMoves, EvidenceMoves
  <1>5. CASE Publish(w)
    <2> DEFINE c == request[r].conversation
    <2>1. CASE Fenced(w) /\ Room(c)
      <3>1. /\ task[w].pc = "publish" /\ evidence' = [evidence EXCEPT ![r] = task[w].source]
            /\ AppendPair(c, r) /\ UNCHANGED <<conversation, submitted, request, receipt>>
            /\ Transition({r}, "completed")
        BY <1>5, <2>1 DEF Publish, Complete, Stop
      <3>2. r \in Runs /\ r \in Turns /\ c \in Conversations
        BY <3>1, TaskFields DEF Turns, TypeOK, Request
      <3>3. \A q \in Runs :
              /\ evidence'[q] = IF q = r THEN task[w].source ELSE evidence[q]
              /\ status'[q] = IF q = r THEN "completed" ELSE status[q]
        BY <3>1 DEF TypeOK, Transition
      <3>4. EvidenceMoves
        BY <3>1, <3>3 DEF EvidenceMoves
      <3>5. TranscriptMoves
        BY <2>1, <3>1, <3>2 DEF TranscriptMoves
      <3>6. QED
        BY <3>1, <3>3, <3>4, <3>5 DEF Effects, DeletionMoves, SubmissionMoves, ReceiptMoves
    <2>2. CASE ~(Fenced(w) /\ Room(c))
      BY <1>5, <2>2, QuietEffects DEF Publish
    <2>3. QED
      BY <2>1, <2>2
  <1>7. QED
    BY <1>1, <1>2, <1>3, <1>4, <1>5, <1>6 DEF Worker

LEMMA StepEffects == ASSUME TypeOK, IInv, [Next]_vars PROVE Effects
  <1>1. CASE UNCHANGED vars
    BY <1>1, QuietEffects DEF vars, convVars, stateVars
  <1>2. CASE Next
    BY <1>2, ApiEffects, SystemEffects, WorkerEffects DEF Next
  <1>3. QED
    BY <1>1, <1>2

-----------------------------------------------------------------------------
(* The invariant, one part after the other.                                  *)

LEMMA InitConversation == Init => ConversationInvariant
  <1> SUFFICES ASSUME Init PROVE ConversationInvariant
    OBVIOUS
  <1>1. OneActiveRun /\ AnswersFromPinnedSource /\ DeletedHasNoReceipts /\ EmptyUnlessLive
    BY DEF Init, OneActiveRun, AnswersFromPinnedSource, DeletedHasNoReceipts, EmptyUnlessLive
  <1>2. EvidenceIsPinned
    BY DEF Init, EvidenceIsPinned, Prompted, IdleTask
  <1>3. TranscriptIsContiguous
    BY DEF Init, TranscriptIsContiguous
  <1>4. QED
    BY <1>1, <1>2, <1>3 DEF ConversationInvariant

(* A submission: the next row, for what is asked.                            *)
LEMMA Submission ==
  ASSUME TypeOK, IInv, NEW c \in Conversations, NEW m \in Modes, Submit(c, m)
  PROVE  \E n \in Runs :
           /\ status[n] = "none" /\ NothingActive(c) /\ request'[n].conversation = c
           /\ \A r \in Runs : status'[r] = IF r = n THEN "queued" ELSE status[r]
           /\ \A r \in Runs : r # n => request'[r] = request[r]
  <1> DEFINE n == submitted + 1
  <1>1. /\ NothingActive(c) /\ n \in Runs
        /\ request' = [request EXCEPT ![n] = [conversation |-> c, mode |-> m, source |-> source]]
        /\ \A r \in Runs : status'[r] = IF r = n THEN "queued" ELSE status[r]
    BY Bounds DEF Submit, TypeOK, Runs, Transition
  <1>2. request'[n].conversation = c /\ \A r \in Runs : r # n => request'[r] = request[r]
    BY <1>1 DEF TypeOK
  <1>3. status[n] = "none"
    BY <1>1, Bounds DEF IInv, RowsInOrder, TypeOK
  <1> HIDE DEF n
  <1>4. QED
    BY <1>1, <1>2, <1>3

(* Without one, no row appears.                                             *)
LEMMA NoSubmission ==
  ASSUME RowsInOrder, RowsInOrder', StatusMoves, UNCHANGED submitted
  PROVE  \A r \in Runs : status'[r] \in Active => status[r] \in Active
  BY DEF RowsInOrder, StatusMoves, Assigns, Moves

(* A run becomes active only by its submission, which finds none active.      *)
LEMMA ActiveStep ==
  ASSUME TypeOK, IInv, IInv', OneActiveRun, StatusMoves, SubmissionMoves PROVE OneActiveRun'
  <1>1. ASSUME NEW c \in Conversations, NEW m \in Modes, Submit(c, m) PROVE OneActiveRun'
    <2> PICK n \in Runs :
           /\ status[n] = "none" /\ NothingActive(c) /\ request'[n].conversation = c
           /\ \A r \in Runs : status'[r] = IF r = n THEN "queued" ELSE status[r]
           /\ \A r \in Runs : r # n => request'[r] = request[r]
      BY <1>1, Submission
    <2>1. \A q \in Runs : request[q].conversation = c => status[q] \notin Active
      BY DEF NothingActive, RowsOf
    <2>2. QED
      BY <2>1 DEF OneActiveRun
  <1>2. CASE UNCHANGED <<submitted, request>>
    <2>1. \A r \in Runs : status'[r] \in Active => status[r] \in Active
      BY <1>2, NoSubmission DEF IInv
    <2>2. QED
      BY <1>2, <2>1 DEF OneActiveRun
  <1>3. QED
    BY <1>1, <1>2 DEF SubmissionMoves

(* What was asked does not change once there is a row.                       *)
LEMMA RequestsStay ==
  ASSUME TypeOK, IInv, SubmissionMoves
  PROVE  \A r \in Runs : status[r] # "none" => request'[r] = request[r]
  <1>1. ASSUME NEW c \in Conversations, NEW m \in Modes, Submit(c, m)
        PROVE  \A r \in Runs : status[r] # "none" => request'[r] = request[r]
    BY <1>1, Submission
  <1>2. QED
    BY <1>1 DEF SubmissionMoves

(* The evidence of a completed run is what its task had when it published.    *)
LEMMA EvidenceStep ==
  ASSUME TypeOK, IInv, AnswersFromPinnedSource, EvidenceIsPinned, StatusMoves,
         SubmissionMoves, EvidenceMoves
  PROVE  AnswersFromPinnedSource'
  <1>1. ASSUME NEW r \in Runs, status'[r] = "completed" PROVE evidence'[r] = request'[r].source
    <2>1. status[r] # "none"
      BY <1>1 DEF StatusMoves, Assigns, Moves
    <2>2. request'[r] = request[r]
      BY <2>1, RequestsStay
    <2>3. CASE evidence'[r] = evidence[r] /\ status[r] = "completed"
      BY <2>2, <2>3 DEF AnswersFromPinnedSource
    <2>4. ASSUME NEW w \in Workers, task[w].pc = "publish", task[w].run = r, evidence'[r] = task[w].source
          PROVE  evidence'[r] = request'[r].source
      BY <2>2, <2>4 DEF EvidenceIsPinned, Prompted
    <2>5. QED
      BY <1>1, <2>3, <2>4 DEF EvidenceMoves
  <1>2. QED
    BY <1>1 DEF AnswersFromPinnedSource

(* A task reaches the model only with the pinned source in hand, and then      *)
(* keeps it.                                                               *)
PromptMoves ==
  \A v \in Workers : Prompted(task'[v]) =>
    \/ Prompted(task[v]) /\ task'[v].run = task[v].run /\ task'[v].source = task[v].source
    \/ /\ PinnedSource(v) /\ Executing(v)
       /\ task'[v].run = task[v].run /\ task'[v].source = task[v].source

(* Only the task of worker w changes, to t.                                  *)
LEMMA OneTaskMoves ==
  ASSUME TypeOK, NEW w \in Workers, NEW t, task' = [task EXCEPT ![w] = t],
         Prompted(t) => /\ t.run = task[w].run /\ t.source = task[w].source
                        /\ Prompted(task[w]) \/ (PinnedSource(w) /\ Executing(w))
  PROVE  PromptMoves
  <1>1. \A v \in Workers : task'[v] = IF v = w THEN t ELSE task[v]
    BY DEF TypeOK
  <1>2. QED
    BY <1>1 DEF PromptMoves

(* A task that returns has nothing in hand.                                 *)
LEMMA IdleMoves ==
  ASSUME TypeOK, NEW w \in Workers, task' = [task EXCEPT ![w] = IdleTask] PROVE PromptMoves
  <1>1. ~Prompted(IdleTask)
    BY DEF Prompted, IdleTask
  <1>2. QED
    BY <1>1, OneTaskMoves

(* A worker goes on: with the model if it was, or else not to it.             *)
LEMMA GotoMoves ==
  ASSUME TypeOK, NEW w \in Workers, NEW pc \in Steps, Executing(w), Goto(w, pc),
         Prompted([task[w] EXCEPT !.pc = pc]) => Prompted(task[w])
  PROVE  PromptMoves
  <1> DEFINE t == [task[w] EXCEPT !.pc = pc]
  <1>1. t.run = task[w].run /\ t.source = task[w].source
    BY TaskFields DEF Executing
  <1>2. task' = [task EXCEPT ![w] = t]
    BY DEF Goto
  <1> HIDE DEF t
  <1>3. QED
    BY <1>1, <1>2, OneTaskMoves DEF t

(* Steps of others leave the tasks alone.                                   *)
LEMMA QuietMoves == ASSUME UNCHANGED task PROVE PromptMoves
  BY DEF PromptMoves

(* A worker only writes a prompt for the run it holds.                      *)
LEMMA WorkerPrompts == ASSUME TypeOK, NEW w \in Workers, Worker(w) PROVE PromptMoves
  <1> DEFINE fields == [pc : Steps, run : Runs, token : Nat, kind : Kinds,
                        result : Usage \cup {"absent"}, source : 0..MaxSource]
  <1>0. Executing(w) => task[w] \in fields
    BY TaskFields DEF Executing
  <1>1. ASSUME NEW r \in Runs, Deliver(w, r) PROVE PromptMoves
    <2> DEFINE t == [IdleTask EXCEPT !.pc = "claim", !.run = r]
    <2>1. task' = [task EXCEPT ![w] = t] /\ ~Prompted(t)
      BY <1>1 DEF Deliver, Prompted, IdleTask
    <2> HIDE DEF t
    <2>2. QED
      BY <2>1, OneTaskMoves
  <1>2. CASE Claim(w)
    <2> DEFINE t == [task[w] EXCEPT !.pc = "load", !.token = lastToken + 1]
    <2>1. task' = [task EXCEPT ![w] = t] \/ task' = [task EXCEPT ![w] = IdleTask]
      BY <1>2 DEF Claim, Return
    <2>2. ~Prompted(t)
      BY <1>2, TaskFields DEF Claim, Prompted
    <2> HIDE DEF t
    <2>3. QED
      BY <2>1, <2>2, OneTaskMoves, IdleMoves
  <1>3. CASE Load(w)
    <2>1. ~Prompted([task[w] EXCEPT !.pc = "search"])
      BY <1>0, <1>3 DEF Load, Executing, Prompted
    <2>2. QED
      BY <1>3, <2>1, GotoMoves, IdleMoves DEF Load, Return, Executing, Steps
  <1>4. CASE Search(w)
    <2> DEFINE t == [task[w] EXCEPT !.source = source, !.kind = "query_embedding",
                      !.pc = IF request[task[w].run].mode = "hybrid" THEN "begin" ELSE "context"]
    <2>1. task' = [task EXCEPT ![w] = t]
      BY <1>4 DEF Search
    <2>2. ~Prompted(t)
      BY <1>0, <1>4 DEF Search, Executing, Prompted
    <2> HIDE DEF t
    <2>3. QED
      BY <2>1, <2>2, OneTaskMoves
  <1>5. CASE Begin(w) \/ Send(w)
    <2>1. \A pc \in {"send", "await", "fail"} :
            Prompted([task[w] EXCEPT !.pc = pc]) => Prompted(task[w])
      BY <1>0, <1>5 DEF Begin, Send, Executing, Prompted
    <2>2. \E pc \in {"send", "await", "fail"} : Goto(w, pc)
      BY <1>5 DEF Begin, Send
    <2>3. QED
      BY <1>5, <2>1, <2>2, GotoMoves DEF Begin, Send, Executing, Steps
  <1>6. CASE Delta(w) \/ Raise(w)
    <2>1. ~Prompted([task[w] EXCEPT !.pc = "fail"]) /\ Executing(w)
      BY <1>0, <1>6 DEF Delta, Raise, Executing, Prompted
    <2>2. UNCHANGED task \/ Goto(w, "fail")
      BY <1>6 DEF Delta, Raise
    <2>3. QED
      BY <2>1, <2>2, GotoMoves, QuietMoves DEF Steps
  <1>7. CASE Respond(w)
    <2> PICK u \in Usage, pc \in {"record", "reject"} :
           task' = [task EXCEPT ![w] = [task[w] EXCEPT !.result = u, !.pc = pc]]
      BY <1>7 DEF Respond
    <2> DEFINE t == [task[w] EXCEPT !.result = u, !.pc = pc]
    <2>1. /\ t.run = task[w].run /\ t.source = task[w].source
          /\ Prompted(t) => Prompted(task[w])
      BY <1>0, <1>7 DEF Respond, Executing, Prompted
    <2>2. task' = [task EXCEPT ![w] = t]
      OBVIOUS
    <2> HIDE DEF t
    <2>3. QED
      BY <2>1, <2>2, OneTaskMoves
  <1>8. CASE Record(w)
    <2>1. \E pc \in {"fail", "publish", "context"} :
            Goto(w, pc) /\ (pc = "publish" => task[w].kind = "generation")
      BY <1>8 DEF Record
    <2>2. \A pc \in {"fail", "publish", "context"} : (pc = "publish" => task[w].kind = "generation") =>
            (Prompted([task[w] EXCEPT !.pc = pc]) => Prompted(task[w]))
      BY <1>0, <1>8 DEF Record, Executing, Prompted
    <2>3. QED
      BY <1>8, <2>1, <2>2, GotoMoves DEF Record, Executing, Steps
  <1>9. CASE Context(w)
    <2>1. CASE ~PinnedSource(w)
      <3>1. ~Prompted([task[w] EXCEPT !.pc = "fail"])
        BY <1>0, <1>9 DEF Context, Executing, Prompted
      <3>2. QED
        BY <1>9, <2>1, <3>1, GotoMoves DEF Context, Executing, Steps
    <2>2. CASE PinnedSource(w)
      <3> PICK pc \in {"begin", "publish"} :
             task' = [task EXCEPT ![w] =
               [task[w] EXCEPT !.pc = pc, !.kind = "generation", !.result = "absent"]]
        BY <1>9, <2>2 DEF Context
      <3> DEFINE t == [task[w] EXCEPT !.pc = pc, !.kind = "generation", !.result = "absent"]
      <3>1. t.run = task[w].run /\ t.source = task[w].source /\ Executing(w)
        BY <1>0, <1>9 DEF Context, Executing
      <3>2. task' = [task EXCEPT ![w] = t]
        OBVIOUS
      <3> HIDE DEF t
      <3>3. QED
        BY <2>2, <3>1, <3>2, OneTaskMoves
    <2>3. QED
      BY <2>1, <2>2
  <1>10. CASE Publish(w)
    <2>1. ~Prompted([task[w] EXCEPT !.pc = "fail"]) /\ Executing(w)
      BY <1>0, <1>10 DEF Publish, Executing, Prompted
    <2>2. QED
      BY <1>10, <2>1, GotoMoves, IdleMoves DEF Publish, Return, Steps
  <1>11. CASE Fail(w)
    BY <1>11, IdleMoves DEF Fail, Return
  <1>12. QED
    BY <1>1, <1>2, <1>3, <1>4, <1>5, <1>6, <1>7, <1>8, <1>9, <1>10, <1>11 DEF Worker

LEMMA StepPrompts == ASSUME TypeOK, [Next]_vars PROVE PromptMoves
  <1>1. CASE UNCHANGED vars
    BY <1>1, QuietMoves DEF vars
  <1>2. CASE Api
    BY <1>2, QuietMoves DEF Api, Create, Remove, Submit, Cancel, AskStart, AskEnd, Reindex
  <1>3. CASE Time \/ Dispatcher
    BY <1>3, QuietMoves DEF Time, LeaseExpires, QueueAges, RedispatchDue,
         Dispatcher, Sweep, PublishMessage, MarkDispatched
  <1>4. CASE Faults
    BY <1>4, QuietMoves, IdleMoves DEF Faults, DispatcherCrash, LoseMessage, Crash
  <1>5. QED
    BY <1>1, <1>2, <1>3, <1>4, WorkerPrompts DEF Next

(* What a task has in hand stays pinned to the source of its run.           *)
LEMMA PinStep ==
  ASSUME TypeOK, IInv, EvidenceIsPinned, SubmissionMoves, PromptMoves PROVE EvidenceIsPinned'
  <1>1. ASSUME NEW v \in Workers, Prompted(task'[v])
        PROVE  task'[v].source = request'[task'[v].run].source
    <2>1. Executing(v) /\ task'[v].run = task[v].run /\ task'[v].source = task[v].source
          /\ task[v].source = request[task[v].run].source
      BY <1>1 DEF PromptMoves, EvidenceIsPinned, PinnedSource, Prompted, Executing
    <2>2. task[v].run \in Runs /\ status[task[v].run] # "none"
      BY <2>1, TaskFields DEF IInv, ExecutesClaimed, Executing
    <2>3. request'[task[v].run] = request[task[v].run]
      BY <2>2, RequestsStay
    <2>4. QED
      BY <2>1, <2>3
  <1>2. QED
    BY <1>1 DEF EvidenceIsPinned

(* A deleted run had no receipt, or loses it now; none is written later.      *)
LEMMA ReceiptsGo ==
  ASSUME TypeOK, TypeOK', DeletedHasNoReceipts, ReceiptMoves, DeletionMoves
  PROVE  DeletedHasNoReceipts'
  <1>1. ASSUME NEW r \in Runs, status'[r] = "deleted" PROVE receipt'[r] = [k \in Kinds |-> "absent"]
    <2>1. CASE status[r] = "deleted"
      <3>1. \A k \in Kinds : receipt[r][k] = "absent"
        BY <2>1 DEF DeletedHasNoReceipts
      <3>2. \A k \in Kinds : receipt'[r][k] = "absent"
        BY <2>1, <3>1 DEF ReceiptMoves
      <3>3. receipt'[r] \in [Kinds -> Usage \cup {"absent", "open"}]
        BY DEF TypeOK
      <3>4. QED
        BY <3>2, <3>3
    <2>2. CASE status[r] # "deleted"
      BY <1>1, <2>2 DEF DeletionMoves
    <2>3. QED
      BY <2>1, <2>2
  <1>2. QED
    BY <1>1 DEF DeletedHasNoReceipts

(* The messages of a conversation that is not live are gone.                 *)
LEMMA EmptyStep ==
  ASSUME TypeOK, EmptyUnlessLive, TranscriptMoves PROVE EmptyUnlessLive'
  <1>1. CASE UNCHANGED <<conversation, messageCount, pairs>>
    BY <1>1 DEF EmptyUnlessLive
  <1>2. ASSUME NEW c \in Conversations, Create(c) PROVE EmptyUnlessLive'
    <2>1. /\ \A d \in Conversations : conversation'[d] = IF d = c THEN "live" ELSE conversation[d]
          /\ UNCHANGED <<messageCount, pairs>>
      BY <1>2 DEF Create, TypeOK
    <2>2. QED
      BY <2>1 DEF EmptyUnlessLive
  <1>3. ASSUME NEW c \in Conversations, Remove(c) PROVE EmptyUnlessLive'
    <2>1. /\ \A d \in Conversations :
               /\ conversation'[d] = IF d = c THEN "deleted" ELSE conversation[d]
               /\ messageCount'[d] = IF d = c THEN 0 ELSE messageCount[d]
          /\ pairs' = {p \in pairs : p.conversation # c}
      BY <1>3 DEF Remove, TypeOK
    <2>2. QED
      BY <2>1 DEF EmptyUnlessLive
  <1>4. ASSUME NEW c \in Conversations, NEW turn \in Turns, Room(c), AppendPair(c, turn),
               UNCHANGED conversation
        PROVE  EmptyUnlessLive'
    <2>1. conversation[c] = "live" /\ \A p \in pairs' : p \in pairs \/ p.conversation = c
      BY <1>4 DEF Room, AppendPair
    <2>2. \A d \in Conversations : d # c => messageCount'[d] = messageCount[d]
      BY <1>4 DEF AppendPair, TypeOK
    <2>3. QED
      BY <1>4, <2>1, <2>2 DEF EmptyUnlessLive
  <1>5. QED
    BY <1>1, <1>2, <1>3, <1>4 DEF TranscriptMoves

(* The pairs of a conversation fill its positions.                           *)
Own(c) == {p \in pairs : p.conversation = c}

Contiguous(own, n) ==
  /\ \A p \in own : p.assistant = p.user + 1
  /\ \A p, q \in own : {p.user, p.assistant} \cap {q.user, q.assistant} # {} => p = q
  /\ UNION {{p.user, p.assistant} : p \in own} = 1..n

(* The property, conversation by conversation.                              *)
LEMMA Transcript == TranscriptIsContiguous <=> \A c \in Conversations : Contiguous(Own(c), messageCount[c])
  BY DEF TranscriptIsContiguous, Contiguous, Own

(* Two more positions after the last are new.                                *)
LEMMA OnePairMore ==
  ASSUME NEW n \in Nat, NEW own \in SUBSET Pair, Contiguous(own, n),
         NEW new, new.user = n + 1, new.assistant = n + 2
  PROVE  Contiguous(own \cup {new}, n + 2)
  <1> DEFINE more == own \cup {new}
  <1>1. \A p \in own : p.user \in 1..n /\ p.assistant \in 1..n
    <2>1. ASSUME NEW p \in own PROVE {p.user, p.assistant} \subseteq 1..n
      BY DEF Contiguous
    <2>2. QED
      BY <2>1
  <1>2. \A p \in more : p.assistant = p.user + 1
    BY DEF Contiguous
  <1>3. ASSUME NEW p \in more, NEW q \in more, {p.user, p.assistant} \cap {q.user, q.assistant} # {}
        PROVE  p = q
    <2>1. CASE p \in own /\ q \in own
      BY <1>3, <2>1 DEF Contiguous
    <2>2. CASE p = new /\ q \in own
      BY <1>1, <1>3, <2>2
    <2>3. CASE p \in own /\ q = new
      BY <1>1, <1>3, <2>3
    <2>4. QED
      BY <2>1, <2>2, <2>3
  <1>4. UNION {{p.user, p.assistant} : p \in more} = 1..(n + 2)
    <2>1. UNION {{p.user, p.assistant} : p \in more}
            = (UNION {{p.user, p.assistant} : p \in own}) \cup {new.user, new.assistant}
      OBVIOUS
    <2>2. (1..n) \cup {n + 1, n + 2} = 1..(n + 2)
      OBVIOUS
    <2>3. QED
      BY <2>1, <2>2 DEF Contiguous
  <1>5. QED
    BY <1>2, <1>3, <1>4 DEF Contiguous

(* A pair is added at the end, or everything goes.                          *)
LEMMA TranscriptStep ==
  ASSUME TypeOK, TranscriptIsContiguous, TranscriptMoves PROVE TranscriptIsContiguous'
  <1>0. \A c \in Conversations : Contiguous(Own(c), messageCount[c])
    BY Transcript
  <1>1. CASE UNCHANGED <<conversation, messageCount, pairs>>
    BY <1>1 DEF TranscriptIsContiguous
  <1>2. ASSUME NEW c \in Conversations, Create(c) PROVE TranscriptIsContiguous'
    BY <1>2 DEF Create, TranscriptIsContiguous
  <1>3. ASSUME NEW c \in Conversations, Remove(c) PROVE TranscriptIsContiguous'
    <2>1. ASSUME NEW d \in Conversations PROVE Contiguous(Own(d)', messageCount'[d])
      <3>1. messageCount'[d] = IF d = c THEN 0 ELSE messageCount[d]
        BY <1>3 DEF Remove, TypeOK
      <3>2. Own(d)' = IF d = c THEN {} ELSE Own(d)
        BY <1>3 DEF Remove, Own
      <3>3. Contiguous({}, 0)
        BY DEF Contiguous
      <3>4. QED
        BY <1>0, <3>1, <3>2, <3>3
    <2>2. QED
      BY <2>1 DEF TranscriptIsContiguous, Contiguous, Own
  <1>4. ASSUME NEW c \in Conversations, NEW turn \in Turns, Room(c), AppendPair(c, turn),
               UNCHANGED conversation
        PROVE  TranscriptIsContiguous'
    <2> DEFINE n == messageCount[c]
               new == [conversation |-> c, turn |-> turn, user |-> n + 1, assistant |-> n + 2]
    <2>0. n \in Nat /\ new.user = n + 1 /\ new.assistant = n + 2 /\ new.conversation = c
      BY Bounds DEF TypeOK
    <2>1. pairs' = pairs \cup {new} /\ messageCount' = [messageCount EXCEPT ![c] = n + 2]
      BY <1>4 DEF AppendPair
    <2> HIDE DEF new
    <2>2. ASSUME NEW d \in Conversations PROVE Contiguous(Own(d)', messageCount'[d])
      <3>1. messageCount'[d] = IF d = c THEN n + 2 ELSE messageCount[d]
        BY <2>1 DEF TypeOK
      <3>2. Own(d)' = IF d = c THEN Own(d) \cup {new} ELSE Own(d)
        BY <2>0, <2>1 DEF Own
      <3>3. Own(d) \in SUBSET Pair
        BY DEF Own, TypeOK
      <3>4. d = c => Contiguous(Own(d) \cup {new}, n + 2)
        BY <1>0, <2>0, <3>3, OnePairMore
      <3>5. QED
        BY <1>0, <3>1, <3>2, <3>4
    <2>3. QED
      BY <2>2 DEF TranscriptIsContiguous, Contiguous, Own
  <1>5. QED
    BY <1>1, <1>2, <1>3, <1>4 DEF TranscriptMoves

-----------------------------------------------------------------------------
(* Every step keeps the invariant of the conversations; it needs IInv before   *)
(* and after the step.                                                      *)
THEOREM ConversationInvariantHolds == Spec => []ConversationInvariant
  <1>1. ASSUME TypeOK, TypeOK', IInv, IInv', ConversationInvariant, [Next]_vars
        PROVE  ConversationInvariant'
    <2>1. StatusMoves /\ Effects /\ PromptMoves
      BY <1>1, StepMoves, StepEffects, StepPrompts
    <2>2. OneActiveRun'
      BY <1>1, <2>1, ActiveStep DEF ConversationInvariant, Effects
    <2>3. AnswersFromPinnedSource' /\ EvidenceIsPinned'
      BY <1>1, <2>1, EvidenceStep, PinStep DEF ConversationInvariant, Effects
    <2>4. DeletedHasNoReceipts' /\ EmptyUnlessLive' /\ TranscriptIsContiguous'
      BY <1>1, <2>1, ReceiptsGo, EmptyStep, TranscriptStep DEF ConversationInvariant, Effects
    <2>5. QED
      BY <2>2, <2>3, <2>4 DEF ConversationInvariant
  <1>2. TypeOK /\ TypeOK' /\ IInv /\ IInv' /\ ConversationInvariant /\ [Next]_vars
          => ConversationInvariant'
    BY <1>1
  <1>3. QED
    BY <1>2, InitConversation, TypeCorrect, InvariantHolds, PTL DEF Spec

(* A conversation never has two active runs.                                *)
THEOREM ActiveRunsUnique == Spec => []OneActiveRun
  <1>1. ConversationInvariant => OneActiveRun
    BY DEF ConversationInvariant
  <1>2. QED
    BY <1>1, ConversationInvariantHolds, PTL

(* Synchronous answers and publications fill a transcript without gaps.       *)
THEOREM TranscriptsContiguous == Spec => []TranscriptIsContiguous
  <1>1. ConversationInvariant => TranscriptIsContiguous
    BY DEF ConversationInvariant
  <1>2. QED
    BY <1>1, ConversationInvariantHolds, PTL

(* A published answer rests on the source its run was submitted for.          *)
THEOREM EvidencePinned == Spec => []AnswersFromPinnedSource
  <1>1. ConversationInvariant => AnswersFromPinnedSource
    BY DEF ConversationInvariant
  <1>2. QED
    BY <1>1, ConversationInvariantHolds, PTL

(* Nothing of a deleted conversation comes back.                             *)
THEOREM DeletionIsFinal == Spec => []DeletedStaysDeleted
  <1>1. ASSUME TypeOK, IInv, ConversationInvariant PROVE DeletedStaysDeleted
    <2>1. ASSUME NEW c \in Conversations, conversation[c] # "live"
          PROVE  /\ messageCount[c] = 0 /\ RowsOf(c) = {}
                 /\ \A p \in pairs : p.conversation # c
      BY <1>1, <2>1 DEF ConversationInvariant, EmptyUnlessLive, IInv, RunsHaveConversation, RowsOf
    <2>2. ASSUME NEW r \in Runs, status[r] \notin Rows
          PROVE  events[r] = << >> /\ receipt[r] = [k \in Kinds |-> "absent"]
      <3>1. status[r] \in {"none", "deleted"}
        BY <1>1, <2>2 DEF TypeOK
      <3>2. events[r] = << >>
        BY <1>1, <3>1 DEF IInv, EventLogMatchesStatus, LegalLogs
      <3>3. CASE status[r] = "none"
        <4>1. \A k \in Kinds : receipt[r][k] = "absent"
          BY <1>1, <3>3 DEF IInv, UntouchedUntilClaimed
        <4>2. receipt[r] \in [Kinds -> Usage \cup {"absent", "open"}]
          BY <1>1 DEF TypeOK
        <4>3. QED
          BY <3>2, <4>1, <4>2
      <3>4. CASE status[r] = "deleted"
        BY <1>1, <3>2, <3>4 DEF ConversationInvariant, DeletedHasNoReceipts
      <3>5. QED
        BY <3>1, <3>3, <3>4
    <2>3. QED
      BY <2>1, <2>2 DEF DeletedStaysDeleted
  <1>2. TypeOK /\ IInv /\ ConversationInvariant => DeletedStaysDeleted
    BY <1>1
  <1>3. QED
    BY <1>2, ConversationInvariantHolds, TypeCorrect, InvariantHolds, PTL

(* Recorded usage is never overwritten, and a receipt only moves forward.     *)
THEOREM ReceiptsForward == Spec => ReceiptsMoveForward
  <1>1. ASSUME TypeOK, IInv, [Next]_vars PROVE ReceiptMoves
    BY <1>1, StepEffects DEF Effects
  <1>2. TypeOK /\ IInv /\ [Next]_vars => [ReceiptMoves]_vars
    BY <1>1
  <1>3. QED
    BY <1>2, TypeCorrect, InvariantHolds, PTL DEF Spec, ReceiptsMoveForward, ReceiptMoves

=============================================================================
