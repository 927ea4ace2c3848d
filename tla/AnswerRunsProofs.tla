--------------------------- MODULE AnswerRunsProofs ---------------------------
(***************************************************************************)
(* Proofs about AnswerRuns for every number of conversations, workers, runs   *)
(* and messages: its types, and the safety properties from the inductive      *)
(* invariant of AnswerRunsInvariant. Most steps of a worker change its locals  *)
(* only, so they share one lemma; the transitions to failed and cancelled     *)
(* share another; the other actions are taken one by one.                    *)
(***************************************************************************)
EXTENDS AnswerRunsInvariant, SequenceTheorems, TLAPS

USE DEF Kinds, Active, Terminal, Rows, Status, NoToken, NoRun

(* The model bounds are natural numbers.                                    *)
LEMMA Bounds ==
  /\ MaxRuns \in Nat /\ MaxSource \in Nat /\ MaxMessages \in Nat /\ MaxRevision \in Nat
  /\ MaxSource > 0 /\ "keyword" \in Modes
  /\ Runs \subseteq Nat /\ 0 \notin Runs
  BY BoundsAssumption, ModesAssumption DEF BoundsAssumption, ModesAssumption, Runs

(* Initially no row exists and every worker is idle.                        *)
LEMMA InitType == Init => TypeOK
  <1> SUFFICES ASSUME Init PROVE TypeOK
    OBVIOUS
  <1> DEFINE c0 == CHOOSE c \in Conversations : TRUE
  <1>1. c0 \in Conversations
    BY ConversationsAssumption DEF ConversationsAssumption
  <1>2. request \in [Runs -> Request]
    BY <1>1, Bounds DEF Init, Request
  <1>3. task \in [Workers -> Task]
    BY DEF Init, Task
  <1>4. ask \in [Askers -> [phase : {"new", "answering", "done"}, conversation : Conversations]]
    BY <1>1 DEF Init
  <1>5. submitted \in 0..MaxRuns /\ source \in 0..MaxSource /\ evidence \in [Runs -> 0..MaxSource]
    BY Bounds DEF Init
  <1>6. messageCount \in [Conversations -> 0..MaxMessages] /\ revision \in [Runs -> 0..MaxRevision]
    BY Bounds DEF Init
  <1>7. events \in [Runs -> Seq(Rows)]
    BY DEF Init
  <1>8. receipt \in [Runs -> [Kinds -> Usage \cup {"absent", "open"}]] /\ calls \in [Runs -> [Kinds -> Nat]]
    BY DEF Init
  <1>9. QED
    BY <1>2, <1>3, <1>4, <1>5, <1>6, <1>7, <1>8 DEF Init, TypeOK

(* A transition of rows to a stored state keeps the types it touches.        *)
LEMMA TransitionType ==
  ASSUME TypeOK, NEW S \in SUBSET Runs, NEW s \in Rows, Transition(S, s)
  PROVE  /\ status' \in [Runs -> Status]
         /\ events' \in [Runs -> Seq(Rows)]
         /\ preview' \subseteq Runs
  BY DEF TypeOK, Transition, AppendState

(* Ending rows keeps the types.                                             *)
LEMMA StopType ==
  ASSUME TypeOK, NEW S \in SUBSET Runs, NEW s \in Terminal, Stop(S, s)
  PROVE  /\ status' \in [Runs -> Status]
         /\ events' \in [Runs -> Seq(Rows)]
         /\ preview' \subseteq Runs
         /\ token' \in [Runs -> Nat]
         /\ lease' \in [Runs -> {"none", "live", "expired"}]
  <1>1. Transition(S, s)
    BY DEF Stop
  <1>2. QED
    BY <1>1, TransitionType DEF Stop, TypeOK

-----------------------------------------------------------------------------
(* Type correctness.                                                       *)

(* A task that is not idle works on a run and keeps its locals in range.     *)
LEMMA TaskFields ==
  ASSUME TypeOK, NEW w \in Workers, task[w].pc # "idle"
  PROVE  task[w] \in [pc : Steps, run : Runs, token : Nat, kind : Kinds,
                      result : Usage \cup {"absent"}, source : 0..MaxSource]
  BY DEF TypeOK, Task, IdleTask

(* A pair appended where there is room keeps the counter below its limit.    *)
LEMMA PairType ==
  ASSUME TypeOK, NEW c \in Conversations, NEW turn \in Turns, Room(c), AppendPair(c, turn)
  PROVE  /\ messageCount' \in [Conversations -> 0..MaxMessages]
         /\ pairs' \subseteq Pair
  <1>1. messageCount[c] \in Nat /\ messageCount[c] + 2 \in 0..MaxMessages
    BY Bounds DEF TypeOK, Room
  <1>2. [conversation |-> c, turn |-> turn,
         user |-> messageCount[c] + 1, assistant |-> messageCount[c] + 2] \in Pair
    BY <1>1 DEF Pair
  <1>3. QED
    BY <1>1, <1>2 DEF TypeOK, AppendPair

(* The API keeps the types.                                                 *)
LEMMA ApiType == ASSUME TypeOK, Api PROVE TypeOK'
  <1> USE DEF convVars, stateVars, leaseVars, dispatchVars
  <1>1. ASSUME NEW c \in Conversations, Create(c) PROVE TypeOK'
    BY <1>1 DEF TypeOK, Create
  <1>2. ASSUME NEW c \in Conversations, Remove(c) PROVE TypeOK'
    <2>1. messageCount' \in [Conversations -> 0..MaxMessages] /\ pairs' \subseteq Pair
      BY <1>2, Bounds DEF TypeOK, Remove
    <2>2. evidence' \in [Runs -> 0..MaxSource] /\ token' \in [Runs -> Nat]
      BY <1>2, Bounds DEF TypeOK, Remove
    <2>3. events' \in [Runs -> Seq(Rows)]
      BY <1>2 DEF TypeOK, Remove
    <2>4. receipt' \in [Runs -> [Kinds -> Usage \cup {"absent", "open"}]]
      BY <1>2 DEF TypeOK, Remove
    <2>5. QED
      BY <1>2, <2>1, <2>2, <2>3, <2>4 DEF TypeOK, Remove
  <1>3. ASSUME NEW c \in Conversations, NEW m \in Modes, Submit(c, m) PROVE TypeOK'
    <2>1. submitted + 1 \in Runs /\ submitted' \in 0..MaxRuns
      BY <1>3, Bounds DEF Submit, TypeOK, Runs
    <2>2. Transition({submitted + 1}, "queued")
      BY <1>3 DEF Submit
    <2>3. request' \in [Runs -> Request]
      BY <1>3, <2>1 DEF Submit, TypeOK, Request
    <2>4. QED
      BY <1>3, <2>1, <2>2, <2>3, TransitionType DEF TypeOK, Submit
  <1>4. ASSUME NEW r \in Runs, Cancel(r) PROVE TypeOK'
    <2>1. Stop({r}, "cancelled")
      BY <1>4 DEF Cancel
    <2>2. QED
      BY <1>4, <2>1, StopType DEF TypeOK, Cancel
  <1>5. ASSUME NEW a \in Askers, NEW c \in Conversations, AskStart(a, c) PROVE TypeOK'
    BY <1>5 DEF TypeOK, AskStart
  <1>6. ASSUME NEW a \in Askers, AskEnd(a) PROVE TypeOK'
    <2>1. messageCount' \in [Conversations -> 0..MaxMessages] /\ pairs' \subseteq Pair
      BY <1>6, PairType DEF TypeOK, AskEnd, Turns
    <2>2. ask' \in [Askers -> [phase : {"new", "answering", "done"}, conversation : Conversations]]
      <3>1. ask' = [ask EXCEPT ![a].phase = "done"]
        BY <1>6 DEF AskEnd
      <3>2. ask \in [Askers -> [phase : {"new", "answering", "done"}, conversation : Conversations]]
        BY DEF TypeOK
      <3>3. QED
        BY <3>1, <3>2
    <2>3. UNCHANGED <<conversation, evidence, submitted, request, status, token, lease, revision,
                      usageState, bill, preview, dispatched, aged, events, receipt, source, broker,
                      batch, sent, lastToken, task, calls>>
      BY <1>6 DEF AskEnd
    <2>4. QED
      BY <2>1, <2>2, <2>3 DEF TypeOK
  <1>7. CASE Reindex
    <2>1. source' \in 0..MaxSource
      BY <1>7, Bounds DEF TypeOK, Reindex
    <2>2. QED
      BY <1>7, <2>1 DEF TypeOK, Reindex
  <1>8. QED
    BY <1>1, <1>2, <1>3, <1>4, <1>5, <1>6, <1>7 DEF Api

(* So do time, the dispatcher and the faults.                               *)
LEMMA SystemType == ASSUME TypeOK, Time \/ Dispatcher \/ Faults PROVE TypeOK'
  <1> USE DEF convVars, stateVars, leaseVars, dispatchVars
  <1>1. ASSUME NEW r \in Runs, LeaseExpires(r) PROVE TypeOK'
    BY <1>1 DEF TypeOK, LeaseExpires
  <1>2. ASSUME NEW r \in Runs, QueueAges(r) PROVE TypeOK'
    BY <1>2 DEF TypeOK, QueueAges
  <1>3. ASSUME NEW r \in Runs, RedispatchDue(r) PROVE TypeOK'
    BY <1>3 DEF TypeOK, RedispatchDue
  <1>4. CASE Sweep
    <2>1. Stop(Lost \cup Stale, "failed") /\ Lost \cup Stale \in SUBSET Runs
      BY <1>4 DEF Sweep, Lost, Stale
    <2>2. batch' \subseteq Runs
      BY <1>4 DEF Sweep, Oldest, Eligible
    <2>3. QED
      BY <1>4, <2>1, <2>2, StopType DEF TypeOK, Sweep
  <1>5. CASE PublishMessage
    BY <1>5, ZenonT(30) DEF TypeOK, PublishMessage
  <1>6. CASE MarkDispatched
    BY <1>6 DEF TypeOK, MarkDispatched
  <1>7. CASE DispatcherCrash
    BY <1>7 DEF TypeOK, DispatcherCrash
  <1>8. ASSUME NEW r \in Runs, LoseMessage(r) PROVE TypeOK'
    BY <1>8 DEF TypeOK, LoseMessage
  <1>9. ASSUME NEW w \in Workers, Crash(w) PROVE TypeOK'
    <2>1. task' \in [Workers -> Task]
      BY <1>9 DEF TypeOK, Crash, Task
    <2>3. task[w].run \in Runs
      BY <1>9, TaskFields DEF Crash
    <2>2. QED
      BY <1>9, <2>1, <2>3 DEF TypeOK, Crash
  <1>10. QED
    BY <1>1, <1>2, <1>3, <1>4, <1>5, <1>6, <1>7, <1>8, <1>9 DEF Time, Dispatcher, Faults

(* Any well-typed value may replace the locals of a task.                   *)
LEMMA TaskUpdate ==
  ASSUME TypeOK, NEW w \in Workers, NEW t \in Task, task' = [task EXCEPT ![w] = t]
  PROVE  task' \in [Workers -> Task]
  BY DEF TypeOK

(* A task may move to another step, take a provider's usage, or return.      *)
LEMMA GotoType ==
  ASSUME TypeOK, NEW w \in Workers, task[w].pc # "idle", NEW pc \in Steps, Goto(w, pc)
  PROVE  task' \in [Workers -> Task]
  <1>1. [task[w] EXCEPT !.pc = pc] \in Task
    BY TaskFields DEF Task
  <1>2. QED
    BY <1>1 DEF TypeOK, Goto

(* So does a task's return.                                                 *)
LEMMA ReturnType ==
  ASSUME TypeOK, NEW w \in Workers, Return(w)
  PROVE  task' \in [Workers -> Task] /\ broker' \subseteq Runs
  BY DEF TypeOK, Return, Task

(* The steps of a worker keep the types.                                    *)
LEMMA WorkerType == ASSUME TypeOK, NEW w \in Workers, Worker(w) PROVE TypeOK'
  <1> USE DEF convVars, stateVars, leaseVars, dispatchVars
  <1> DEFINE r == task[w].run
  <1> DEFINE k == task[w].kind
  <1>0. task[w].pc # "idle" => r \in Runs /\ k \in Kinds /\ task[w].result \in Usage \cup {"absent"}
                               /\ task[w].source \in 0..MaxSource
    BY TaskFields
  <1>1. ASSUME NEW q \in Runs, Deliver(w, q) PROVE TypeOK'
    <2>1. [IdleTask EXCEPT !.pc = "claim", !.run = q] \in Task
      <3>1. 0 \in 0..MaxSource /\ "claim" \in Steps /\ "generation" \in Kinds
        BY Bounds DEF Steps
      <3>2. QED
        BY <3>1 DEF IdleTask, Task
    <2>2. QED
      BY <1>1, <2>1 DEF TypeOK, Deliver
  <1>2. CASE Claim(w)
    <2>0. r \in Runs /\ task[w].pc # "idle"
      BY <1>0, <1>2 DEF Claim
    <2>1. CASE Claimable(r)
      <3>1. Transition({r}, "running") /\ lastToken + 1 \in Nat
        BY <1>2, <2>1 DEF Claim, TypeOK, Return
      <3>2. [task[w] EXCEPT !.pc = "load", !.token = lastToken + 1] \in Task
        BY <2>0, <3>1, TaskFields DEF Task, Steps
      <3>3. task' \in [Workers -> Task]
        BY <1>2, <2>1, <3>2, TaskUpdate DEF Claim
      <3>4. QED
        <4>1. /\ status' \in [Runs -> Status] /\ events' \in [Runs -> Seq(Rows)]
              /\ preview' \subseteq Runs
          BY <2>0, <3>1, TransitionType
        <4>2. /\ token' \in [Runs -> Nat] /\ lease' \in [Runs -> {"none", "live", "expired"}]
              /\ usageState' \in [Runs -> {"not_started", "unknown", "recorded"}]
              /\ lastToken' \in Nat
          <5>1. /\ token' = [token EXCEPT ![r] = lastToken + 1]
                /\ lease' = [lease EXCEPT ![r] = "live"]
                /\ usageState' = [usageState EXCEPT ![r] = "unknown"]
                /\ lastToken' = lastToken + 1
            BY <1>2, <2>1 DEF Claim
          <5>2. QED
            BY <3>1, <5>1 DEF TypeOK
        <4>3. QED
          BY <1>2, <2>1, <3>3, <4>1, <4>2 DEF TypeOK, Claim
    <2>2. CASE ~Claimable(r)
      BY <1>2, <2>2, ReturnType DEF TypeOK, Claim
    <2>3. QED
      BY <2>1, <2>2
  <1>3. CASE Load(w)
    <2>1. task' \in [Workers -> Task] /\ broker' \subseteq Runs
      BY <1>3, GotoType, ReturnType DEF Load, Steps, TypeOK
    <2>2. QED
      BY <1>3, <2>1 DEF TypeOK, Load
  <1>4. CASE Search(w)
    <2>1. ASSUME NEW pc \in Steps
          PROVE  [task[w] EXCEPT !.source = source, !.kind = "query_embedding", !.pc = pc] \in Task
      <3>1. source \in 0..MaxSource /\ task[w].pc # "idle"
        BY <1>4 DEF TypeOK, Search
      <3>2. QED
        BY <3>1, TaskFields DEF Task
    <2>2. task' \in [Workers -> Task]
      BY <1>4, <2>1, TaskUpdate DEF Search, Steps
    <2>3. QED
      BY <1>4, <2>2 DEF TypeOK, Search
  <1>5. CASE Begin(w)
    <2>1. task' \in [Workers -> Task]
      BY <1>5, GotoType DEF Begin, Steps
    <2>2. receipt' \in [Runs -> [Kinds -> Usage \cup {"absent", "open"}]]
      <3>1. [receipt[r] EXCEPT ![k] = "open"] \in [Kinds -> Usage \cup {"absent", "open"}]
        BY <1>0, <1>5 DEF Begin, TypeOK
      <3>2. QED
        <4>1. receipt' = [receipt EXCEPT ![r] = [receipt[r] EXCEPT ![k] = "open"]] \/ receipt' = receipt
          BY <1>5 DEF Begin
        <4>2. receipt \in [Runs -> [Kinds -> Usage \cup {"absent", "open"}]]
          BY DEF TypeOK
        <4>3. QED
          BY <3>1, <4>1, <4>2
    <2>3. QED
      BY <1>5, <2>1, <2>2 DEF TypeOK, Begin
  <1>6. CASE Send(w)
    <2>1. task' \in [Workers -> Task]
      BY <1>6, GotoType DEF Send, Steps
    <2>2. calls' \in [Runs -> [Kinds -> Nat]]
      <3>1. [calls[r] EXCEPT ![k] = @ + 1] \in [Kinds -> Nat]
        <4>1. calls[r] \in [Kinds -> Nat]
          BY <1>0, <1>6 DEF Send, TypeOK
        <4>2. QED
          BY <1>0, <1>6, <4>1 DEF Send
      <3>2. QED
        BY <1>0, <1>6, <3>1 DEF Send, TypeOK
    <2>3. QED
      BY <1>6, <2>1, <2>2 DEF TypeOK, Send
  <1>7. CASE Delta(w)
    <2>1. task' \in [Workers -> Task]
      BY <1>7, GotoType DEF Delta, Steps, TypeOK
    <2>2. revision' \in [Runs -> 0..MaxRevision]
      <3>1. r \in Runs /\ revision[r] \in 0..MaxRevision
        BY <1>0, <1>7 DEF Delta, TypeOK
      <3>2. revision[r] < MaxRevision => revision[r] + 1 \in 0..MaxRevision
        BY <3>1, Bounds
      <3>3. CASE PreviewOpen(w)
        BY <1>7, <3>1, <3>2, <3>3, ZenonT(30) DEF Delta, TypeOK, PreviewOpen
      <3>4. CASE ~PreviewOpen(w)
        BY <1>7, <3>4 DEF Delta, TypeOK
      <3>5. QED
        BY <3>3, <3>4
    <2>3. QED
      BY <1>0, <1>7, <2>1, <2>2 DEF TypeOK, Delta
  <1>8. CASE Respond(w)
    <2>1. ASSUME NEW u \in Usage, NEW pc \in Steps
          PROVE  [task[w] EXCEPT !.result = u, !.pc = pc] \in Task
      BY <1>8, TaskFields, ZenonT(30) DEF Task, Respond
    <2>2. task' \in [Workers -> Task]
      BY <1>8, <2>1, TaskUpdate DEF Respond, Steps
    <2>3. QED
      BY <1>8, <2>2 DEF TypeOK, Respond
  <1>9. CASE Record(w)
    <2>1. task' \in [Workers -> Task]
      BY <1>9, GotoType DEF Record, Steps
    <2>2. receipt' \in [Runs -> [Kinds -> Usage \cup {"absent", "open"}]]
      BY <1>0, <1>9, SMTT(30) DEF Record, Recorded, TypeOK
    <2>3. QED
      BY <1>9, <2>1, <2>2 DEF TypeOK, Record
  <1>10. CASE Context(w)
    <2>1. ASSUME NEW pc \in Steps
          PROVE  [task[w] EXCEPT !.pc = pc, !.kind = "generation", !.result = "absent"] \in Task
      BY <1>10, TaskFields, ZenonT(30) DEF Task, Context
    <2>2. task' \in [Workers -> Task]
      BY <1>10, <2>1, TaskUpdate, GotoType DEF Context, Steps
    <2>3. QED
      BY <1>10, <2>2 DEF TypeOK, Context
  <1>11. CASE Publish(w)
    <2>0. task[w].pc # "idle" /\ r \in Turns /\ request[r].conversation \in Conversations
      BY <1>0, <1>11 DEF Publish, Turns, TypeOK, Request
    <2>1. CASE Fenced(w) /\ Room(request[r].conversation)
      <3>1. Stop({r}, "completed") /\ AppendPair(request[r].conversation, r) /\ Return(w)
        BY <1>11, <2>1 DEF Publish, Complete
      <3>2. /\ usageState' \in [Runs -> {"not_started", "unknown", "recorded"}]
            /\ bill' \in [Runs -> Usage \cup {"absent"}]
            /\ evidence' \in [Runs -> 0..MaxSource]
        BY <1>0, <1>11, <2>0, <2>1, ZenonT(30) DEF Publish, Complete, TypeOK
      <3>3. messageCount' \in [Conversations -> 0..MaxMessages] /\ pairs' \subseteq Pair
        BY <2>0, <2>1, <3>1, PairType
      <3>4. task' \in [Workers -> Task] /\ broker' \subseteq Runs
        BY <3>1, ReturnType
      <3>5. /\ status' \in [Runs -> Status] /\ events' \in [Runs -> Seq(Rows)]
            /\ preview' \subseteq Runs /\ token' \in [Runs -> Nat]
            /\ lease' \in [Runs -> {"none", "live", "expired"}]
        BY <1>0, <2>0, <3>1, StopType
      <3>6. QED
        BY <1>11, <3>2, <3>3, <3>4, <3>5 DEF TypeOK, Publish
    <2>2. CASE ~Fenced(w)
      BY <1>11, <2>2, ReturnType, SMTT(30) DEF TypeOK, Publish
    <2>3. CASE Fenced(w) /\ ~Room(request[r].conversation)
      BY <1>11, <2>0, <2>3, GotoType, ZenonT(30) DEF TypeOK, Publish, Steps
    <2>4. QED
      BY <2>1, <2>2, <2>3
  <1>12. CASE Raise(w)
    <2>1. task' \in [Workers -> Task]
      BY <1>12, GotoType DEF Raise, Steps
    <2>2. QED
      BY <1>12, <2>1 DEF TypeOK, Raise
  <1>13. CASE Fail(w)
    <2>1. task' \in [Workers -> Task] /\ broker' \subseteq Runs
      BY <1>13, ReturnType DEF Fail
    <2>2. CASE Holds(w)
      <3>1. Stop({r}, "failed") /\ r \in Runs
        BY <1>0, <1>13, <2>2 DEF Fail
      <3>2. QED
        BY <1>13, <2>1, <3>1, StopType DEF TypeOK, Fail
    <2>3. CASE ~Holds(w)
      BY <1>13, <2>1, <2>3 DEF TypeOK, Fail
    <2>4. QED
      BY <2>2, <2>3
  <1>14. QED
    BY <1>1, <1>2, <1>3, <1>4, <1>5, <1>6, <1>7, <1>8, <1>9, <1>10, <1>11, <1>12, <1>13
    DEF Worker

(* Every column and every local variable always holds a value of its type;    *)
(* the preview revision and the message counter respect their limits.         *)
THEOREM TypeCorrect == Spec => []TypeOK
  <1>1. TypeOK /\ [Next]_vars => TypeOK'
    <2> SUFFICES ASSUME TypeOK, [Next]_vars PROVE TypeOK'
      OBVIOUS
    <2>1. CASE Next
      BY <2>1, ApiType, SystemType, WorkerType DEF Next
    <2>2. CASE UNCHANGED vars
      BY <2>2 DEF TypeOK, vars, convVars, stateVars, leaseVars, dispatchVars
    <2>3. QED
      BY <2>1, <2>2
  <1>2. QED
    BY InitType, <1>1, PTL DEF Spec

-----------------------------------------------------------------------------
(* Safety.                                                                  *)

(* The tables IInv speaks about.                                            *)
tables == <<conversation, pairs, submitted, request, status, events, usageState,
            bill, receipt, calls>>

(* The first state.                                                         *)
LEMMA InitIInv == Init => IInv
  <1> SUFFICES ASSUME Init PROVE IInv
    OBVIOUS
  <1>1. RowsInOrder /\ RunsHaveConversation /\ UsageFollowsStatus
    BY Bounds DEF Init, RowsInOrder, RunsHaveConversation, UsageFollowsStatus, Runs
  <1>2. UntouchedUntilClaimed /\ PaidOnce
    BY DEF Init, UntouchedUntilClaimed, PaidOnce
  <1>3. ExecutesClaimed /\ OneExecution
    BY DEF Init, ExecutesClaimed, OneExecution, Executing, IdleTask
  <1>4. StagesKeepReceipts
    BY DEF Init, StagesKeepReceipts, Sound, IdleTask
  <1>5. EventLogMatchesStatus
    BY DEF Init, EventLogMatchesStatus, LegalLogs
  <1>6. UsageIsHonest /\ CompletedIffPublished
    BY DEF Init, UsageIsHonest, CompletedIffPublished
  <1>7. QED
    BY <1>1, <1>2, <1>3, <1>4, <1>5, <1>6 DEF IInv

(* Nothing IInv speaks about changes.                                       *)
LEMMA QuietStep == ASSUME IInv, UNCHANGED <<tables, task>> PROVE IInv'
  <1> USE DEF tables
  <1>1. RowsInOrder' /\ RunsHaveConversation' /\ UntouchedUntilClaimed' /\ UsageFollowsStatus'
    BY DEF IInv, RowsInOrder, RunsHaveConversation, UntouchedUntilClaimed, UsageFollowsStatus
  <1>2. ExecutesClaimed' /\ OneExecution'
    BY DEF IInv, ExecutesClaimed, OneExecution, Executing
  <1>3. StagesKeepReceipts'
    BY DEF IInv, StagesKeepReceipts, Sound, Stage
  <1>4. EventLogMatchesStatus' /\ PaidOnce'
    BY DEF IInv, EventLogMatchesStatus, LegalLogs, PaidOnce
  <1>5. UsageIsHonest' /\ CompletedIffPublished'
    BY DEF IInv, UsageIsHonest, CompletedIffPublished
  <1>6. QED
    BY <1>1, <1>2, <1>3, <1>4, <1>5 DEF IInv

(* A worker replaces its locals by t: it returns, starts, or goes on with     *)
(* the run it executes, at a step that agrees with the receipts.             *)
LEMMA TaskStep ==
  ASSUME TypeOK, IInv, NEW w \in Workers, NEW t \in Task,
         UNCHANGED tables, task' = [task EXCEPT ![w] = t],
         t.pc \in {"idle", "claim"} \/ (Executing(w) /\ t.run = task[w].run),
         Sound(t)
  PROVE  IInv'
  <1> USE DEF tables
  <1>0. \A v \in Workers : task'[v] = IF v = w THEN t ELSE task[v]
    BY DEF TypeOK
  <1>1. RowsInOrder' /\ RunsHaveConversation' /\ UntouchedUntilClaimed'
    BY DEF IInv, RowsInOrder, RunsHaveConversation, UntouchedUntilClaimed
  <1>2. UsageFollowsStatus' /\ EventLogMatchesStatus' /\ PaidOnce' /\ UsageIsHonest'
    BY ZenonT(30) DEF IInv, UsageFollowsStatus, EventLogMatchesStatus, LegalLogs, PaidOnce, UsageIsHonest
  <1>3. CompletedIffPublished'
    BY DEF IInv, CompletedIffPublished
  <1>4. ExecutesClaimed' /\ OneExecution'
    BY <1>0 DEF IInv, ExecutesClaimed, OneExecution, Executing
  <1>5. StagesKeepReceipts'
    <2>1. \A v \in Workers : Sound(task[v]) /\ (Sound(task[v])' <=> Sound(task'[v]))
      BY DEF IInv, StagesKeepReceipts, Sound, Stage
    <2>2. QED
      BY <1>0, <2>1 DEF StagesKeepReceipts
  <1>6. QED
    BY <1>1, <1>2, <1>3, <1>4, <1>5 DEF IInv

(* Appending to the logs of at most two events.                             *)
LEMMA AppendToOne == ASSUME NEW S, NEW a \in S, NEW b \in S PROVE Append(<<a>>, b) = <<a, b>>
  <1> DEFINE t == Append(<<a>>, b)
  <1>1. <<a>> \in Seq(S) /\ <<a, b>> \in Seq(S)
    OBVIOUS
  <1>2. Len(<<a>>) = 1 /\ Len(<<a, b>>) = 2 /\ <<a>>[1] = a /\ <<a, b>>[1] = a /\ <<a, b>>[2] = b
    OBVIOUS
  <1>3. t \in Seq(S) /\ Len(t) = 2 /\ t[1] = a /\ t[2] = b
    BY <1>1, <1>2, AppendProperties
  <1>4. \A i \in 1..Len(t) : t[i] = <<a, b>>[i]
    BY <1>2, <1>3
  <1> HIDE DEF t
  <1>5. t = <<a, b>>
    BY <1>1, <1>2, <1>3, <1>4, SeqEqual
  <1>6. QED
    BY <1>5 DEF t

(* The event log of a run that executes gets its last entry.                *)
LEMMA AppendToTwo ==
  ASSUME NEW S, NEW a \in S, NEW b \in S, NEW c \in S
  PROVE  Append(<<a, b>>, c) = <<a, b, c>>
  <1> DEFINE t == Append(<<a, b>>, c)
  <1>1. <<a, b>> \in Seq(S) /\ <<a, b, c>> \in Seq(S)
    OBVIOUS
  <1>2. /\ Len(<<a, b>>) = 2 /\ <<a, b>>[1] = a /\ <<a, b>>[2] = b
        /\ Len(<<a, b, c>>) = 3 /\ <<a, b, c>>[1] = a /\ <<a, b, c>>[2] = b /\ <<a, b, c>>[3] = c
    OBVIOUS
  <1>3. t \in Seq(S) /\ Len(t) = 3 /\ t[1] = a /\ t[2] = b /\ t[3] = c
    BY <1>1, <1>2, AppendProperties
  <1>4. \A i \in 1..Len(t) : t[i] = <<a, b, c>>[i]
    BY <1>2, <1>3
  <1> HIDE DEF t
  <1>5. t = <<a, b, c>>
    BY <1>1, <1>2, <1>3, <1>4, SeqEqual
  <1>6. QED
    BY <1>5 DEF t

(* The transitions of a run: from state p to state s.                       *)
Moves(p, s) ==
  \/ p = "none" /\ s = "queued"
  \/ p = "queued" /\ s = "running"
  \/ p = "running" /\ s = "completed"
  \/ p \in Active /\ s \in {"failed", "cancelled"}

(* Each of them extends a legal log to a legal log.                         *)
LEMMA LogMoves ==
  ASSUME NEW p, NEW s, Moves(p, s), NEW log \in LegalLogs(p)
  PROVE  Append(log, s) \in LegalLogs(s)
  <1>0. s \in Rows
    BY DEF Moves
  <1>1. CASE p = "none"
    <2>1. log = << >> /\ s = "queued"
      BY <1>1 DEF LegalLogs, Moves
    <2>2. QED
      BY <2>1 DEF LegalLogs
  <1>2. CASE p = "queued"
    <2>1. log = <<"queued">> /\ s \in {"running", "failed", "cancelled"}
      BY <1>2 DEF LegalLogs, Moves
    <2>2. Append(log, s) = <<"queued", s>>
      BY <1>0, <2>1, AppendToOne
    <2>3. QED
      BY <2>1, <2>2 DEF LegalLogs
  <1>3. CASE p = "running"
    <2>1. log = <<"queued", "running">> /\ s \in Terminal
      BY <1>3 DEF LegalLogs, Moves
    <2>2. "queued" \in Rows /\ "running" \in Rows
      OBVIOUS
    <2>3. Append(<<"queued", "running">>, s) = <<"queued", "running", s>>
      BY <1>0, <2>2, AppendToTwo
    <2>4. QED
      BY <2>1, <2>3 DEF LegalLogs
  <1>4. QED
    BY <1>1, <1>2, <1>3 DEF Moves

(* A transition writes the event that its status calls for.                 *)
LEMMA TransitionLogs ==
  ASSUME TypeOK, EventLogMatchesStatus, NEW S \in SUBSET Runs, NEW s, Transition(S, s),
         \A r \in S : Moves(status[r], s)
  PROVE  EventLogMatchesStatus'
  <1>1. ASSUME NEW r \in S PROVE events'[r] \in LegalLogs(status'[r])
    <2>1. events'[r] = Append(events[r], s) /\ status'[r] = s
      BY DEF Transition, AppendState
    <2>2. QED
      BY <2>1, LogMoves DEF EventLogMatchesStatus
  <1>2. ASSUME NEW r \in Runs, r \notin S PROVE events'[r] = events[r] /\ status'[r] = status[r]
    BY <1>2 DEF Transition, AppendState
  <1>3. QED
    BY <1>1, <1>2 DEF EventLogMatchesStatus, LegalLogs

(* Active runs fail or are cancelled; a worker may return in the same step.  *)
LEMMA StopStep ==
  ASSUME TypeOK, IInv, NEW S \in SUBSET Runs, NEW s \in {"failed", "cancelled"},
         \A r \in S : status[r] \in Active, Transition(S, s),
         UNCHANGED <<conversation, pairs, submitted, request, usageState, bill, receipt, calls>>,
         task' \in [Workers -> Task], \A v \in Workers : task'[v] \in {task[v], IdleTask}
  PROVE  IInv'
  <1>0. \A r \in Runs : status'[r] = IF r \in S THEN s ELSE status[r]
    BY DEF Transition
  <1>1. RowsInOrder' /\ RunsHaveConversation'
    BY <1>0, Bounds DEF IInv, RowsInOrder, RunsHaveConversation
  <1>2. UntouchedUntilClaimed' /\ UsageFollowsStatus' /\ PaidOnce'
    BY <1>0 DEF IInv, UntouchedUntilClaimed, UsageFollowsStatus, PaidOnce
  <1>3. UsageIsHonest'
    BY <1>0 DEF IInv, UsageIsHonest
  <1>4. CompletedIffPublished'
    BY <1>0 DEF IInv, CompletedIffPublished
  <1>5. \A v \in Workers : Executing(v)' => Executing(v) /\ task'[v] = task[v] /\ task[v].run \in Runs
    BY TaskFields DEF Executing, IdleTask
  <1>6. ExecutesClaimed' /\ OneExecution'
    BY <1>0, <1>5 DEF IInv, ExecutesClaimed, OneExecution
  <1>7. StagesKeepReceipts'
    <2>1. \A v \in Workers : task'[v] = IdleTask => Sound(task[v])'
      BY DEF Sound, IdleTask
    <2>2. ASSUME NEW v \in Workers, task'[v] = task[v] PROVE Sound(task[v])'
      <3>1. Sound(task[v])
        BY DEF IInv, StagesKeepReceipts
      <3>2. task[v].pc \notin {"idle", "claim"} /\ status'[task[v].run] \in Rows
              => status[task[v].run] \in Rows
        BY <1>0, TaskFields
      <3>3. QED
        BY <2>2, <3>1, <3>2 DEF Sound, Stage
    <2>3. QED
      BY <2>1, <2>2 DEF StagesKeepReceipts
  <1>8. EventLogMatchesStatus'
    BY TransitionLogs DEF IInv, Moves
  <1>9. QED
    BY <1>1, <1>2, <1>3, <1>4, <1>6, <1>7, <1>8 DEF IInv

-----------------------------------------------------------------------------
(* The actions that are none of these.                                     *)

(* What is stored for the run of a worker stays, or the run is deleted.      *)
LEMMA KeepSound ==
  ASSUME NEW v \in Workers, Sound(task[v]), task'[v] = task[v],
         Executing(v) =>
           /\ calls'[task[v].run] = calls[task[v].run]
           /\ status'[task[v].run] \in Rows =>
                /\ status[task[v].run] \in Rows
                /\ receipt'[task[v].run] = receipt[task[v].run]
  PROVE  Sound(task[v])'
  <1>1. CASE ~Executing(v)
    BY <1>1 DEF Sound, Executing
  <1>2. CASE Executing(v)
    BY <1>2 DEF Sound, Stage, Executing
  <1>3. QED
    BY <1>1, <1>2

(* A conversation is created.                                               *)
LEMMA CreateStep == ASSUME TypeOK, IInv, NEW c \in Conversations, Create(c) PROVE IInv'
  <1> USE DEF convVars, stateVars, Create
  <1>1. RowsInOrder' /\ UntouchedUntilClaimed' /\ UsageFollowsStatus'
    BY DEF IInv, RowsInOrder, UntouchedUntilClaimed, UsageFollowsStatus
  <1>2. RunsHaveConversation'
    BY SMTT(30) DEF IInv, RunsHaveConversation, TypeOK
  <1>3. ExecutesClaimed' /\ OneExecution'
    BY DEF IInv, ExecutesClaimed, OneExecution, Executing
  <1>4. StagesKeepReceipts'
    BY KeepSound DEF IInv, StagesKeepReceipts
  <1>5. EventLogMatchesStatus' /\ PaidOnce'
    BY DEF IInv, EventLogMatchesStatus, LegalLogs, PaidOnce
  <1>6. UsageIsHonest' /\ CompletedIffPublished'
    BY DEF IInv, UsageIsHonest, CompletedIffPublished
  <1>7. QED
    BY <1>1, <1>2, <1>3, <1>4, <1>5, <1>6 DEF IInv

(* A deletion takes every row of the conversation and the pairs it holds.    *)
LEMMA RemoveStep == ASSUME TypeOK, IInv, NEW c \in Conversations, Remove(c) PROVE IInv'
  <1> DEFINE S == RowsOf(c)
  <1>0. \A r \in Runs :
          /\ r \in S <=> status[r] \in Rows /\ request[r].conversation = c
          /\ status'[r] = IF r \in S THEN "deleted" ELSE status[r]
          /\ events'[r] = IF r \in S THEN << >> ELSE events[r]
          /\ r \notin S => receipt'[r] = receipt[r]
    BY DEF Remove, RowsOf, TypeOK
  <1>01. UNCHANGED <<submitted, request, usageState, bill, task, calls>>
    BY DEF Remove
  <1> HIDE DEF S
  <1>1. RowsInOrder' /\ UntouchedUntilClaimed' /\ UsageFollowsStatus'
    BY <1>0, <1>01 DEF IInv, RowsInOrder, UntouchedUntilClaimed, UsageFollowsStatus
  <1>2. RunsHaveConversation'
    BY <1>0, <1>01, SMTT(30) DEF IInv, RunsHaveConversation, TypeOK, Remove
  <1>3. ExecutesClaimed' /\ OneExecution'
    BY <1>0, <1>01, TaskFields DEF IInv, ExecutesClaimed, OneExecution, Executing
  <1>4. StagesKeepReceipts'
    BY <1>0, <1>01, KeepSound, TaskFields DEF IInv, StagesKeepReceipts, Executing
  <1>5. EventLogMatchesStatus' /\ PaidOnce'
    BY <1>0, <1>01 DEF IInv, EventLogMatchesStatus, LegalLogs, PaidOnce
  <1>6. UsageIsHonest'
    BY <1>0, <1>01 DEF IInv, UsageIsHonest
  <1>7. CompletedIffPublished'
    <2>1. pairs' = {p \in pairs : p.conversation # c}
      BY DEF Remove
    <2>2. QED
      BY <1>0, <1>01, <2>1 DEF IInv, CompletedIffPublished
  <1>8. QED
    BY <1>1, <1>2, <1>3, <1>4, <1>5, <1>6, <1>7 DEF IInv

(* A submission inserts the next row; nobody executed it and no pair is its.  *)
LEMMA SubmitStep ==
  ASSUME TypeOK, IInv, NEW c \in Conversations, NEW m \in Modes, Submit(c, m) PROVE IInv'
  <1> DEFINE n == submitted + 1
  <1>0. /\ n \in Runs /\ submitted' = n /\ Transition({n}, "queued") /\ conversation[c] = "live"
        /\ request' = [request EXCEPT ![n] = [conversation |-> c, mode |-> m, source |-> source]]
        /\ UNCHANGED <<conversation, pairs, usageState, bill, receipt, task, calls>>
    BY Bounds DEF Submit, TypeOK, Runs, convVars
  <1>01. status[n] = "none" /\ \A r \in Runs : status'[r] = IF r = n THEN "queued" ELSE status[r]
    BY <1>0, Bounds DEF Transition, IInv, RowsInOrder, TypeOK
  <1>02. /\ request'[n].conversation = c
         /\ \A r \in Runs : r # n => request'[r] = request[r]
    BY <1>0 DEF TypeOK
  <1>1. RowsInOrder'
    <2>1. ASSUME NEW r \in Runs PROVE status'[r] = "none" <=> r > submitted'
      <3>1. r \in Nat /\ submitted \in Nat /\ (status[r] = "none" <=> r > submitted)
        BY Bounds DEF IInv, RowsInOrder, TypeOK
      <3>2. r # n => (r > submitted <=> r > n)
        BY <3>1
      <3>3. QED
        BY <1>0, <1>01, <3>1, <3>2
    <2>2. QED
      BY <2>1 DEF RowsInOrder
  <1> HIDE DEF n
  <1>2. RunsHaveConversation'
    BY <1>0, <1>01, <1>02 DEF IInv, RunsHaveConversation
  <1>3. UntouchedUntilClaimed' /\ UsageFollowsStatus' /\ PaidOnce'
    BY <1>0, <1>01 DEF IInv, UntouchedUntilClaimed, UsageFollowsStatus, PaidOnce
  <1>4. ExecutesClaimed' /\ OneExecution'
    BY <1>0, <1>01, TaskFields DEF IInv, ExecutesClaimed, OneExecution, Executing
  <1>5. StagesKeepReceipts'
    BY <1>0, <1>01, KeepSound, TaskFields DEF IInv, StagesKeepReceipts, ExecutesClaimed, Executing
  <1>6. EventLogMatchesStatus'
    BY <1>0, <1>01, TransitionLogs DEF IInv, Moves
  <1>7. UsageIsHonest'
    BY <1>0, <1>01 DEF IInv, UsageIsHonest, UntouchedUntilClaimed
  <1>8. CompletedIffPublished'
    BY <1>0, <1>01, <1>02 DEF IInv, CompletedIffPublished
  <1>9. QED
    BY <1>1, <1>2, <1>3, <1>4, <1>5, <1>6, <1>7, <1>8 DEF IInv

(* A synchronous answer appends a pair that is not a run's.                  *)
LEMMA AskEndStep == ASSUME TypeOK, IInv, NEW a \in Askers, AskEnd(a) PROVE IInv'
  <1>0. /\ UNCHANGED <<conversation, submitted, request, status, events, usageState, bill,
                       receipt, task, calls>>
        /\ pairs \subseteq pairs' /\ \A p \in pairs' : p \in pairs \/ p.turn = a
    BY DEF AskEnd, AppendPair, stateVars
  <1>1. RowsInOrder' /\ RunsHaveConversation' /\ UntouchedUntilClaimed' /\ UsageFollowsStatus'
    BY <1>0 DEF IInv, RowsInOrder, RunsHaveConversation, UntouchedUntilClaimed, UsageFollowsStatus
  <1>2. ExecutesClaimed' /\ OneExecution'
    BY <1>0 DEF IInv, ExecutesClaimed, OneExecution, Executing
  <1>3. StagesKeepReceipts'
    BY <1>0, KeepSound DEF IInv, StagesKeepReceipts
  <1>4. EventLogMatchesStatus' /\ PaidOnce' /\ UsageIsHonest'
    BY <1>0, ZenonT(30) DEF IInv, EventLogMatchesStatus, LegalLogs, PaidOnce, UsageIsHonest
  <1>5. CompletedIffPublished'
    <2>1. a \notin Runs
      BY Bounds, TurnsAssumption DEF TurnsAssumption
    <2>2. \A p \in pairs' : p.turn \in Runs => p \in pairs
      BY <1>0, <2>1
    <2>3. QED
      BY <1>0, <2>2 DEF IInv, CompletedIffPublished
  <1>6. QED
    BY <1>1, <1>2, <1>3, <1>4, <1>5 DEF IInv

(* A successful claim: the run was queued, so no worker executes it and       *)
(* nothing was paid for it.                                                 *)
LEMMA ClaimStep ==
  ASSUME TypeOK, IInv, NEW w \in Workers, Claim(w), Claimable(task[w].run) PROVE IInv'
  <1> DEFINE r == task[w].run
             t == [task[w] EXCEPT !.pc = "load", !.token = lastToken + 1]
  <1>0. /\ r \in Runs /\ status[r] = "queued" /\ Transition({r}, "running")
        /\ usageState' = [usageState EXCEPT ![r] = "unknown"]
        /\ task' = [task EXCEPT ![w] = t]
        /\ UNCHANGED <<conversation, pairs, submitted, request, bill, receipt, calls>>
    BY TaskFields DEF Claim, Claimable, convVars
  <1>01. \A q \in Runs :
          /\ status'[q] = IF q = r THEN "running" ELSE status[q]
          /\ usageState'[q] = IF q = r THEN "unknown" ELSE usageState[q]
    BY <1>0 DEF Transition, TypeOK
  <1>02. t.pc = "load" /\ t.run = r
    BY TaskFields DEF Claim
  <1>03. \A v \in Workers : task'[v] = IF v = w THEN t ELSE task[v]
    BY <1>0 DEF TypeOK
  <1>04. \A v \in Workers : Executing(v) => task[v].run \in Runs \ {r}
    BY <1>0, TaskFields DEF IInv, ExecutesClaimed, Executing
  <1> HIDE DEF r, t
  <1>1. RowsInOrder' /\ RunsHaveConversation' /\ UntouchedUntilClaimed' /\ UsageFollowsStatus'
    BY <1>0, <1>01 DEF IInv, RowsInOrder, RunsHaveConversation, UntouchedUntilClaimed, UsageFollowsStatus
  <1>2. ExecutesClaimed'
    BY <1>0, <1>01, <1>02, <1>03, <1>04 DEF IInv, ExecutesClaimed, Executing
  <1>3. OneExecution'
    BY <1>02, <1>03, <1>04 DEF IInv, OneExecution, Executing
  <1>4. StagesKeepReceipts'
    <2>1. Sound(task[w])'
      <3>1. \A k \in Kinds : receipt'[r][k] = "absent"
        BY <1>0 DEF IInv, UntouchedUntilClaimed
      <3>2. QED
        BY <1>02, <1>03, <3>1 DEF Sound, Stage
    <2>2. ASSUME NEW v \in Workers, v # w PROVE Sound(task[v])'
      BY <1>0, <1>01, <1>03, <1>04, <2>2, KeepSound DEF IInv, StagesKeepReceipts
    <2>3. QED
      BY <2>1, <2>2 DEF StagesKeepReceipts
  <1>5. EventLogMatchesStatus'
    BY <1>0, TransitionLogs DEF IInv, Moves
  <1>6. PaidOnce' /\ UsageIsHonest'
    BY <1>0, <1>01 DEF IInv, PaidOnce, UsageIsHonest
  <1>7. CompletedIffPublished'
    BY <1>0, <1>01 DEF IInv, CompletedIffPublished
  <1>8. QED
    BY <1>1, <1>2, <1>3, <1>4, <1>5, <1>6, <1>7 DEF IInv

(* An update of one entry of a table.                                       *)
LEMMA TableUpdate ==
  ASSUME NEW A, NEW B, NEW T, NEW f \in [A -> [B -> T]], NEW a \in A, NEW b \in B, NEW u
  PROVE  /\ [f EXCEPT ![a][b] = u][a] = [f[a] EXCEPT ![b] = u]
         /\ \A q \in A : q # a => [f EXCEPT ![a][b] = u][q] = f[q]
         /\ \A q \in A, j \in B :
              [f EXCEPT ![a][b] = u][q][j] = IF q = a /\ j = b THEN u ELSE f[q][j]
  OBVIOUS

(* A worker changes what is stored for its run r and kind k: the receipt or    *)
(* the count of calls. No other worker executes r.                          *)
LEMMA PaymentStep ==
  ASSUME TypeOK, IInv, NEW w \in Workers, Executing(w), Sound(task[w])',
         NEW k \in Kinds, NEW u, NEW n \in 0..1,
         UNCHANGED <<conversation, pairs, submitted, request, status, events, usageState, bill>>,
         receipt' = [receipt EXCEPT ![task[w].run][k] = u],
         calls' = [calls EXCEPT ![task[w].run][k] = n],
         Executing(w)' => task'[w].run = task[w].run,
         \A v \in Workers : v # w => task'[v] = task[v],
         status[task[w].run] \in Rows =>
           /\ n > 0 => u # "absent"
           /\ usageState[task[w].run] = "not_started" => u = "absent"
  PROVE  IInv'
  <1> DEFINE r == task[w].run
  <1>0. r \in Runs /\ status[r] \notin {"none", "queued", "completed"}
    BY TaskFields DEF Executing, IInv, ExecutesClaimed
  <1>01. \A q \in Runs, j \in Kinds :
           /\ receipt'[q][j] = IF q = r /\ j = k THEN u ELSE receipt[q][j]
           /\ calls'[q][j] = IF q = r /\ j = k THEN n ELSE calls[q][j]
    <2>1. receipt \in [Runs -> [Kinds -> Usage \cup {"absent", "open"}]] /\ calls \in [Runs -> [Kinds -> Nat]]
      BY DEF TypeOK
    <2>2. QED
      BY <1>0, <2>1, TableUpdate
  <1>02. \A q \in Runs : q # r => receipt'[q] = receipt[q] /\ calls'[q] = calls[q]
    <2>1. receipt \in [Runs -> [Kinds -> Usage \cup {"absent", "open"}]] /\ calls \in [Runs -> [Kinds -> Nat]]
      BY DEF TypeOK
    <2>2. QED
      BY <1>0, <2>1, TableUpdate
  <1>03. \A v \in Workers : Executing(v) /\ v # w => task[v].run \in Runs \ {r}
    BY TaskFields DEF IInv, OneExecution, Executing
  <1>1. RowsInOrder' /\ RunsHaveConversation' /\ UsageFollowsStatus' /\ EventLogMatchesStatus'
    BY DEF IInv, RowsInOrder, RunsHaveConversation, UsageFollowsStatus, EventLogMatchesStatus, LegalLogs
  <1>2. CompletedIffPublished'
    BY DEF IInv, CompletedIffPublished
  <1>3. ExecutesClaimed' /\ OneExecution'
    BY DEF IInv, ExecutesClaimed, OneExecution, Executing
  <1> HIDE DEF r
  <1>4. UntouchedUntilClaimed'
    BY <1>0, <1>01 DEF IInv, UntouchedUntilClaimed
  <1>5. PaidOnce'
    BY <1>01 DEF IInv, PaidOnce
  <1>6. StagesKeepReceipts'
    BY <1>02, <1>03, KeepSound DEF IInv, StagesKeepReceipts
  <1>7. UsageIsHonest'
    <2>1. ASSUME NEW q \in Runs, status[q] \in Rows, NEW j \in Kinds
          PROVE  /\ calls'[q][j] > 0 => receipt'[q][j] # "absent"
                 /\ usageState[q] = "not_started" => receipt'[q][j] = "absent"
                 /\ status[q] = "completed" =>
                      receipt'[q][j] = receipt[q][j]
      BY <1>0, <1>01, <2>1 DEF r, IInv, UsageIsHonest
    <2>2. QED
      BY <2>1, SMTT(30) DEF IInv, UsageIsHonest
  <1>8. QED
    BY <1>1, <1>2, <1>3, <1>4, <1>5, <1>6, <1>7 DEF IInv

(* The types of what a payment step reads and writes.                       *)
LEMMA Payer ==
  ASSUME TypeOK, NEW w \in Workers, Executing(w)
  PROVE  /\ task[w].run \in Runs /\ task[w].kind \in Kinds
         /\ task[w].result \in Usage \cup {"absent"}
         /\ calls[task[w].run][task[w].kind] \in Nat
  <1>1. task[w].run \in Runs /\ task[w].kind \in Kinds /\ task[w].result \in Usage \cup {"absent"}
    BY TaskFields DEF Executing
  <1>2. QED
    BY <1>1 DEF TypeOK

(* What the invariant says of the rows and tasks alone.                     *)
LEMMA Tables ==
  ASSUME TypeOK
  PROVE  /\ receipt \in [Runs -> [Kinds -> Usage \cup {"absent", "open"}]]
         /\ calls \in [Runs -> [Kinds -> Nat]]
  BY DEF TypeOK

(* Writing back what an entry holds changes nothing.                        *)
LEMMA WriteBack ==
  ASSUME NEW A, NEW B, NEW T, NEW f \in [A -> [B -> T]], NEW a \in A, NEW b \in B
  PROVE  f = [f EXCEPT ![a][b] = f[a][b]]
  OBVIOUS

(* A worker that goes to another step keeps its other locals.               *)
LEMMA GotoStep ==
  ASSUME TypeOK, NEW w \in Workers, Executing(w), NEW pc, Goto(w, pc)
  PROVE  /\ task'[w].pc = pc /\ task'[w].run = task[w].run /\ task'[w].kind = task[w].kind
         /\ task'[w].result = task[w].result
         /\ \A v \in Workers : v # w => task'[v] = task[v]
  BY TaskFields DEF TypeOK, Goto, Executing

(* A receipt is opened for a run that has none of its kind, so none was paid. *)
LEMMA BeginStep ==
  ASSUME TypeOK, IInv, NEW w \in Workers, Begin(w),
         Fenced(w), receipt[task[w].run][task[w].kind] = "absent"
  PROVE  IInv'
  <1> DEFINE r == task[w].run
             k == task[w].kind
  <1>1. /\ Executing(w) /\ receipt' = [receipt EXCEPT ![r][k] = "open"]
        /\ task[w].pc = "begin" /\ Goto(w, "send")
        /\ UNCHANGED <<conversation, pairs, submitted, request, status, events, usageState, bill, calls>>
    BY DEF Begin, Executing, convVars, stateVars
  <1>2. r \in Runs /\ k \in Kinds /\ calls[r][k] \in Nat
    BY <1>1, Payer
  <1>3. status[r] = "running" /\ usageState[r] = "unknown"
    BY <1>2 DEF Fenced, Holds, IInv, UsageFollowsStatus
  <1>4. calls[r][k] = 0
    BY <1>2, <1>3 DEF IInv, UsageIsHonest
  <1>5. calls' = [calls EXCEPT ![r][k] = 0]
    BY <1>1, <1>2, <1>4, Tables, WriteBack
  <1>6. \A j \in Kinds : receipt'[r][j] = IF j = k THEN "open" ELSE receipt[r][j]
    BY <1>1, <1>2, Tables, TableUpdate
  <1>7. /\ task'[w].pc = "send" /\ task'[w].run = r /\ task'[w].kind = k
        /\ \A v \in Workers : v # w => task'[v] = task[v]
    BY <1>1, GotoStep
  <1>8. Sound(task[w])'
    <2>1. Stage(task[w])
      BY <1>1, <1>3 DEF IInv, StagesKeepReceipts, Sound
    <2>2. Stage(task[w])'
      BY <1>1, <1>2, <1>6, <1>7, <2>1 DEF Stage
    <2>3. QED
      BY <1>1, <1>4, <1>7, <2>2 DEF Sound
  <1>9. 0 \in 0..1 /\ ~(0 > 0)
    OBVIOUS
  <1>10. QED
    BY <1>1, <1>2, <1>3, <1>5, <1>7, <1>8, <1>9, PaymentStep

(* The request is sent once: it was not when the receipt was opened.         *)
LEMMA SendStep == ASSUME TypeOK, IInv, NEW w \in Workers, Send(w) PROVE IInv'
  <1> DEFINE r == task[w].run
             k == task[w].kind
             u == receipt[r][k]
  <1>1. /\ Executing(w) /\ calls' = [calls EXCEPT ![r][k] = calls[r][k] + 1]
        /\ task[w].pc = "send" /\ Goto(w, "await")
        /\ UNCHANGED <<conversation, pairs, submitted, request, status, events, usageState, bill, receipt>>
    BY DEF Send, Executing, convVars, stateVars
  <1>2. Sound(task[w])
    BY DEF IInv, StagesKeepReceipts
  <1>3. r \in Runs /\ k \in Kinds
    BY <1>1, Payer
  <1>4. calls' = [calls EXCEPT ![r][k] = 1]
    <2>1. calls[r][k] = 0
      BY <1>1, <1>2 DEF Sound
    <2>2. QED
      BY <1>1, <2>1
  <1>5. receipt' = [receipt EXCEPT ![r][k] = u]
    BY <1>1, <1>3, Tables, WriteBack
  <1>6. /\ task'[w].pc = "await" /\ task'[w].run = r /\ task'[w].kind = k
        /\ \A v \in Workers : v # w => task'[v] = task[v]
    BY <1>1, GotoStep
  <1>7. Sound(task[w])'
    BY <1>1, <1>2, <1>6 DEF Sound, Stage
  <1>8. status[r] \in Rows => u # "absent" /\ usageState[r] # "not_started"
    <2>1. status[r] \in Rows => receipt[r][k] = "open"
      BY <1>1, <1>2 DEF Sound, Stage
    <2>2. QED
      BY <1>3, <2>1 DEF IInv, UsageIsHonest
  <1>9. 1 \in 0..1
    OBVIOUS
  <1> HIDE DEF u
  <1>10. status[r] \in Rows =>
           /\ 1 > 0 => u # "absent"
           /\ usageState[r] = "not_started" => u = "absent"
    BY <1>8
  <1>11. /\ Executing(w)
         /\ UNCHANGED <<conversation, pairs, submitted, request, status, events, usageState, bill>>
    BY <1>1
  <1>12. QED
    BY <1>3, <1>4, <1>5, <1>6, <1>7, <1>9, <1>10, <1>11, PaymentStep

(* The usage of a call is stored in the receipt its run still has.           *)
LEMMA RecordStep == ASSUME TypeOK, IInv, NEW w \in Workers, Record(w) PROVE IInv'
  <1> DEFINE r == task[w].run
             k == task[w].kind
             u == Recorded(r, k, task[w].result)
             pc == IF task[w].pc = "reject" THEN "fail"
                   ELSE IF k = "generation" THEN "publish" ELSE "context"
  <1>1. /\ Executing(w) /\ receipt' = [receipt EXCEPT ![r][k] = u]
        /\ task[w].pc \in {"record", "reject"} /\ Goto(w, pc)
        /\ UNCHANGED <<conversation, pairs, submitted, request, status, events, usageState, bill, calls>>
    BY DEF Record, Executing, convVars, stateVars
  <1>2. Sound(task[w])
    BY DEF IInv, StagesKeepReceipts
  <1>3. r \in Runs /\ k \in Kinds
    BY <1>1, Payer
  <1>4. /\ task'[w].pc = pc /\ task'[w].run = r /\ task'[w].kind = k
        /\ task'[w].result = task[w].result
        /\ \A v \in Workers : v # w => task'[v] = task[v]
    BY <1>1, GotoStep
  <1>5. \A j \in Kinds : receipt'[r][j] = IF j = k THEN u ELSE receipt[r][j]
    BY <1>1, <1>3, Tables, TableUpdate
  <1>6. calls[r][k] \in 0..1 /\ calls' = [calls EXCEPT ![r][k] = calls[r][k]]
    <2>1. calls[r][k] \in Nat /\ calls[r][k] <= 1
      BY <1>1, <1>3, Payer DEF IInv, PaidOnce
    <2>2. calls' = [calls EXCEPT ![r][k] = calls[r][k]]
      BY <1>1, <1>3, Tables, WriteBack
    <2>3. QED
      BY <2>1, <2>2
  <1>7. status[r] \in Rows => Stage(task[w]) /\ receipt[r][k] = "open" /\ u = task[w].result
                             /\ u \notin {"absent", "open"}
    BY <1>1, <1>2, UsageAssumption DEF UsageAssumption, Sound, Stage, Recorded
  <1> HIDE DEF u
  <1>8. Sound(task[w])'
    <2>1. status[r] \in Rows => Stage(task[w])'
      BY <1>1, <1>3, <1>4, <1>5, <1>7 DEF Stage
    <2>2. QED
      BY <1>1, <1>4, <2>1 DEF Sound
  <1>9. status[r] \in Rows => u # "absent" /\ usageState[r] # "not_started"
    BY <1>3, <1>7 DEF IInv, UsageIsHonest
  <1>10. QED
    BY <1>1, <1>3, <1>4, <1>6, <1>8, <1>9, PaymentStep

(* A publication completes the run, stores the usage its receipts hold and     *)
(* appends the only pair of the run.                                        *)
LEMMA PublishStep ==
  ASSUME TypeOK, IInv, NEW w \in Workers, Publish(w), Fenced(w),
         Room(request[task[w].run].conversation)
  PROVE  IInv'
  <1> DEFINE r == task[w].run
             c == request[r].conversation
             b == task[w].result
  <1>1. /\ task[w].pc = "publish" /\ Executing(w) /\ status[r] = "running"
        /\ Transition({r}, "completed") /\ AppendPair(c, r)
        /\ usageState' = [usageState EXCEPT ![r] = "recorded"]
        /\ bill' = [bill EXCEPT ![r] = b]
        /\ task' = [task EXCEPT ![w] = IdleTask]
        /\ UNCHANGED <<conversation, submitted, request, receipt, calls>>
    BY DEF Publish, Complete, Stop, Return, Executing, Fenced, Holds
  <1>2. r \in Runs /\ b \in Usage \cup {"absent"}
    BY <1>1, Payer
  <1>3. Stage(task[w])
    BY <1>1 DEF IInv, StagesKeepReceipts, Sound
  <1>4. receipt[r]["query_embedding"] # "open" /\ receipt[r]["generation"] = b /\ b # "open"
    BY <1>1, <1>2, <1>3, UsageAssumption DEF UsageAssumption, Stage
  <1>5. \A q \in Runs :
          /\ status'[q] = IF q = r THEN "completed" ELSE status[q]
          /\ usageState'[q] = IF q = r THEN "recorded" ELSE usageState[q]
          /\ bill'[q] = IF q = r THEN b ELSE bill[q]
    BY <1>1 DEF Transition, TypeOK
  <1>6. \A v \in Workers : task'[v] = IF v = w THEN IdleTask ELSE task[v]
    BY <1>1 DEF TypeOK
  <1>7. \A v \in Workers : Executing(v) /\ v # w => task[v].run \in Runs \ {r}
    BY <1>1, TaskFields DEF IInv, OneExecution, Executing
  <1>8. pairs' = pairs \cup {[conversation |-> c, turn |-> r, user |-> messageCount[c] + 1,
                              assistant |-> messageCount[c] + 2]}
    BY <1>1 DEF AppendPair
  <1> HIDE DEF r, c, b
  <1>9. RowsInOrder' /\ RunsHaveConversation' /\ UntouchedUntilClaimed' /\ UsageFollowsStatus' /\ PaidOnce'
    BY <1>1, <1>2, <1>5 DEF IInv, RowsInOrder, RunsHaveConversation, UntouchedUntilClaimed, UsageFollowsStatus, PaidOnce
  <1>10. ExecutesClaimed' /\ OneExecution'
    BY <1>5, <1>6, <1>7 DEF IInv, ExecutesClaimed, OneExecution, Executing, IdleTask
  <1>11. StagesKeepReceipts'
    <2>1. Sound(task[w])'
      BY <1>6 DEF Sound, IdleTask
    <2>2. ASSUME NEW v \in Workers, v # w PROVE Sound(task[v])'
      BY <1>1, <1>5, <1>6, <1>7, <2>2, KeepSound DEF IInv, StagesKeepReceipts
    <2>3. QED
      BY <2>1, <2>2 DEF StagesKeepReceipts
  <1>12. EventLogMatchesStatus'
    BY <1>1, <1>2, TransitionLogs DEF r, IInv, Moves
  <1>13. UsageIsHonest'
    BY <1>1, <1>4, <1>5 DEF IInv, UsageIsHonest
  <1>14. CompletedIffPublished'
    <2>1. \A p \in pairs : p.turn # r
      BY <1>1, <1>2 DEF r, IInv, CompletedIffPublished
    <2>2. \A p \in pairs' : p \in pairs \/ (p.turn = r /\ p.conversation = c)
      BY <1>8
    <2>3. \E p \in pairs' : p.turn = r
      <3> DEFINE new == [conversation |-> c, turn |-> r, user |-> messageCount[c] + 1,
                         assistant |-> messageCount[c] + 2]
      <3>1. new \in pairs' /\ new.turn = r
        BY <1>8
      <3> HIDE DEF new
      <3>2. QED
        BY <3>1
    <2>4. \A p, q \in pairs' : p.turn = r /\ q.turn = r => p = q
      BY <1>8, <2>1
    <2>5. ASSUME NEW q \in Runs, q # r
          PROVE  (\E p \in pairs' : p.turn = q) <=> (\E p \in pairs : p.turn = q)
      BY <1>8, <2>2, <2>5
    <2>6. QED
      BY <1>1, <1>2, <1>5, <2>1, <2>2, <2>3, <2>4, <2>5 DEF c, r, IInv, CompletedIffPublished
  <1>15. QED
    BY <1>9, <1>10, <1>11, <1>12, <1>13, <1>14 DEF IInv

-----------------------------------------------------------------------------
(* Every step keeps the invariant.                                         *)

(* A worker returns, or an exception takes it to fail_run.                   *)
LEMMA IdleStep ==
  ASSUME TypeOK, IInv, NEW w \in Workers, UNCHANGED tables,
         task' = [task EXCEPT ![w] = IdleTask]
  PROVE  IInv'
  <1>1. IdleTask \in Task /\ IdleTask.pc = "idle" /\ Sound(IdleTask)
    BY DEF Task, IdleTask, Sound
  <1>2. QED
    BY <1>1, TaskStep

(* An exception takes a task to fail_run and changes no table.              *)
LEMMA FailureStep ==
  ASSUME TypeOK, IInv, NEW w \in Workers, Executing(w), UNCHANGED tables, Goto(w, "fail")
  PROVE  IInv'
  <1> DEFINE t == [task[w] EXCEPT !.pc = "fail"]
  <1>1. t \in Task /\ t.pc = "fail" /\ t.run = task[w].run
    BY TaskFields DEF Task, Steps, Executing
  <1>2. task' = [task EXCEPT ![w] = t]
    BY DEF Goto
  <1> HIDE DEF t
  <1>3. Sound(t)
    BY <1>1 DEF Sound, Stage
  <1>4. QED
    BY <1>1, <1>2, <1>3, TaskStep

(* The invariant, action by action.                                         *)
LEMMA ApiStep == ASSUME TypeOK, IInv, Api PROVE IInv'
  <1>1. ASSUME NEW r \in Runs, Cancel(r) PROVE IInv'
    <2>1. Transition({r}, "cancelled") /\ {r} \in SUBSET Runs /\ \A q \in {r} : status[q] \in Active
      BY <1>1 DEF Cancel, Stop
    <2>2. UNCHANGED <<conversation, pairs, submitted, request, usageState, bill, receipt, calls, task>>
      BY <1>1 DEF Cancel, convVars
    <2>3. task' \in [Workers -> Task] /\ \A v \in Workers : task'[v] \in {task[v], IdleTask}
      BY <2>2 DEF TypeOK
    <2>4. QED
      BY <2>1, <2>2, <2>3, StopStep
  <1>2. ASSUME NEW a \in Askers, NEW c \in Conversations, AskStart(a, c) PROVE IInv'
    BY <1>2, QuietStep DEF AskStart, tables, convVars, stateVars
  <1>3. CASE Reindex
    BY <1>3, QuietStep DEF Reindex, tables, convVars, stateVars
  <1>4. QED
    BY <1>1, <1>2, <1>3, CreateStep, RemoveStep, SubmitStep, AskEndStep DEF Api

LEMMA SystemStep == ASSUME TypeOK, IInv, Time \/ Dispatcher \/ Faults PROVE IInv'
  <1> USE DEF tables, convVars, stateVars
  <1>1. CASE Time
    BY <1>1, QuietStep DEF Time, LeaseExpires, QueueAges, RedispatchDue
  <1>2. CASE Sweep
    <2> DEFINE S == Lost \cup Stale
    <2>1. Transition(S, "failed") /\ S \in SUBSET Runs /\ \A q \in S : status[q] \in Active
      BY <1>2 DEF Sweep, Stop, Lost, Stale
    <2>2. UNCHANGED <<conversation, pairs, submitted, request, usageState, bill, receipt, calls, task>>
      BY <1>2 DEF Sweep
    <2>3. task' \in [Workers -> Task] /\ \A v \in Workers : task'[v] \in {task[v], IdleTask}
      BY <2>2 DEF TypeOK
    <2> HIDE DEF S
    <2>4. QED
      BY <2>1, <2>2, <2>3, StopStep
  <1>3. CASE PublishMessage \/ MarkDispatched \/ DispatcherCrash
    BY <1>3, QuietStep DEF PublishMessage, MarkDispatched, DispatcherCrash
  <1>4. ASSUME NEW r \in Runs, LoseMessage(r) PROVE IInv'
    BY <1>4, QuietStep DEF LoseMessage
  <1>5. ASSUME NEW w \in Workers, Crash(w) PROVE IInv'
    BY <1>5, IdleStep DEF Crash
  <1>6. QED
    BY <1>1, <1>2, <1>3, <1>4, <1>5 DEF Dispatcher, Faults

LEMMA WorkerStep == ASSUME TypeOK, IInv, NEW w \in Workers, Worker(w) PROVE IInv'
  <1> USE DEF tables, convVars, stateVars
  <1>0. Sound(task[w])
    BY DEF IInv, StagesKeepReceipts
  <1>1. ASSUME NEW r \in Runs, Deliver(w, r) PROVE IInv'
    <2> DEFINE t == [IdleTask EXCEPT !.pc = "claim", !.run = r]
    <2>0. 0 \in 0..MaxSource
      BY Bounds
    <2>1. t \in Task /\ t.pc = "claim"
      BY <2>0 DEF Task, Steps, IdleTask
    <2>2. task' = [task EXCEPT ![w] = t] /\ UNCHANGED tables
      BY <1>1 DEF Deliver
    <2> HIDE DEF t
    <2>3. Sound(t)
      BY <2>1 DEF Sound
    <2>4. QED
      BY <2>1, <2>2, <2>3, TaskStep
  <1>2. CASE Claim(w)
    <2>1. ~Claimable(task[w].run) => UNCHANGED tables /\ task' = [task EXCEPT ![w] = IdleTask]
      BY <1>2 DEF Claim, Return
    <2>2. QED
      BY <1>2, <2>1, ClaimStep, IdleStep
  <1>3. CASE Load(w)
    <2>1. CASE Holds(w)
      <3> DEFINE t == [task[w] EXCEPT !.pc = "search"]
      <3>1. t \in Task /\ t.pc = "search" /\ t.run = task[w].run /\ Executing(w) /\ task[w].pc = "load"
        BY <1>3, TaskFields DEF Load, Task, Steps, Executing
      <3>2. task' = [task EXCEPT ![w] = t] /\ UNCHANGED tables
        BY <1>3, <2>1 DEF Load, Goto
      <3> HIDE DEF t
      <3>3. Sound(t)
        BY <1>0, <3>1 DEF Sound, Stage
      <3>4. QED
        BY <3>1, <3>2, <3>3, TaskStep
    <2>2. CASE ~Holds(w)
      BY <1>3, <2>2, IdleStep DEF Load, Return
    <2>3. QED
      BY <2>1, <2>2
  <1>4. CASE Search(w)
    <2> DEFINE pc == IF request[task[w].run].mode = "hybrid" THEN "begin" ELSE "context"
               t == [task[w] EXCEPT !.source = source, !.kind = "query_embedding", !.pc = pc]
    <2>0. /\ pc \in {"begin", "context"} /\ pc \in Steps /\ source \in 0..MaxSource
          /\ task[w].pc = "search" /\ Executing(w)
      BY <1>4 DEF Search, Steps, Executing, TypeOK
    <2> HIDE DEF pc
    <2>1. t \in Task /\ t.pc = pc /\ t.run = task[w].run /\ t.kind = "query_embedding"
      BY <2>0, TaskFields DEF Task
    <2>2. task' = [task EXCEPT ![w] = t] /\ UNCHANGED tables
      BY <1>4 DEF Search, pc
    <2> HIDE DEF t
    <2>3. Sound(t)
      BY <1>0, <2>0, <2>1 DEF Sound, Stage
    <2>4. QED
      BY <2>0, <2>1, <2>2, <2>3, TaskStep
  <1>5. CASE Begin(w)
    <2>1. ~(Fenced(w) /\ receipt[task[w].run][task[w].kind] = "absent") =>
            UNCHANGED tables /\ Goto(w, "fail") /\ Executing(w)
      BY <1>5 DEF Begin, Executing
    <2>2. QED
      BY <1>5, <2>1, BeginStep, FailureStep
  <1>6. CASE Delta(w)
    <2>1. UNCHANGED tables /\ Executing(w)
      BY <1>6 DEF Delta, Executing
    <2>2. UNCHANGED task \/ Goto(w, "fail")
      BY <1>6 DEF Delta
    <2>3. QED
      BY <2>1, <2>2, QuietStep, FailureStep
  <1>7. CASE Respond(w)
    <2>1. PICK u \in Usage, pc \in {"record", "reject"} :
            task' = [task EXCEPT ![w] = [@ EXCEPT !.result = u, !.pc = pc]]
      BY <1>7 DEF Respond
    <2> DEFINE t == [task[w] EXCEPT !.result = u, !.pc = pc]
    <2>2. /\ t \in Task /\ t.pc = pc /\ t.run = task[w].run /\ t.kind = task[w].kind
          /\ t.result = u /\ task[w].pc = "await" /\ Executing(w)
      BY <1>7, TaskFields DEF Respond, Task, Steps, Executing
    <2>3. task' = [task EXCEPT ![w] = t] /\ UNCHANGED tables
      BY <1>7, <2>1 DEF Respond
    <2> HIDE DEF t
    <2>4. Sound(t)
      BY <1>0, <2>2 DEF Sound, Stage
    <2>5. QED
      BY <2>2, <2>3, <2>4, TaskStep
  <1>8. CASE Context(w)
    <2>1. UNCHANGED tables /\ Executing(w) /\ task[w].pc = "context"
      BY <1>8 DEF Context, Executing
    <2>2. CASE Goto(w, "fail")
      BY <2>1, <2>2, FailureStep
    <2>3. ASSUME NEW pc \in {"begin", "publish"},
                 task' = [task EXCEPT ![w] = [@ EXCEPT !.pc = pc, !.kind = "generation", !.result = "absent"]]
          PROVE  IInv'
      <3> DEFINE t == [task[w] EXCEPT !.pc = pc, !.kind = "generation", !.result = "absent"]
      <3>1. /\ t \in Task /\ t.pc = pc /\ t.run = task[w].run /\ t.kind = "generation"
            /\ t.result = "absent"
        BY <2>1, TaskFields DEF Task, Steps
      <3>2. task' = [task EXCEPT ![w] = t]
        BY <2>3
      <3> HIDE DEF t
      <3>3. Sound(t)
        BY <1>0, <2>1, <3>1 DEF Sound, Stage
      <3>4. QED
        BY <2>1, <3>1, <3>2, <3>3, TaskStep
    <2>4. QED
      BY <1>8, <2>2, <2>3 DEF Context
  <1>9. CASE Publish(w)
    <2> DEFINE c == request[task[w].run].conversation
    <2>1. CASE Fenced(w) /\ Room(c)
      BY <1>9, <2>1, PublishStep
    <2>2. CASE ~Fenced(w)
      BY <1>9, <2>2, IdleStep DEF Publish, Return
    <2>3. CASE Fenced(w) /\ ~Room(c)
      BY <1>9, <2>3, FailureStep DEF Publish, Executing
    <2>4. QED
      BY <2>1, <2>2, <2>3
  <1>10. CASE Raise(w)
    BY <1>10, FailureStep DEF Raise, Executing
  <1>11. CASE Fail(w)
    <2>1. task' = [task EXCEPT ![w] = IdleTask] /\ task[w].pc = "fail"
          /\ UNCHANGED <<conversation, pairs, submitted, request, usageState, bill, receipt, calls>>
      BY <1>11 DEF Fail, Return
    <2>2. CASE ~Holds(w)
      BY <1>11, <2>1, <2>2, IdleStep DEF Fail
    <2>3. CASE Holds(w)
      <3> DEFINE S == {task[w].run}
      <3>1. Transition(S, "failed") /\ S \in SUBSET Runs /\ \A q \in S : status[q] \in Active
        BY <1>11, <2>1, <2>3, TaskFields DEF Fail, Stop, Holds
      <3>2. task' \in [Workers -> Task] /\ \A v \in Workers : task'[v] \in {task[v], IdleTask}
        BY <2>1 DEF TypeOK, Task
      <3> HIDE DEF S
      <3>3. QED
        BY <2>1, <3>1, <3>2, StopStep
    <2>4. QED
      BY <2>2, <2>3
  <1>12. QED
    BY <1>1, <1>2, <1>3, <1>4, <1>5, <1>6, <1>7, <1>8, <1>9, <1>10, <1>11, RecordStep, SendStep DEF Worker

(* The invariant holds in every reachable state.                            *)
THEOREM InvariantHolds == Spec => []IInv
  <1>1. TypeOK /\ IInv /\ [Next]_vars => IInv'
    <2> SUFFICES ASSUME TypeOK, IInv, [Next]_vars PROVE IInv'
      OBVIOUS
    <2>1. CASE UNCHANGED vars
      BY <2>1, QuietStep DEF vars, tables, convVars, stateVars
    <2>2. CASE Next
      BY <2>2, ApiStep, SystemStep, WorkerStep DEF Next
    <2>3. QED
      BY <2>1, <2>2
  <1>2. QED
    BY <1>1, InitIInv, TypeCorrect, PTL DEF Spec

(* No run is executed twice, whatever duplicates, dead workers and expired    *)
(* leases there are.                                                        *)
THEOREM ExecutedOnce == Spec => []OneExecution
  BY InvariantHolds, PTL DEF IInv

(* A run is charged at most once for each purpose.                          *)
THEOREM ChargedOnce == Spec => []PaidOnce
  BY InvariantHolds, PTL DEF IInv

(* The usage a run reports is what its receipts and its requests say.        *)
THEOREM HonestUsage == Spec => []UsageIsHonest
  BY InvariantHolds, PTL DEF IInv

(* A conversation shows one pair for a completed run and none for another.    *)
THEOREM PublishedAtomically == Spec => []CompletedIffPublished
  BY InvariantHolds, PTL DEF IInv

(* The event log of a run is a legal path to its state.                      *)
THEOREM LegalEventLogs == Spec => []EventLogMatchesStatus
  BY InvariantHolds, PTL DEF IInv

=============================================================================
