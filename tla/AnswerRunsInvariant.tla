------------------------- MODULE AnswerRunsInvariant -------------------------
(***************************************************************************)
(* The inductive invariant behind the safety properties of AnswerRuns. The  *)
(* properties alone are not inductive: that nobody pays twice depends on     *)
(* where in run_answer the one task that executes a run stands.              *)
(***************************************************************************)
EXTENDS AnswerRunsRefinement

(* A run id exists exactly up to the number of inserted rows.               *)
RowsInOrder == \A r \in Runs : status[r] = "none" <=> r > submitted

(* Rows of runs only exist below a live conversation (the foreign key).      *)
RunsHaveConversation ==
  \A r \in Runs : status[r] \in Rows => conversation[request[r].conversation] = "live"

(* Before its claim nothing was attempted for a run.                        *)
UntouchedUntilClaimed ==
  \A r \in Runs : status[r] \in {"none", "queued"} =>
    /\ usageState[r] = "not_started"
    /\ \A k \in Kinds : receipt[r][k] = "absent" /\ calls[r][k] = 0

(* A task past its claim works on a run that was claimed and not published.  *)
ExecutesClaimed ==
  \A w \in Workers : Executing(w) =>
    status[task[w].run] \notin {"none", "queued", "completed"}

(* What is stored about a run's provider calls at each stage t of its task.   *)
Stage(t) ==
  LET embedding  == receipt[t.run]["query_embedding"]
      generation == receipt[t.run]["generation"]
      calling    == t.pc \in {"begin", "send", "await", "record", "reject"} IN
  /\ t.pc \in {"load", "search"} => embedding = "absent" /\ generation = "absent"
  /\ t.pc = "context" => embedding # "open" /\ generation = "absent"
  /\ calling /\ t.kind = "generation" => embedding # "open"
  /\ calling /\ t.kind = "query_embedding" => generation = "absent"
  /\ t.pc = "begin" => receipt[t.run][t.kind] = "absent"
  /\ calling /\ t.pc # "begin" => receipt[t.run][t.kind] = "open"
  /\ t.pc = "publish" => embedding # "open" /\ generation = t.result

(* ... which holds while the row exists; a deleted run still has one call of  *)
(* a kind at most.                                                          *)
Sound(t) ==
  /\ t.pc \in {"record", "reject"} => t.result \in Usage
  /\ t.pc = "send" => calls[t.run][t.kind] = 0
  /\ t.pc \notin {"idle", "claim"} /\ status[t.run] \in Rows => Stage(t)

StagesKeepReceipts == \A w \in Workers : Sound(task[w])

(* usage_state is unknown from the claim until the publication.             *)
UsageFollowsStatus == \A r \in Runs : status[r] = "running" => usageState[r] = "unknown"

IInv ==
  /\ RowsInOrder /\ RunsHaveConversation /\ UntouchedUntilClaimed /\ ExecutesClaimed
  /\ StagesKeepReceipts /\ UsageFollowsStatus
  /\ EventLogMatchesStatus /\ OneExecution /\ PaidOnce /\ UsageIsHonest
  /\ CompletedIffPublished

=============================================================================
