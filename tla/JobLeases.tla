------------------------------ MODULE JobLeases ------------------------------
(***************************************************************************)
(* Leased background jobs (jobs/state.py, jobs/dispatcher.py): the columns    *)
(* that imports, source indexes and search preparations share, how workers   *)
(* claim a job and keep it, and how the dispatcher publishes and gives up.    *)
(* Unlike an answer run, an abandoned job is taken over by another worker,   *)
(* three times at most. The modules that extend this one add the jobs' work. *)
(***************************************************************************)
EXTENDS Naturals, FiniteSets, Sequences

CONSTANTS Workers,
          MaxJobs,      \* model bound: rows ever inserted
          MaxTokens,    \* model bound: claims ever made
          MaxFaults,    \* model bound: crashes and lost messages, for liveness
          MaxAttempts,  \* 3 in the code
          BatchLimit    \* 50 in the code

ASSUME JobBounds ==
  /\ {MaxJobs, MaxTokens, MaxFaults, BatchLimit} \subseteq Nat
  /\ MaxAttempts \in Nat \ {0}

Jobs     == 1..MaxJobs      \* in created_at order
Active   == {"queued", "running"}
Terminal == {"completed", "failed", "cancelled"}
Rows     == Active \cup Terminal
Steps    == {"idle", "claim", "started", "resolved", "downloading", "validating", "loaded",
             "parsing", "batching", "embedding", "storing", "failing", "retryable"}
NoToken  == 0
NoJob    == 0

VARIABLES
  inserted,    \* number of rows ever inserted
  status, attempts, token, lease,   \* columns of a job
  current,     \* jobs with is_current
  waiting,     \* jobs whose available_at is in the future
  dispatched,  \* jobs whose last_dispatched_at is within 30 seconds
  broker,      \* jobs with a message that can still be delivered
  batch, sent, \* dispatcher: ids left to publish, id published but not marked
  turn,        \* dispatcher: the table its cycle comes to next
  lastToken,   \* lease tokens issued so far (uuid4: always fresh)
  task,        \* locals of each worker's call
  faults       \* crashes, losses and publish errors so far

rowVars == <<inserted, status, attempts, token, lease, current, waiting>>
loopVars == <<batch, sent, turn>>
queueVars == <<dispatched, broker, loopVars>>
leaseVars == <<rowVars, queueVars, lastToken, task, faults>>

IdleTask == [pc |-> "idle", job |-> NoJob, token |-> NoToken, attempt |-> 0]

InitLeases ==
  /\ inserted = 0
  /\ status = [j \in Jobs |-> "none"]
  /\ attempts = [j \in Jobs |-> 0]
  /\ token = [j \in Jobs |-> NoToken]
  /\ lease = [j \in Jobs |-> "none"]
  /\ current = {} /\ waiting = {} /\ dispatched = {}
  /\ broker = {} /\ batch = {} /\ sent = NoJob /\ turn = 1
  /\ lastToken = NoToken
  /\ task = [w \in Workers |-> IdleTask]
  /\ faults = 0

-----------------------------------------------------------------------------
(* Pieces of a transaction.                                                *)

(* UPDATE ... SET status = s, lease_token = NULL, lease_expires_at = NULL.   *)
SetStatus(S, s) ==
  /\ status' = [j \in Jobs |-> IF j \in S THEN s ELSE status[j]]
  /\ token' = [j \in Jobs |-> IF j \in S THEN NoToken ELSE token[j]]
  /\ lease' = [j \in Jobs |-> IF j \in S THEN "none" ELSE lease[j]]

(* INSERT of the next row; the rows of old lose is_current before it.        *)
Insert(old) ==
  /\ inserted < MaxJobs
  /\ inserted' = inserted + 1
  /\ status' = [status EXCEPT ![inserted + 1] = "queued"]
  /\ current' = (current \ old) \cup {inserted + 1}
  /\ UNCHANGED <<attempts, token, lease, waiting, queueVars, lastToken, task, faults>>

(* The cascade of a deleted repository.                                     *)
DeleteAll ==
  /\ SetStatus({j \in Jobs : status[j] \in Rows}, "deleted")
  /\ current' = {} /\ waiting' = {}
  /\ UNCHANGED <<inserted, attempts, queueVars, lastToken, task, faults>>

CancelJobs(S) ==
  /\ SetStatus(S, "cancelled")
  /\ UNCHANGED <<inserted, attempts, current, waiting, queueVars, lastToken, task, faults>>

(* Mutant: the lease of a claim is not looked at again.                     *)
HeldForever(w) ==
  /\ status[task[w].job] = "running"
  /\ task[w].job \in current

(* lease_condition: the claim still owns its running job.                   *)
Held(w) ==
  /\ status[task[w].job] = "running"
  /\ token[task[w].job] = task[w].token
  /\ task[w].job \in current
  /\ lease[task[w].job] = "live"

Goto(w, pc) == task' = [task EXCEPT ![w].pc = pc]

(* The task returns and its message is acknowledged; another copy of the    *)
(* message may still be around.                                             *)
Return(w) ==
  /\ task' = [task EXCEPT ![w] = IdleTask]
  /\ broker' \in {broker, broker \ {task[w].job}}

(* A conditional update of the worker's own job that ends its claim.         *)
Finish(w, s) ==
  /\ SetStatus({task[w].job}, s)
  /\ Return(w)
  /\ UNCHANGED <<inserted, attempts, current, waiting, dispatched, loopVars, lastToken, faults>>

(* LeaseLost, or a failure whose update finds no row.                       *)
GiveUp(w) ==
  /\ Return(w)
  /\ UNCHANGED <<rowVars, dispatched, loopVars, lastToken, faults>>

(* A step that changes nothing but the worker's locals.                     *)
Proceed(w, pc) ==
  /\ Goto(w, pc)
  /\ UNCHANGED <<rowVars, queueVars, lastToken, faults>>

-----------------------------------------------------------------------------
(* Delivery, claim and death of a worker.                                  *)

(* The message stays until it is acknowledged (task_acks_late).             *)
Deliver(w, j) ==
  /\ task[w].pc = "idle" /\ j \in broker
  /\ task' = [task EXCEPT ![w] = [IdleTask EXCEPT !.pc = "claim", !.job = j]]
  /\ UNCHANGED <<rowVars, queueVars, lastToken, faults>>

Claimable(j) ==
  /\ j \in current /\ attempts[j] < MaxAttempts /\ j \notin waiting
  /\ status[j] = "queued" \/ (status[j] = "running" /\ lease[j] = "expired")

(* claim_job                                                               *)
Claim(w) ==
  LET j == task[w].job IN
  /\ task[w].pc = "claim"
  /\ \/ /\ Claimable(j)
        /\ lastToken < MaxTokens
        /\ lastToken' = lastToken + 1
        /\ status' = [status EXCEPT ![j] = "running"]
        /\ attempts' = [attempts EXCEPT ![j] = @ + 1]
        /\ token' = [token EXCEPT ![j] = lastToken + 1]
        /\ lease' = [lease EXCEPT ![j] = "live"]
        /\ task' = [task EXCEPT ![w] =
             [@ EXCEPT !.pc = "started", !.token = lastToken + 1, !.attempt = attempts[j] + 1]]
        /\ UNCHANGED <<inserted, current, waiting, queueVars, faults>>
     \/ ~Claimable(j) /\ GiveUp(w)

(* The worker process dies; its message is delivered again.                 *)
Crash(w) ==
  /\ faults < MaxFaults /\ faults' = faults + 1
  /\ task[w].pc # "idle"
  /\ task' = [task EXCEPT ![w] = IdleTask]
  /\ broker' = broker \cup {task[w].job}
  /\ UNCHANGED <<rowVars, dispatched, loopVars, lastToken>>

-----------------------------------------------------------------------------
(* Time and the dispatcher.                                                *)

LeaseExpires(j) ==
  /\ lease[j] = "live"
  /\ lease' = [lease EXCEPT ![j] = "expired"]
  /\ UNCHANGED <<inserted, status, attempts, token, current, waiting, queueVars, lastToken,
                 task, faults>>

BackoffEnds(j) ==
  /\ j \in waiting
  /\ waiting' = waiting \ {j}
  /\ UNCHANGED <<inserted, status, attempts, token, lease, current, queueVars, lastToken,
                 task, faults>>

RedispatchDue(j) ==
  /\ j \in dispatched
  /\ dispatched' = dispatched \ {j}
  /\ UNCHANGED <<rowVars, broker, loopVars, lastToken, task, faults>>

(* Mutant: jobs of dead workers are never given up.                         *)
LostNever == {}

Lost == {j \in Jobs : status[j] = "running" /\ lease[j] = "expired" /\ attempts[j] >= MaxAttempts}

Eligible ==
  {j \in current : /\ j \notin waiting /\ j \notin dispatched
                   /\ status[j] = "queued" \/ (status[j] = "running" /\ lease[j] = "expired")}

(* Mutant: every cycle starts, and ends, with the first table.              *)
SweepFirst(T) ==
  LET left == (Eligible \ Lost) \cap T[1] IN
  /\ batch = {} /\ sent = NoJob
  /\ SetStatus(Lost \cap T[1], "failed")
  /\ batch' = {j \in left : Cardinality({i \in left : i < j}) < BatchLimit}
  /\ UNCHANGED <<inserted, attempts, current, waiting, dispatched, broker, sent, turn, lastToken,
                 task, faults>>

(* dispatch_once, first transaction: fail what was lost for the last time,     *)
(* then choose the oldest eligible ids. T is the sequence of tables of main's  *)
(* cycle, which comes to the next one when all ids of the batch are done.     *)
Sweep(T) ==
  LET left == (Eligible \ Lost) \cap T[turn] IN
  /\ batch = {} /\ sent = NoJob
  /\ SetStatus(Lost \cap T[turn], "failed")
  /\ batch' = {j \in left : Cardinality({i \in left : i < j}) < BatchLimit}
  /\ turn' = (turn % Len(T)) + 1
  /\ UNCHANGED <<inserted, attempts, current, waiting, dispatched, broker, sent, lastToken,
                 task, faults>>

(* publish(job_id) puts a message on the broker, or raises and is skipped.   *)
PublishMessage ==
  \E j \in batch :
    /\ sent = NoJob
    /\ \A i \in batch : j <= i
    /\ batch' = batch \ {j}
    /\ \/ broker' = broker \cup {j} /\ sent' = j /\ UNCHANGED faults
       \/ faults < MaxFaults /\ faults' = faults + 1 /\ UNCHANGED <<broker, sent>>
    /\ UNCHANGED <<rowVars, dispatched, turn, lastToken, task>>

(* last_dispatched_at is set whatever the job became meanwhile.             *)
MarkDispatched ==
  /\ sent # NoJob
  /\ dispatched' = IF status[sent] \in Rows THEN dispatched \cup {sent} ELSE dispatched
  /\ sent' = NoJob
  /\ UNCHANGED <<rowVars, broker, batch, turn, lastToken, task, faults>>

(* The dispatcher dies, or a database error ends its cycle: what was left of  *)
(* the batch and the tables behind it wait, the next cycle is a new one.      *)
AbortCycle ==
  /\ faults < MaxFaults /\ faults' = faults + 1
  /\ batch # {} \/ sent # NoJob \/ turn # 1
  /\ batch' = {} /\ sent' = NoJob /\ turn' = 1
  /\ UNCHANGED <<rowVars, broker, dispatched, lastToken, task>>

LoseMessage(j) ==
  /\ faults < MaxFaults /\ faults' = faults + 1
  /\ j \in broker
  /\ broker' = broker \ {j}
  /\ UNCHANGED <<rowVars, dispatched, loopVars, lastToken, task>>

Clock(j) == LeaseExpires(j) \/ BackoffEnds(j) \/ RedispatchDue(j)

(* The dispatcher's loop is one sequential process.                         *)
Dispatcher(T) == Sweep(T) \/ PublishMessage \/ MarkDispatched

(* What happens to leases around the work of a job.                         *)
Scheduling(T) ==
  \/ Dispatcher(T) \/ AbortCycle
  \/ \E j \in Jobs : Clock(j) \/ LoseMessage(j)
  \/ \E w \in Workers : Crash(w) \/ Claim(w) \/ \E j \in Jobs : Deliver(w, j)

-----------------------------------------------------------------------------
LeaseTypeOK ==
  /\ inserted \in 0..MaxJobs
  /\ status \in [Jobs -> Rows \cup {"none", "deleted"}]
  /\ attempts \in [Jobs -> 0..MaxAttempts]
  /\ token \in [Jobs -> Nat]
  /\ lease \in [Jobs -> {"none", "live", "expired"}]
  /\ current \subseteq Jobs /\ waiting \subseteq Jobs /\ dispatched \subseteq Jobs
  /\ broker \subseteq Jobs /\ batch \subseteq Jobs /\ sent \in Jobs \cup {NoJob}
  /\ turn \in Nat \ {0}
  /\ lastToken \in Nat
  /\ task \in [Workers -> [pc : Steps, job : Jobs \cup {NoJob}, token : Nat,
                           attempt : 0..MaxAttempts]]
  /\ faults \in Nat

(* Every queued job can still be claimed: neither a failed attempt, nor a     *)
(* takeover, nor a lost worker leaves one queued with its attempts used up,   *)
(* where neither claim_job nor the dispatcher's sweep would ever move it.    *)
QueuedIsClaimable == \A j \in Jobs : status[j] = "queued" => j \in current /\ attempts[j] < MaxAttempts

=============================================================================
