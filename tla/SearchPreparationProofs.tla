----------------------- MODULE SearchPreparationProofs -----------------------
(***************************************************************************)
(* Proofs about search preparations for all values of the constants: what is  *)
(* spent, what the counters say, how many preparations of a kind there are,   *)
(* and that preparations follow the life cycle of leased jobs.              *)
(***************************************************************************)
EXTENDS SearchPreparation, FiniteSetTheorems, TLAPS

USE DEF Active, Terminal, Rows, NoToken, NoJob, Steps, Modes

-----------------------------------------------------------------------------
(* What every kind of leased job has in common: the invariant of the leases,   *)
(* and how the pieces of JobLeases keep it.                                 *)


(* Job numbers are natural numbers, and 0 is none of them.                   *)
LEMMA LeaseBounds ==
  /\ MaxJobs \in Nat /\ MaxAttempts \in Nat /\ MaxAttempts > 0 /\ BatchLimit \in Nat
  /\ MaxFaults \in Nat /\ Jobs \subseteq Nat /\ 0 \notin Jobs /\ IsFiniteSet(Jobs)
  BY JobBounds, FS_Interval DEF JobBounds, Jobs

Task == [pc : Steps, job : Jobs \cup {NoJob}, token : Nat, attempt : 0..MaxAttempts]

(* Rows are numbered in the order of their insertion, and a number that is   *)
(* not used yet has no row.                                                *)
LeaseNumbered ==
  /\ \A j \in Jobs : status[j] = "none" <=> j > inserted
  /\ \A j \in Jobs : j > inserted => attempts[j] = 0 /\ j \notin current

(* A job has a token and a lease while it runs, no token is from the future.  *)
Leased ==
  \A j \in Jobs :
    /\ token[j] <= lastToken
    /\ token[j] # NoToken <=> status[j] = "running"
    /\ lease[j] # "none" <=> status[j] = "running"

(* A worker that claimed a job has a token of its own; while the job has the  *)
(* same one, it is the worker's job, in the attempt the worker knows.        *)
Claims ==
  \A w \in Workers :
    /\ task[w].token <= lastToken
    /\ task[w].token # NoToken =>
         /\ task[w].job <= inserted
         /\ \A v \in Workers : task[v].token = task[w].token => v = w
    /\ task[w].token = NoToken <=> task[w].pc \in {"idle", "claim"}
    /\ task[w].pc # "idle" => task[w].job \in Jobs
    /\ \A j \in Jobs : task[w].token # NoToken /\ token[j] = task[w].token
                         => j = task[w].job /\ attempts[j] = task[w].attempt

LeaseInvariant == LeaseTypeOK /\ LeaseNumbered /\ Leased /\ Claims

(* A worker's claim is the job's.                                           *)
Owns(w) == task[w].pc \notin {"idle", "claim"} /\ token[task[w].job] = task[w].token

(* What a worker owns is its running job, in the worker's attempt.           *)
LEMMA OwnsFacts ==
  ASSUME LeaseInvariant, NEW w \in Workers, Owns(w)
  PROVE  LET j == task[w].job IN
         j \in Jobs /\ status[j] = "running" /\ token[j] # NoToken /\ attempts[j] = task[w].attempt
  BY DEF LeaseInvariant, Owns, Claims, Leased

(* The locals of a task are those of the type.                              *)
LEMMA TaskType == LeaseTypeOK => task \in [Workers -> Task]
  BY DEF LeaseTypeOK, Task

(* No lease, no claim, no task in the first state.                          *)
LEMMA InitLeaseInvariant == InitLeases => LeaseInvariant
  <1> SUFFICES ASSUME InitLeases PROVE LeaseInvariant
    OBVIOUS
  <1> USE DEF InitLeases, IdleTask
  <1>1. LeaseTypeOK
    <2>1. task \in [Workers -> [pc : Steps, job : Jobs \cup {NoJob}, token : Nat,
                                attempt : 0..MaxAttempts]]
      BY LeaseBounds
    <2>2. QED
      BY <2>1, LeaseBounds DEF LeaseTypeOK
  <1>2. LeaseNumbered /\ Leased /\ Claims
    BY LeaseBounds DEF LeaseNumbered, Leased, Claims
  <1>3. QED
    BY <1>1, <1>2 DEF LeaseInvariant

-----------------------------------------------------------------------------
(* Pieces of a transaction.                                                *)

(* SetStatus keeps the types of the columns it writes.                       *)
LEMMA SetStatusType ==
  ASSUME LeaseTypeOK, NEW S \in SUBSET Jobs, NEW s \in Rows \cup {"deleted"}, SetStatus(S, s)
  PROVE  /\ status' \in [Jobs -> Rows \cup {"none", "deleted"}]
         /\ token' \in [Jobs -> Nat]
         /\ lease' \in [Jobs -> {"none", "live", "expired"}]
         /\ \A j \in Jobs : /\ status'[j] = IF j \in S THEN s ELSE status[j]
                            /\ token'[j] = IF j \in S THEN 0 ELSE token[j]
                            /\ lease'[j] = IF j \in S THEN "none" ELSE lease[j]
  BY DEF SetStatus, LeaseTypeOK

(* A row that is written frees its claim and its lease; a job that has no     *)
(* row keeps having none.                                                  *)
LEMMA SetStatusLeases ==
  ASSUME LeaseTypeOK, LeaseNumbered, Leased, NEW S \in SUBSET Jobs,
         NEW s \in (Rows \ {"running"}) \cup {"deleted"}, SetStatus(S, s),
         \A j \in S : status[j] # "none", UNCHANGED <<inserted, lastToken>>
  PROVE  /\ Leased'
         /\ \A j \in Jobs : status'[j] = "none" <=> j > inserted'
  <1>1. \A j \in Jobs : /\ status'[j] = IF j \in S THEN s ELSE status[j]
                        /\ token'[j] = IF j \in S THEN 0 ELSE token[j]
                        /\ lease'[j] = IF j \in S THEN "none" ELSE lease[j]
    BY SetStatusType
  <1>2. lastToken \in Nat /\ s # "none" /\ s # "running"
    BY DEF LeaseTypeOK
  <1>3. Leased'
    BY <1>1, <1>2 DEF Leased
  <1>4. QED
    BY <1>1, <1>2, <1>3 DEF LeaseNumbered

(* The row that an Insert adds.                                             *)
LEMMA InsertLeases ==
  ASSUME LeaseInvariant, NEW old \in SUBSET Jobs, Insert(old)
  PROVE  /\ inserted + 1 \in Jobs /\ LeaseInvariant'
         /\ status[inserted + 1] = "none" /\ inserted + 1 \notin current
         /\ attempts[inserted + 1] = 0
         /\ \A j \in Jobs : status'[j] = IF j = inserted + 1 THEN "queued" ELSE status[j]
  <1> USE DEF LeaseInvariant
  <1>1. inserted + 1 \in Jobs /\ inserted \in Nat
    BY LeaseBounds DEF Insert, LeaseTypeOK, Jobs
  <1>2. LeaseTypeOK'
    <2>1. inserted + 1 \in 0..MaxJobs
      BY <1>1, LeaseBounds DEF Jobs
    <2>2. status' \in [Jobs -> Rows \cup {"none", "deleted"}]
      BY <1>1 DEF Insert, LeaseTypeOK
    <2>3. QED
      BY <1>1, <2>1, <2>2 DEF Insert, LeaseTypeOK, queueVars, loopVars
  <1>3. status[inserted + 1] = "none" /\ inserted + 1 \notin current /\ attempts[inserted + 1] = 0
    BY <1>1 DEF LeaseNumbered
  <1>4. \A j \in Jobs : status'[j] = IF j = inserted + 1 THEN "queued" ELSE status[j]
    BY <1>1 DEF Insert, LeaseTypeOK
  <1>5. LeaseNumbered'
    BY <1>1, <1>4, LeaseBounds DEF Insert, LeaseNumbered
  <1>6. \A w \in Workers : task[w].token # NoToken => task[w].job <= inserted'
    <2>1. inserted' = inserted + 1
      BY DEF Insert
    <2>2. \A w \in Workers : task[w].token # NoToken => task[w].job \in Nat
      BY LeaseBounds DEF Claims
    <2>3. QED
      BY <1>1, <2>1, <2>2 DEF Claims
  <1>7. Leased' /\ Claims'
    BY <1>1, <1>3, <1>4, <1>6 DEF Insert, Leased, Claims
  <1>8. QED
    BY <1>1, <1>2, <1>3, <1>4, <1>5, <1>7

(* The locals of a worker whose task moves to another step.                   *)
LEMMA StepTask ==
  ASSUME NEW u \in Task, NEW pc \in Steps
  PROVE  LET t == [u EXCEPT !.pc = pc] IN
         t \in Task /\ t.pc = pc /\ t.job = u.job /\ t.token = u.token /\ t.attempt = u.attempt
  BY DEF Task

(* An idle worker has no claim.                                             *)
LEMMA IdleType == IdleTask \in Task /\ IdleTask.pc = "idle" /\ IdleTask.token = NoToken
  BY LeaseBounds DEF IdleTask, Task

(* A worker's locals become t: it works on as before, or has no claim.        *)
Continues(w, t) ==
  \/ /\ t.token = task[w].token /\ t.job = task[w].job /\ t.attempt = task[w].attempt
     /\ task[w].pc \notin {"idle", "claim"} /\ t.pc \notin {"idle", "claim"}
  \/ t.token = NoToken /\ t.pc \in {"idle", "claim"} /\ (t.pc # "idle" => t.job \in Jobs)

(* Claims survive such a step if no job gets a token.                        *)
LEMMA TaskClaims ==
  ASSUME LeaseTypeOK, Claims, NEW w \in Workers, NEW t, Continues(w, t),
         task' = [task EXCEPT ![w] = t], UNCHANGED <<lastToken, inserted>>,
         \A j \in Jobs : token'[j] = NoToken \/ (token'[j] = token[j] /\ attempts'[j] = attempts[j])
  PROVE  Claims'
  <1>1. \A v \in Workers : task'[v] = IF v = w THEN t ELSE task[v]
    BY DEF LeaseTypeOK
  <1>2. lastToken \in Nat
    BY DEF LeaseTypeOK
  <1>3. QED
    BY <1>1, <1>2 DEF Claims, Continues

(* The same when no worker moves.                                           *)
LEMMA RevokeClaims ==
  ASSUME Claims, UNCHANGED <<task, lastToken, inserted>>,
         \A j \in Jobs : token'[j] = NoToken \/ (token'[j] = token[j] /\ attempts'[j] = attempts[j])
  PROVE  Claims'
  BY DEF Claims

(* A conditional update by the worker that holds its job, or by nobody: rows  *)
(* S get a state without a claim, and the worker returns.                    *)
LEMMA FreeLeases ==
  ASSUME LeaseInvariant, NEW S \in SUBSET Jobs, NEW s \in (Rows \ {"running"}) \cup {"deleted"},
         SetStatus(S, s), \A j \in S : status[j] \in Rows,
         UNCHANGED <<inserted, lastToken, faults>>,
         batch' \subseteq Jobs, sent' \in Jobs \cup {NoJob}, turn' \in Nat \ {0},
         \/ UNCHANGED <<task, broker>>
         \/ \E w \in Workers : Return(w),
         attempts' \in [Jobs -> 0..MaxAttempts], \A j \in Jobs \ S : attempts'[j] = attempts[j],
         current' \subseteq current, waiting' \subseteq waiting \cup S,
         dispatched' \subseteq dispatched
  PROVE  /\ LeaseInvariant'
         /\ \A j \in Jobs : status'[j] = IF j \in S THEN s ELSE status[j]
         /\ \A j \in Jobs : token'[j] = IF j \in S THEN NoToken ELSE token[j]
  <1> USE DEF LeaseInvariant
  <1>1. /\ status' \in [Jobs -> Rows \cup {"none", "deleted"}] /\ token' \in [Jobs -> Nat]
        /\ lease' \in [Jobs -> {"none", "live", "expired"}]
        /\ \A j \in Jobs : /\ status'[j] = IF j \in S THEN s ELSE status[j]
                           /\ token'[j] = IF j \in S THEN NoToken ELSE token[j]
    BY SetStatusType
  <1>2. attempts' \in [Jobs -> 0..MaxAttempts] /\ \A j \in Jobs : j \notin S => attempts'[j] = attempts[j]
    OBVIOUS
  <1>3. task' \in [Workers -> Task] /\ broker' \subseteq Jobs
    BY TaskType, IdleType DEF LeaseTypeOK, Return
  <1>4. LeaseTypeOK'
    BY <1>1, <1>2, <1>3 DEF LeaseTypeOK, Task
  <1>5. Leased' /\ \A j \in Jobs : status'[j] = "none" <=> j > inserted'
    BY SetStatusLeases
  <1>6. LeaseNumbered'
    BY <1>1, <1>2, <1>5 DEF LeaseNumbered
  <1>7. \A j \in Jobs : token'[j] = NoToken \/ (token'[j] = token[j] /\ attempts'[j] = attempts[j])
    BY <1>1, <1>2
  <1>8. Claims'
    <2>1. CASE UNCHANGED <<task, broker>>
      BY <1>7, <2>1, RevokeClaims
    <2>2. ASSUME NEW w \in Workers, Return(w) PROVE Claims'
      <3>1. task' = [task EXCEPT ![w] = IdleTask] /\ Continues(w, IdleTask)
        BY <2>2, IdleType DEF Return, Continues
      <3>2. QED
        BY <1>7, <3>1, TaskClaims
    <2>3. QED
      BY <2>1, <2>2
  <1>9. QED
    BY <1>1, <1>4, <1>5, <1>6, <1>8

-----------------------------------------------------------------------------
(* The claim: the token is new, so nobody else's claim matches it.           *)
LEMMA ClaimLeases ==
  ASSUME LeaseInvariant, NEW w \in Workers, Claim(w), ~GiveUp(w)
  PROVE  LET j == task[w].job IN
         /\ LeaseInvariant' /\ j \in Jobs /\ Claimable(j) /\ status[j] \in Active
         /\ attempts[j] < MaxAttempts /\ attempts' = [attempts EXCEPT ![j] = @ + 1]
         /\ \A i \in Jobs : status'[i] = IF i = j THEN "running" ELSE status[i]
         /\ \A i \in Jobs : token'[i] = IF i = j THEN lastToken + 1 ELSE token[i]
         /\ \A v \in Workers : v # w => task'[v] = task[v]
         /\ task'[w].pc = "started" /\ task'[w].token = lastToken + 1 /\ task'[w].job = j
         /\ UNCHANGED <<inserted, current, waiting, queueVars, faults>>
  <1> USE DEF LeaseInvariant, queueVars, loopVars
  <1> DEFINE j == task[w].job
             k == lastToken + 1
             a == attempts[j] + 1
             t == [task[w] EXCEPT !.pc = "started", !.token = k, !.attempt = a]
  <1>1. /\ lastToken' = k /\ status' = [status EXCEPT ![j] = "running"]
        /\ attempts' = [attempts EXCEPT ![j] = @ + 1] /\ token' = [token EXCEPT ![j] = k]
        /\ lease' = [lease EXCEPT ![j] = "live"] /\ task' = [task EXCEPT ![w] = t]
        /\ UNCHANGED <<inserted, current, waiting, queueVars, faults>> /\ Claimable(j)
    BY DEF Claim
  <1>2. j \in current /\ j \in Jobs /\ attempts[j] < MaxAttempts /\ status[j] \in Active
    BY <1>1 DEF Claimable, LeaseTypeOK
  <1>3. task[w] \in Task /\ lastToken \in Nat /\ attempts[j] \in 0..MaxAttempts
    BY <1>2, TaskType DEF LeaseTypeOK
  <1>4. k \in Nat /\ a \in 0..MaxAttempts /\ k > lastToken
    BY <1>2, <1>3, LeaseBounds
  <1>5. t \in Task /\ t.pc = "started" /\ t.job = j /\ t.token = k /\ t.attempt = a
    <2> HIDE DEF k, a
    <2>1. QED
      BY <1>3, <1>4 DEF Task
  <1>6. /\ \A i \in Jobs : /\ status'[i] = IF i = j THEN "running" ELSE status[i]
                           /\ attempts'[i] = IF i = j THEN a ELSE attempts[i]
                           /\ token'[i] = IF i = j THEN k ELSE token[i]
                           /\ lease'[i] = IF i = j THEN "live" ELSE lease[i]
        /\ \A v \in Workers : task'[v] = IF v = w THEN t ELSE task[v]
    BY <1>1, <1>2 DEF LeaseTypeOK
  <1> HIDE DEF t
  <1>7. LeaseTypeOK'
    BY <1>1, <1>2, <1>3, <1>4, <1>5, TaskType DEF LeaseTypeOK, Task
  <1>8. LeaseNumbered' /\ Leased'
    BY <1>1, <1>2, <1>3, <1>4, <1>6 DEF LeaseNumbered, Leased, LeaseTypeOK
  <1>9. Claims'
    <2>1. j <= inserted /\ j \in Nat /\ inserted \in Nat
      <3>0. inserted \in Nat
        BY LeaseBounds DEF LeaseTypeOK
      <3>1. j \in Nat /\ inserted \in Nat
        BY <1>2, <3>0, LeaseBounds
      <3>2. ~(j > inserted)
        BY <1>2 DEF LeaseNumbered
      <3>3. QED
        BY <3>1, <3>2
    <2>2. \A v \in Workers : task[v].token \in Nat /\ task[v].token # k
      BY <1>3, <1>4, TaskType DEF Claims, Task
    <2>3. \A i \in Jobs : token[i] \in Nat /\ token[i] # k
      BY <1>3, <1>4 DEF Leased, LeaseTypeOK
    <2> HIDE DEF k, a
    <2>4. \A v \in Workers : task'[v].token # NoToken =>
             /\ task'[v].job <= inserted'
             /\ \A u \in Workers : task'[u].token = task'[v].token => u = v
      BY <1>1, <1>5, <1>6, <2>1, <2>2 DEF Claims
    <2>5. \A v \in Workers : task'[v].token <= lastToken'
      BY <1>1, <1>3, <1>4, <1>5, <1>6, <2>2 DEF Claims
    <2>6. QED
      BY <1>1, <1>2, <1>3, <1>4, <1>5, <1>6, <2>2, <2>3, <2>4, <2>5 DEF Claims
  <1>10. QED
    BY <1>1, <1>2, <1>5, <1>6, <1>7, <1>8, <1>9

(* A worker's message, or the death of the worker: it has no claim.          *)
LEMMA VoidLeases ==
  ASSUME LeaseInvariant, NEW w \in Workers, Crash(w) \/ GiveUp(w) \/ \E j \in Jobs : Deliver(w, j)
  PROVE  /\ LeaseInvariant' /\ UNCHANGED rowVars
         /\ \A v \in Workers : v # w => task'[v] = task[v]
         /\ task'[w].pc \in {"idle", "claim"}
  <1> USE DEF LeaseInvariant, rowVars, loopVars
  <1>1. PICK t \in Task : /\ task' = [task EXCEPT ![w] = t] /\ t.token = NoToken
                          /\ t.pc \in {"idle", "claim"} /\ (t.pc # "idle" => t.job \in Jobs)
    <2>1. ASSUME NEW j \in Jobs, Deliver(w, j)
          PROVE  \E t \in Task : /\ task' = [task EXCEPT ![w] = t] /\ t.token = NoToken
                                 /\ t.pc \in {"idle", "claim"} /\ (t.pc # "idle" => t.job \in Jobs)
      <3> DEFINE t == [IdleTask EXCEPT !.pc = "claim", !.job = j]
      <3>1. t \in [pc : {"claim"}, job : {j}, token : {NoToken}, attempt : {0}]
        BY DEF IdleTask
      <3>2. task' = [task EXCEPT ![w] = t]
        BY <2>1 DEF Deliver
      <3> HIDE DEF t
      <3>3. t \in Task /\ t.job = j /\ t.token = NoToken /\ t.pc = "claim"
        BY <3>1, LeaseBounds DEF Task
      <3>4. QED
        BY <3>2, <3>3
    <2>2. QED
      BY <2>1, IdleType DEF Crash, GiveUp, Return
  <1>2. broker' \subseteq Jobs /\ faults' \in Nat
    <2>1. CASE Crash(w)
      <3>1. task[w].job \in Jobs /\ broker \subseteq Jobs /\ faults \in Nat
        BY <2>1 DEF Crash, LeaseTypeOK, Claims
      <3>2. QED
        BY <2>1, <3>1 DEF Crash
    <2>2. CASE GiveUp(w) \/ \E j \in Jobs : Deliver(w, j)
      BY <2>2 DEF Deliver, GiveUp, Return, queueVars, LeaseTypeOK
    <2>3. QED
      BY <2>1, <2>2
  <1>3. UNCHANGED <<rowVars, dispatched, batch, sent, turn, lastToken>>
    BY DEF Crash, Deliver, GiveUp, queueVars
  <1>4. LeaseTypeOK'
    BY <1>1, <1>2, <1>3, TaskType DEF LeaseTypeOK, Task
  <1>5. Claims'
    BY <1>1, <1>3, TaskClaims DEF Continues
  <1>6. QED
    BY <1>1, <1>3, <1>4, <1>5 DEF LeaseNumbered, Leased, LeaseTypeOK

(* A worker goes on to another step of its work.                             *)
LEMMA ProceedLeases ==
  ASSUME LeaseInvariant, NEW w \in Workers, task[w].pc \notin {"idle", "claim"},
         NEW pc \in Steps \ {"idle", "claim"}, Proceed(w, pc)
  PROVE  /\ LeaseInvariant' /\ UNCHANGED rowVars
         /\ \A v \in Workers : v # w => task'[v] = task[v]
         /\ task'[w].pc = pc /\ task'[w].job = task[w].job /\ task'[w].token = task[w].token
         /\ task'[w].attempt = task[w].attempt
  <1> USE DEF LeaseInvariant, rowVars, queueVars, loopVars
  <1> DEFINE t == [task[w] EXCEPT !.pc = pc]
  <1>1. task' = [task EXCEPT ![w] = t] /\ UNCHANGED <<rowVars, queueVars, lastToken, faults>>
    BY DEF Proceed, Goto
  <1>2. /\ t \in Task /\ t.pc = pc /\ t.job = task[w].job /\ t.token = task[w].token
        /\ t.attempt = task[w].attempt
    <2>1. task[w] \in Task /\ pc \in Steps
      BY TaskType
    <2> HIDE DEF Steps
    <2>2. QED
      BY <2>1, StepTask
  <1> HIDE DEF t
  <1>3. LeaseTypeOK'
    BY <1>1, <1>2, TaskType DEF LeaseTypeOK, Task
  <1>4. Claims'
    BY <1>1, <1>2, TaskClaims DEF Continues
  <1>5. QED
    BY <1>1, <1>2, <1>3, <1>4, TaskType DEF LeaseNumbered, Leased, LeaseTypeOK

(* A step that moves no row, apart from a lease that runs out.               *)
LEMMA QuietLeases ==
  ASSUME LeaseInvariant, LeaseTypeOK', UNCHANGED <<inserted, status, attempts, token, current,
                                                   lastToken, task>>,
         \A j \in Jobs : lease'[j] = "none" <=> lease[j] = "none"
  PROVE  LeaseInvariant'
  BY DEF LeaseInvariant, LeaseNumbered, Leased, Claims

-----------------------------------------------------------------------------
(* Time, the dispatcher and the faults.                                     *)

(* The sweep fails what was lost and leaves the other rows alone.            *)
LEMMA SweepLeases ==
  ASSUME LeaseInvariant, NEW T, Len(T) \in Nat \ {0}, Sweep(T)
  PROVE  /\ LeaseInvariant' /\ UNCHANGED <<inserted, attempts, current, task>>
         /\ SetStatus(Lost \cap T[turn], "failed")
         /\ \A j \in Jobs : status'[j] = status[j] \/ (status[j] = "running" /\ status'[j] = "failed")
         /\ \A j \in Jobs : token'[j] = NoToken \/ token'[j] = token[j]
  <1> DEFINE S == Lost \cap T[turn]
  <1>1. SetStatus(S, "failed") /\ S \in SUBSET Jobs /\ \A j \in S : status[j] = "running"
    BY DEF Sweep, Lost
  <1>2. turn' \in Nat \ {0}
    BY DEF Sweep, LeaseInvariant, LeaseTypeOK
  <1>3. batch' \subseteq Jobs
    <2>1. Eligible \subseteq Jobs
      BY DEF Eligible, LeaseInvariant, LeaseTypeOK
    <2>2. QED
      BY <2>1 DEF Sweep
  <1>4. /\ UNCHANGED <<inserted, attempts, current, waiting, dispatched, lastToken, task, broker,
                       faults>>
        /\ sent' \in Jobs \cup {NoJob} /\ attempts' \in [Jobs -> 0..MaxAttempts]
    BY DEF Sweep, LeaseInvariant, LeaseTypeOK
  <1> HIDE DEF S
  <1>5. /\ LeaseInvariant'
        /\ \A j \in Jobs : status'[j] = IF j \in S THEN "failed" ELSE status[j]
        /\ \A j \in Jobs : token'[j] = IF j \in S THEN NoToken ELSE token[j]
    BY <1>1, <1>2, <1>3, <1>4, FreeLeases
  <1>6. QED
    BY <1>1, <1>4, <1>5 DEF S

(* What the rest of the dispatcher, time and a lost message leave alone.      *)
LEMMA ClockLeases ==
  ASSUME LeaseInvariant,
         \/ PublishMessage \/ MarkDispatched \/ AbortCycle
         \/ \E j \in Jobs : Clock(j) \/ LoseMessage(j)
  PROVE  LeaseInvariant' /\ UNCHANGED <<inserted, status, attempts, token, current, task>>
  <1> USE DEF LeaseInvariant, LeaseTypeOK, rowVars, queueVars, loopVars
  <1>1. CASE PublishMessage
    <2>1. PICK j \in batch :
            /\ sent = NoJob /\ batch' = batch \ {j} /\ UNCHANGED <<dispatched, turn>>
            /\ \/ broker' = broker \cup {j} /\ sent' = j /\ UNCHANGED faults
               \/ faults' = faults + 1 /\ UNCHANGED <<broker, sent>>
      BY <1>1 DEF PublishMessage
    <2>2. UNCHANGED <<rowVars, lastToken, task>>
      BY <1>1 DEF PublishMessage
    <2>3. j \in Jobs /\ batch' \subseteq Jobs /\ broker' \subseteq Jobs
      BY <2>1
    <2>4. sent' \in Jobs \cup {NoJob} /\ faults' \in Nat
      BY <2>1, <2>3
    <2>5. LeaseTypeOK'
      BY <2>1, <2>2, <2>3, <2>4
    <2>6. QED
      BY <2>2, <2>5, QuietLeases
  <1>2. CASE MarkDispatched
    <2>1. LeaseTypeOK'
      BY <1>2 DEF MarkDispatched
    <2>2. QED
      BY <1>2, <2>1, QuietLeases DEF MarkDispatched
  <1>3. CASE AbortCycle
    <2>1. LeaseTypeOK'
      BY <1>3 DEF AbortCycle
    <2>2. QED
      BY <1>3, <2>1, QuietLeases DEF AbortCycle
  <1>4. ASSUME NEW j \in Jobs, BackoffEnds(j) \/ RedispatchDue(j) \/ LoseMessage(j)
        PROVE  LeaseInvariant' /\ UNCHANGED <<inserted, status, attempts, token, current, task>>
    <2>1. LeaseTypeOK'
      BY <1>4 DEF BackoffEnds, RedispatchDue, LoseMessage
    <2>2. QED
      BY <1>4, <2>1, QuietLeases DEF BackoffEnds, RedispatchDue, LoseMessage
  <1>5. ASSUME NEW j \in Jobs, LeaseExpires(j)
        PROVE  LeaseInvariant' /\ UNCHANGED <<inserted, status, attempts, token, current, task>>
    <2>1. LeaseTypeOK'
      BY <1>5 DEF LeaseExpires
    <2>2. QED
      BY <1>5, <2>1, QuietLeases DEF LeaseExpires
  <1>6. QED
    BY <1>1, <1>2, <1>3, <1>4, <1>5 DEF Clock

(* What scheduling may do to rows and claims, for the modules that extend     *)
(* JobLeases: a job fails or is claimed, and a worker owns what it owned in   *)
(* the step it was in, or what it just claimed.                             *)
LEMMA SchedulingEffect ==
  ASSUME LeaseInvariant, NEW T, Len(T) \in Nat \ {0}, Scheduling(T)
  PROVE  /\ LeaseInvariant' /\ UNCHANGED <<inserted, current>>
         /\ \A j \in Jobs : \/ status'[j] = status[j] /\ attempts'[j] = attempts[j]
                            \/ status[j] = "running" /\ status'[j] = "failed"
                            \/ status[j] \in Active /\ status'[j] = "running"
         /\ \A w \in Workers :
              /\ task'[w] = task[w] \/ task'[w].pc \in {"idle", "claim", "started"}
              /\ task'[w].pc = "started" \/ ~Owns(w)' \/ Owns(w)
  <1> USE DEF LeaseInvariant, rowVars, queueVars, loopVars
  <1>1. CASE Sweep(T)
    <2>1. /\ LeaseInvariant' /\ UNCHANGED <<inserted, attempts, current, task>>
          /\ \A j \in Jobs : status'[j] = status[j] \/ (status[j] = "running" /\ status'[j] = "failed")
          /\ \A j \in Jobs : token'[j] = NoToken \/ token'[j] = token[j]
      BY <1>1, SweepLeases
    <2>2. QED
      BY <2>1 DEF Owns, Claims
  <1>2. CASE \/ PublishMessage \/ MarkDispatched \/ AbortCycle
             \/ \E j \in Jobs : Clock(j) \/ LoseMessage(j)
    BY <1>2, ClockLeases DEF Owns
  <1>3. ASSUME NEW w \in Workers, Crash(w) \/ GiveUp(w) \/ \E j \in Jobs : Deliver(w, j)
        PROVE  /\ LeaseInvariant' /\ UNCHANGED rowVars
               /\ \A v \in Workers :
                    /\ task'[v] = task[v] \/ task'[v].pc \in {"idle", "claim", "started"}
                    /\ ~Owns(v)' \/ Owns(v)
    BY <1>3, VoidLeases DEF Owns
  <1>4. ASSUME NEW w \in Workers, Claim(w), ~GiveUp(w)
        PROVE  /\ LeaseInvariant' /\ UNCHANGED <<inserted, current>>
               /\ \A j \in Jobs : \/ status'[j] = status[j] /\ attempts'[j] = attempts[j]
                                  \/ status[j] \in Active /\ status'[j] = "running"
               /\ \A v \in Workers :
                    /\ task'[v] = task[v] \/ task'[v].pc \in {"idle", "claim", "started"}
                    /\ task'[v].pc = "started" \/ ~Owns(v)' \/ Owns(v)
    <2> DEFINE j == task[w].job
    <2>1. /\ LeaseInvariant' /\ j \in Jobs /\ status[j] \in Active
          /\ attempts' = [attempts EXCEPT ![j] = @ + 1]
          /\ \A i \in Jobs : status'[i] = IF i = j THEN "running" ELSE status[i]
          /\ \A i \in Jobs : token'[i] = IF i = j THEN lastToken + 1 ELSE token[i]
          /\ \A v \in Workers : v # w => task'[v] = task[v]
          /\ task'[w].pc = "started" /\ UNCHANGED <<inserted, current>>
      BY <1>4, ClaimLeases
    <2>2. ASSUME NEW v \in Workers, v # w, Owns(v)' PROVE Owns(v)
      <3>1. task[v].pc \notin {"idle", "claim"} /\ task[v].job \in Jobs /\ task[v].token <= lastToken
        BY <2>1, <2>2 DEF Owns, Claims
      <3>2. task[v].token # lastToken + 1
        BY <3>1, TaskType DEF LeaseTypeOK, Task
      <3>3. QED
        BY <2>1, <2>2, <3>1, <3>2 DEF Owns
    <2>3. QED
      BY <2>1, <2>2 DEF LeaseTypeOK
  <1>5. QED
    BY <1>1, <1>2, <1>3, <1>4 DEF Scheduling, Dispatcher

-----------------------------------------------------------------------------
(* Preparations.                                                            *)

(* States of a preparation that may still be, or is, ready for searches.      *)
Useful == Active \cup {"completed"}

(* The newest request is the current one, and only it is worked on.          *)
Currency ==
  /\ \A i, j \in current : i = j
  /\ \A j \in current : status[j] \in Rows
  /\ \A j \in Jobs : status[j] \in Active => j \in current
  /\ \A j \in Jobs : status[j] = "queued" => attempts[j] < MaxAttempts

(* A source is prepared once in a mode.                                     *)
OneUseful ==
  \A i, j \in Jobs :
    i # j /\ status[i] \in Useful /\ status[j] \in Useful => source[i] # source[j] \/ mode[i] # mode[j]

(* A number without a row has spent nothing.                                *)
Fresh == \A j \in Jobs : status[j] = "none" => reserved[j] = 0 /\ stored[j] = 0

(* Who is about to pay, or has paid, works for a hybrid preparation.         *)
Payers ==
  \A w \in Workers : task[w].pc \in {"embedding", "storing"} => Hybrid(task[w].job)

(* The owner of a claim knows what is left to do.                           *)
Remaining ==
  \A w \in Workers :
    Owns(w) /\ task[w].pc \in {"loaded", "batching", "embedding", "storing"}
      => todo[w] = Chunks \ Done(task[w].job)

(* A completed preparation has all the documents.                           *)
Whole == \A j \in Jobs : status[j] = "completed" => Done(j) = Chunks

(* Texts that are reserved but not sent yet, by workers and by chunks.       *)
InFlight(j) ==
  {p \in Workers \X Chunks : /\ task[p[1]].pc = "embedding" /\ task[p[1]].job = j
                             /\ p[2] \in Batch(p[1])}

(* What is sent was reserved, by whichever worker; what the owner of the job   *)
(* has sent and not stored is not in the counter yet.                       *)
Reserved ==
  \A j \in Jobs :
    /\ embedded[j] + Cardinality(InFlight(j)) <= reserved[j]
    /\ reserved[j] <= budget[j] /\ usage[j] <= embedded[j]

Unpaid ==
  \A w \in Workers : Owns(w) /\ task[w].pc = "storing"
    => usage[task[w].job] + Cardinality(Batch(w)) <= embedded[task[w].job]

(* The documents of a preparation are counted.                              *)
Finite == \A j \in Jobs : IsFiniteSet(documents[j])

Invariant ==
  /\ TypeOK /\ LeaseInvariant /\ Currency /\ OneUseful /\ Fresh /\ Payers /\ Remaining /\ Whole
  /\ Reserved /\ Unpaid /\ Finite /\ LedgerMatchesDocuments

-----------------------------------------------------------------------------
(* Facts about the constants and the helpers.                              *)

LEMMA Bounds ==
  /\ ChunkCount \in Nat /\ BatchSize \in Nat /\ BatchSize > 0 /\ Budgets \subseteq Nat
  /\ IsFiniteSet(Workers) /\ IsFiniteSet(Chunks)
  BY PreparationBounds, FS_Interval DEF PreparationBounds, Chunks

(* A batch is a finite part of what is left.                                *)
LEMMA BatchFacts ==
  ASSUME TypeOK, NEW w \in Workers
  PROVE  /\ Batch(w) \in SUBSET todo[w] /\ Batch(w) \in SUBSET Chunks
         /\ IsFiniteSet(Batch(w)) /\ Cardinality(Batch(w)) \in Nat
  <1>1. Batch(w) \in SUBSET todo[w] /\ Batch(w) \in SUBSET Chunks
    BY DEF Batch, TypeOK
  <1>2. QED
    BY <1>1, Bounds, FS_Subset, FS_CardinalityType

(* The texts in flight can be counted.                                      *)
LEMMA FlightFacts ==
  ASSUME NEW j \in Jobs
  PROVE  IsFiniteSet(InFlight(j)) /\ Cardinality(InFlight(j)) \in Nat
  <1>1. IsFiniteSet(Workers \X Chunks) /\ InFlight(j) \in SUBSET (Workers \X Chunks)
    BY Bounds, FS_Product DEF InFlight
  <1>2. QED
    BY <1>1, FS_Subset, FS_CardinalityType

(* A batch of one worker in flight.                                         *)
LEMMA FlightOfBatch ==
  ASSUME NEW w, NEW B, IsFiniteSet(B)
  PROVE  IsFiniteSet({w} \X B) /\ Cardinality({w} \X B) = Cardinality(B)
  <1>1. IsFiniteSet({w}) /\ Cardinality({w}) = 1
    BY FS_Singleton
  <1>2. Cardinality(B) \in Nat
    BY FS_CardinalityType
  <1>3. IsFiniteSet({w} \X B) /\ Cardinality({w} \X B) = 1 * Cardinality(B)
    BY <1>1, FS_Product
  <1>4. QED
    BY <1>2, <1>3

(* Nothing new is in flight if no worker starts to embed.                    *)
LEMMA FlightShrinks ==
  ASSUME NEW j \in Jobs,
         \A w \in Workers : task'[w].pc = "embedding" => task'[w] = task[w] /\ todo'[w] = todo[w]
  PROVE  /\ Cardinality(InFlight(j)') \in Nat
         /\ Cardinality(InFlight(j)') <= Cardinality(InFlight(j))
  <1>1. InFlight(j)' \in SUBSET InFlight(j)
    BY DEF InFlight, Batch
  <1>2. QED
    BY <1>1, FlightFacts, FS_Subset, FS_CardinalityType

(* Nothing is spent or stored at first.                                     *)
LEMMA InitInvariant == Init => Invariant
  <1> SUFFICES ASSUME Init PROVE Invariant
    OBVIOUS
  <1>1. LeaseInvariant
    BY InitLeaseInvariant DEF Init
  <1>2. /\ \A j \in Jobs : status[j] = "none" /\ documents[j] = {} /\ Done(j) = {}
        /\ \A w \in Workers : task[w].pc = "idle"
        /\ current = {}
    BY DEF Init, InitLeases, IdleTask, Done
  <1>3. TypeOK
    BY <1>1 DEF Init, TypeOK, LeaseInvariant
  <1>4. Currency /\ OneUseful /\ Fresh /\ Payers /\ Remaining /\ Whole /\ Unpaid
    BY <1>2 DEF Init, Currency, OneUseful, Useful, Fresh, Payers, Remaining, Whole, Unpaid
  <1>5. Finite /\ LedgerMatchesDocuments
    BY <1>2, FS_EmptySet DEF Init, Finite, LedgerMatchesDocuments
  <1>6. Reserved
    <2>1. \A j \in Jobs : InFlight(j) = {}
      BY <1>2 DEF InFlight
    <2>2. QED
      BY <2>1, FS_EmptySet DEF Init, Reserved
  <1>7. QED
    BY <1>1, <1>3, <1>4, <1>5, <1>6 DEF Invariant

-----------------------------------------------------------------------------
(* Steps.                                                                  *)

(* What the ledgers and the claims need of a step that pays for nothing and    *)
(* stores nothing.                                                         *)
LEMMA QuietLedgers ==
  ASSUME Invariant, UNCHANGED <<mode, reserved, usage, stored, documents, embedded>>,
         \A j \in Jobs : budget'[j] \in Nat /\ budget'[j] >= budget[j],
         \A j \in Jobs : status'[j] \in {"none", "deleted"} <=> status[j] \in {"none", "deleted"},
         \A j \in Jobs : status'[j] = "none" <=> status[j] = "none",
         \A w \in Workers : task'[w].pc \in {"embedding", "storing"}
                              => task'[w] = task[w] /\ todo'[w] = todo[w],
         \A w \in Workers : Owns(w)' /\ task'[w].pc = "storing" => Owns(w)
  PROVE  Fresh' /\ Payers' /\ Reserved' /\ Unpaid' /\ Finite' /\ LedgerMatchesDocuments'
  <1> USE DEF Invariant
  <1>1. Fresh' /\ Payers' /\ Finite'
    BY DEF Fresh, Payers, Finite, Hybrid
  <1>2. ASSUME NEW j \in Jobs
        PROVE  /\ embedded'[j] + Cardinality(InFlight(j)') <= reserved'[j]
               /\ reserved'[j] <= budget'[j] /\ usage'[j] <= embedded'[j]
    <2>1. /\ Cardinality(InFlight(j)') \in Nat
          /\ Cardinality(InFlight(j)') <= Cardinality(InFlight(j))
      BY FlightShrinks
    <2>2. Cardinality(InFlight(j)) \in Nat
      BY FlightFacts
    <2>3. QED
      BY <2>1, <2>2 DEF Reserved, TypeOK
  <1>3. Reserved'
    BY <1>2 DEF Reserved
  <1>4. Unpaid'
    BY DEF Unpaid, Batch
  <1>5. LedgerMatchesDocuments'
    BY DEF LedgerMatchesDocuments, Done, Hybrid
  <1>6. QED
    BY <1>1, <1>3, <1>4, <1>5

(* A step that only moves jobs and workers.                                 *)
LEMMA QuietStep ==
  ASSUME Invariant, LeaseInvariant', repository' \in {"live", "deleted"},
         generation' \in Nat, resumes' \in Nat, todo' \in [Workers -> SUBSET Chunks],
         UNCHANGED <<current, mode, source, reserved, usage, stored, budget, documents, embedded>>,
         \A j \in Jobs :
           \/ status'[j] = status[j] /\ attempts'[j] = attempts[j]
           \/ status[j] \in Active /\ status'[j] \in {"running", "failed", "cancelled"}
           \/ status[j] = "running" /\ status'[j] = "completed" /\ Done(j) = Chunks,
         \A w \in Workers : task'[w].pc \in {"embedding", "storing"}
                              => task'[w] = task[w] /\ todo'[w] = todo[w],
         \A w \in Workers : Owns(w)' /\ task'[w].pc = "storing" => Owns(w),
         \A w \in Workers : Owns(w)' /\ task'[w].pc \in {"loaded", "batching", "embedding", "storing"}
                              => todo'[w] = Chunks \ Done(task'[w].job)
  PROVE  Invariant'
  <1> USE DEF Invariant
  <1>1. TypeOK'
    BY DEF TypeOK, LeaseInvariant
  <1>2. Currency' /\ OneUseful'
    <2>1. \A j \in Jobs : /\ status'[j] \in Active => status[j] \in Active
                          /\ status'[j] \in Useful => status[j] \in Useful
                          /\ status[j] \in Rows => status'[j] \in Rows
                          /\ status'[j] = "queued" => status[j] = "queued" /\ attempts'[j] = attempts[j]
      BY DEF Useful
    <2>2. Currency'
      BY <2>1 DEF Currency, TypeOK, LeaseTypeOK
    <2>3. OneUseful'
      BY <2>1 DEF OneUseful
    <2>4. QED
      BY <2>2, <2>3
  <1>3. Fresh' /\ Payers' /\ Reserved' /\ Unpaid' /\ Finite' /\ LedgerMatchesDocuments'
    <2>1. \A j \in Jobs : budget'[j] \in Nat /\ budget'[j] >= budget[j]
      BY DEF TypeOK
    <2>2. QED
      BY <2>1, QuietLedgers
  <1>4. Remaining' /\ Whole'
    BY DEF Remaining, Whole, Done
  <1>5. QED
    BY <1>1, <1>2, <1>3, <1>4

-----------------------------------------------------------------------------
(* Requests.                                                               *)

LEMMA ReindexStep == ASSUME Invariant, Reindex PROVE Invariant'
  <1> USE DEF Invariant, leaseVars, rowVars
  <1>1. UNCHANGED <<status, attempts, current, token, task, todo, documents>>
    BY DEF Reindex
  <1>2. LeaseInvariant'
    BY DEF Reindex, LeaseInvariant, LeaseTypeOK, LeaseNumbered, Leased, Claims, queueVars, loopVars
  <1>3. generation' \in Nat /\ todo' \in [Workers -> SUBSET Chunks] /\ repository' \in {"live", "deleted"}
    BY <1>1 DEF Reindex, TypeOK
  <1>4. \A w \in Workers : Owns(w)' <=> Owns(w)
    BY <1>1 DEF Owns
  <1>5. \A w \in Workers : Owns(w) /\ task[w].pc \in {"loaded", "batching", "embedding", "storing"}
                             => todo'[w] = Chunks \ Done(task'[w].job)
    BY <1>1 DEF Remaining
  <1>6. resumes' \in Nat /\ UNCHANGED <<mode, source, reserved, usage, stored, budget, embedded>>
    BY DEF Reindex, TypeOK
  <1>7. QED
    BY <1>1, <1>2, <1>3, <1>4, <1>5, <1>6, QuietStep

(* Neither kind of start finds an active job, nor one that is ready.          *)
LEMMA StartableFacts ==
  ASSUME Invariant, NEW m \in Modes, Startable(m), NEW i \in Jobs, status[i] \in Useful,
         source[i] = generation
  PROVE  mode[i] # m
  <1>1. status[i] \notin Active
    BY DEF Startable, Invariant, Currency
  <1>2. status[i] = "completed"
    BY <1>1 DEF Useful
  <1>3. QED
    BY <1>2 DEF Startable, Ready

LEMMA StartNewStep ==
  ASSUME Invariant, NEW m \in Modes, NEW b \in Budgets, StartNew(m, b) PROVE Invariant'
  <1> USE DEF Invariant
  <1>0. PICK i \in Jobs : i = inserted + 1
    BY InsertLeases, current \in SUBSET Jobs DEF StartNew, TypeOK, LeaseTypeOK
  <1>1. /\ LeaseInvariant' /\ status[i] = "none" /\ i \notin current /\ attempts[i] = 0
        /\ \A j \in Jobs : status'[j] = IF j = i THEN "queued" ELSE status[j]
    BY <1>0, InsertLeases, current \in SUBSET Jobs DEF StartNew, TypeOK, LeaseTypeOK
  <1>2. /\ current' = {i} /\ UNCHANGED <<attempts, token, task>>
        /\ mode' = [mode EXCEPT ![i] = m] /\ source' = [source EXCEPT ![i] = generation]
        /\ budget' = [budget EXCEPT ![i] = b]
        /\ UNCHANGED <<repository, generation, resumes, reserved, usage, stored, documents,
                       embedded, todo>>
    BY <1>0 DEF StartNew, Insert
  <1>3. b \in Nat
    BY Bounds
  <1>4. TypeOK'
    BY <1>1, <1>2, <1>3 DEF TypeOK, LeaseInvariant
  <1>5. /\ \A j \in Jobs : mode'[j] = IF j = i THEN m ELSE mode[j]
        /\ \A j \in Jobs : source'[j] = IF j = i THEN generation ELSE source[j]
        /\ \A j \in Jobs : budget'[j] = IF j = i THEN b ELSE budget[j]
    BY <1>2 DEF TypeOK
  <1>6. Currency'
    <2>1. \A j \in Jobs : status[j] \notin Active
      BY DEF StartNew, Startable, Currency
    <2>2. MaxAttempts > 0
      BY LeaseBounds
    <2>3. QED
      BY <1>1, <1>2, <2>1, <2>2 DEF Currency
  <1>7. OneUseful'
    <2>1. \A j \in Jobs : status[j] \in Useful /\ source[j] = generation => mode[j] # m
      BY StartableFacts DEF StartNew
    <2>2. QED
      BY <1>1, <1>5, <2>1 DEF OneUseful
  <1>8. \A w \in Workers : task[w].pc \notin {"idle", "claim"} => task[w].job \in Jobs \ {i}
    BY <1>0, LeaseBounds DEF LeaseInvariant, Claims, LeaseTypeOK
  <1>9. \A w \in Workers : Owns(w)' <=> Owns(w)
    BY <1>2 DEF Owns
  <1>10. Fresh' /\ Payers' /\ Remaining' /\ Whole' /\ Finite' /\ Unpaid'
    BY <1>1, <1>2, <1>5, <1>8, <1>9
       DEF Fresh, Payers, Remaining, Whole, Finite, Unpaid, Hybrid, Done, Batch, Owns
  <1>11. reserved[i] = 0 /\ stored[i] = 0 /\ usage[i] = 0
    BY <1>1 DEF Fresh, LedgerMatchesDocuments
  <1>12. Reserved'
    <2>1. ASSUME NEW j \in Jobs
          PROVE  Cardinality(InFlight(j)') \in Nat /\ Cardinality(InFlight(j)') <= Cardinality(InFlight(j))
      BY <1>2, FlightShrinks
    <2>2. \A j \in Jobs : Cardinality(InFlight(j)) \in Nat
      BY FlightFacts
    <2>3. ASSUME NEW j \in Jobs
          PROVE  /\ embedded'[j] + Cardinality(InFlight(j)') <= reserved'[j]
                 /\ reserved'[j] <= budget'[j] /\ usage'[j] <= embedded'[j]
      BY <1>2, <1>3, <1>5, <1>11, <2>1, <2>2 DEF Reserved, TypeOK
    <2>4. QED
      BY <2>3 DEF Reserved
  <1>13. LedgerMatchesDocuments'
    BY <1>1, <1>2, <1>5, <1>11, SMTT(30) DEF LedgerMatchesDocuments, Done, Hybrid
  <1>14. QED
    BY <1>1, <1>4, <1>6, <1>7, <1>10, <1>12, <1>13

LEMMA ResumeStep ==
  ASSUME Invariant, NEW m \in Modes, NEW b \in Budgets, Resume(m, b) PROVE Invariant'
  <1> USE DEF Invariant
  <1>1. PICK j \in Unfinished(m) :
          /\ SetStatus({j}, "queued") /\ attempts' = [attempts EXCEPT ![j] = 0]
          /\ waiting' = waiting \ {j} /\ dispatched' = dispatched \ {j}
          /\ budget' = [budget EXCEPT ![j] = IF b > @ THEN b ELSE @]
    BY DEF Resume
  <1>2. /\ UNCHANGED <<inserted, current, broker, batch, sent, turn, lastToken, task, faults>>
        /\ UNCHANGED <<repository, generation, mode, source, reserved, usage, stored, documents,
                       embedded, todo>>
        /\ resumes' = resumes + 1 /\ Startable(m)
    BY DEF Resume, loopVars
  <1>3. /\ j \in current /\ j \in Jobs /\ source[j] = generation /\ mode[j] = m
        /\ status[j] \in Rows \ Active
    <2>1. j \in current /\ j \in Jobs /\ source[j] = generation /\ mode[j] = m
      BY DEF Unfinished, TypeOK, LeaseTypeOK
    <2>2. status[j] \notin Active /\ status[j] # "completed"
      BY <1>2, <2>1 DEF Startable, Ready
    <2>3. status[j] \in Rows
      BY <2>1 DEF Currency
    <2>4. QED
      BY <2>1, <2>2, <2>3
  <1>4. /\ LeaseInvariant'
        /\ \A i \in Jobs : status'[i] = IF i = j THEN "queued" ELSE status[i]
        /\ \A i \in Jobs : token'[i] = IF i = j THEN NoToken ELSE token[i]
    <2>1. /\ {j} \in SUBSET Jobs /\ batch \subseteq Jobs /\ sent \in Jobs \cup {NoJob}
          /\ turn \in Nat \ {0}
      BY <1>3 DEF TypeOK, LeaseTypeOK
    <2>2. PICK S \in SUBSET Jobs : S = {j}
      BY <2>1
    <2>3. /\ SetStatus(S, "queued") /\ \A i \in S : status[i] \in Rows
          /\ waiting' \subseteq waiting \cup S /\ dispatched' \subseteq dispatched
          /\ current' \subseteq current /\ attempts' \in [Jobs -> 0..MaxAttempts]
          /\ \A i \in Jobs \ S : attempts'[i] = attempts[i]
      BY <1>1, <1>2, <1>3, <2>2, LeaseBounds DEF TypeOK, LeaseTypeOK
    <2>4. /\ LeaseInvariant'
          /\ \A i \in Jobs : status'[i] = IF i \in S THEN "queued" ELSE status[i]
          /\ \A i \in Jobs : token'[i] = IF i \in S THEN NoToken ELSE token[i]
      BY <1>2, <2>1, <2>3, FreeLeases
    <2>5. QED
      BY <2>2, <2>4
  <1>5. \A i \in Jobs : budget'[i] \in Nat /\ budget'[i] >= budget[i]
    BY <1>1, <1>3, Bounds DEF TypeOK
  <1>6. TypeOK'
    <2>1. budget' \in [Jobs -> Nat]
      BY <1>1, <1>5 DEF TypeOK
    <2>2. QED
      BY <1>2, <1>4, <2>1 DEF TypeOK, LeaseInvariant
  <1>7. Currency'
    <2>1. \A i \in Jobs : attempts'[i] = IF i = j THEN 0 ELSE attempts[i]
      BY <1>1 DEF TypeOK, LeaseTypeOK
    <2>2. QED
      BY <1>2, <1>3, <1>4, <2>1, LeaseBounds DEF Currency
  <1>8. OneUseful'
    <2>1. \A i \in Jobs : status[i] \in Useful /\ source[i] = generation => mode[i] # m
      BY <1>2, StartableFacts
    <2>2. QED
      BY <1>2, <1>3, <1>4, <2>1 DEF OneUseful
  <1>9. \A w \in Workers : Owns(w)' => Owns(w)
    BY <1>2, <1>4 DEF Owns, LeaseInvariant, Claims
  <1>10. Fresh' /\ Payers' /\ Reserved' /\ Unpaid' /\ Finite' /\ LedgerMatchesDocuments'
    BY <1>2, <1>3, <1>4, <1>5, <1>9, QuietLedgers
  <1>11. Remaining' /\ Whole'
    BY <1>2, <1>3, <1>4, <1>9 DEF Remaining, Whole, Done
  <1>12. QED
    BY <1>4, <1>6, <1>7, <1>8, <1>10, <1>11

LEMMA CancelStep == ASSUME Invariant, Cancel PROVE Invariant'
  <1> USE DEF Invariant
  <1>1. /\ SetStatus(current, "cancelled") /\ current \in SUBSET Jobs
        /\ \A j \in current : status[j] \in Active
        /\ UNCHANGED <<inserted, attempts, current, waiting, dispatched, broker, batch, sent, turn,
                       lastToken, task, faults>>
    BY DEF Cancel, CancelJobs, Currency, TypeOK, LeaseTypeOK, queueVars, loopVars
  <1>2. /\ LeaseInvariant'
        /\ \A j \in Jobs : status'[j] = IF j \in current THEN "cancelled" ELSE status[j]
        /\ \A j \in Jobs : token'[j] = IF j \in current THEN NoToken ELSE token[j]
    <2>1. batch \subseteq Jobs /\ sent \in Jobs \cup {NoJob} /\ turn \in Nat \ {0}
          /\ attempts \in [Jobs -> 0..MaxAttempts]
      BY DEF TypeOK, LeaseTypeOK
    <2>2. QED
      BY <1>1, <2>1, FreeLeases
  <1>3. \A w \in Workers : Owns(w)' => Owns(w)
    BY <1>1, <1>2 DEF Owns, LeaseInvariant, Claims
  <1>4. UNCHANGED jobVars
    BY DEF Cancel
  <1>5. \A w \in Workers : Owns(w)' /\ task'[w].pc \in {"loaded", "batching", "embedding", "storing"}
                             => todo'[w] = Chunks \ Done(task'[w].job)
    BY <1>1, <1>3, <1>4 DEF Remaining, jobVars
  <1>6. QED
    BY <1>1, <1>2, <1>3, <1>4, <1>5, QuietStep DEF jobVars, TypeOK

LEMMA RemoveStep == ASSUME Invariant, RemoveRepository PROVE Invariant'
  <1> USE DEF Invariant
  <1>0. PICK S \in SUBSET Jobs : S = {j \in Jobs : status[j] \in Rows}
    OBVIOUS
  <1>1. /\ SetStatus(S, "deleted") /\ current' = {} /\ waiting' = {}
        /\ UNCHANGED <<inserted, attempts, dispatched, broker, batch, sent, turn, lastToken, task,
                       faults>>
        /\ documents' = [j \in Jobs |-> {}] /\ repository' = "deleted"
        /\ UNCHANGED <<generation, resumes, mode, source, reserved, usage, stored, budget, embedded,
                       todo>>
    BY <1>0 DEF RemoveRepository, DeleteAll, queueVars, loopVars
  <1>2. /\ LeaseInvariant'
        /\ \A j \in Jobs : status'[j] = IF j \in S THEN "deleted" ELSE status[j]
        /\ \A j \in Jobs : token'[j] = IF j \in S THEN NoToken ELSE token[j]
    <2>1. batch \subseteq Jobs /\ sent \in Jobs \cup {NoJob} /\ turn \in Nat \ {0}
          /\ attempts \in [Jobs -> 0..MaxAttempts]
      BY DEF TypeOK, LeaseTypeOK
    <2>2. QED
      BY <1>0, <1>1, <2>1, FreeLeases
  <1>3. \A j \in Jobs : status'[j] \in {"none", "deleted"}
    BY <1>0, <1>2 DEF TypeOK, LeaseTypeOK
  <1>4. \A w \in Workers : ~Owns(w)'
    <2>1. Leased'
      BY <1>2 DEF LeaseInvariant
    <2>2. \A j \in Jobs : token'[j] = NoToken
      BY <1>3, <2>1 DEF Leased
    <2>3. Claims'
      BY <1>2 DEF LeaseInvariant
    <2>4. QED
      BY <2>2, <2>3 DEF Owns, Claims
  <1>5. TypeOK'
    BY <1>1, <1>2 DEF TypeOK, LeaseInvariant
  <1>6. Currency' /\ OneUseful' /\ Whole' /\ Remaining' /\ Unpaid'
    BY <1>1, <1>3, <1>4 DEF Currency, OneUseful, Useful, Whole, Remaining, Unpaid
  <1>7. Fresh' /\ Payers' /\ Finite'
    BY <1>1, <1>2, FS_EmptySet DEF Fresh, Payers, Finite, Hybrid
  <1>8. Reserved'
    <2>1. \A j \in Jobs : InFlight(j)' = InFlight(j)
      BY <1>1 DEF InFlight, Batch
    <2>2. QED
      BY <1>1, <2>1 DEF Reserved
  <1>9. LedgerMatchesDocuments'
    <2>1. ASSUME NEW j \in Jobs, status'[j] # "deleted"
          PROVE  /\ documents'[j] = documents[j] /\ Done(j)' = Done(j) /\ Hybrid(j)' = Hybrid(j)
                 /\ stored'[j] = stored[j] /\ usage'[j] = usage[j] /\ status[j] # "deleted"
      <3>1. status[j] = "none"
        BY <1>2, <1>3, <2>1
      <3>2. stored[j] = 0 /\ Cardinality(documents[j]) = 0 /\ IsFiniteSet(documents[j])
        BY <3>1 DEF Fresh, LedgerMatchesDocuments, Finite
      <3>3. documents[j] = {}
        BY <3>2, FS_EmptySet
      <3>4. QED
        BY <1>1, <3>1, <3>3 DEF Done, Hybrid
    <2>2. QED
      BY <2>1 DEF LedgerMatchesDocuments
  <1>10. QED
    BY <1>2, <1>5, <1>6, <1>7, <1>8, <1>9

-----------------------------------------------------------------------------
(* Scheduling, and a worker's steps that store and pay for nothing.          *)

LEMMA SchedulingStep ==
  ASSUME Invariant, Scheduling(<<Jobs>>), UNCHANGED jobVars PROVE Invariant'
  <1> USE DEF Invariant
  <1>1. Len(<<Jobs>>) \in Nat \ {0}
    OBVIOUS
  <1>2. /\ LeaseInvariant' /\ UNCHANGED <<inserted, current>>
        /\ \A j \in Jobs : \/ status'[j] = status[j] /\ attempts'[j] = attempts[j]
                           \/ status[j] = "running" /\ status'[j] = "failed"
                           \/ status[j] \in Active /\ status'[j] = "running"
        /\ \A w \in Workers : /\ task'[w] = task[w] \/ task'[w].pc \in {"idle", "claim", "started"}
                              /\ task'[w].pc = "started" \/ ~Owns(w)' \/ Owns(w)
    BY <1>1, SchedulingEffect
  <1>3. \A w \in Workers : Owns(w)' /\ task'[w].pc \in {"loaded", "batching", "embedding", "storing"}
                             => todo'[w] = Chunks \ Done(task'[w].job)
    BY <1>2 DEF Remaining, jobVars
  <1>4. QED
    BY <1>2, <1>3, QuietStep DEF jobVars, TypeOK

(* A worker moves to a step where it neither embeds nor stores.              *)
LEMMA ProceedStep ==
  ASSUME Invariant, NEW w \in Workers, task[w].pc \notin {"idle", "claim"},
         NEW pc \in {"loaded", "batching", "failing"}, Proceed(w, pc),
         todo' \in [Workers -> SUBSET Chunks], \A v \in Workers : v # w => todo'[v] = todo[v],
         pc # "failing" /\ Owns(w) => todo'[w] = Chunks \ Done(task[w].job),
         UNCHANGED <<repository, generation, resumes, mode, source, reserved, usage, stored,
                     budget, documents, embedded>>
  PROVE  Invariant'
  <1> USE DEF Invariant
  <1>1. /\ LeaseInvariant' /\ UNCHANGED rowVars
        /\ \A v \in Workers : v # w => task'[v] = task[v]
        /\ task'[w].pc = pc /\ task'[w].job = task[w].job /\ task'[w].token = task[w].token
    BY ProceedLeases
  <1>2. UNCHANGED <<status, attempts, current, token>>
    BY <1>1 DEF rowVars
  <1>3. \A v \in Workers : Owns(v)' <=> Owns(v)
    BY <1>1, <1>2 DEF Owns
  <1>4. ASSUME NEW v \in Workers, Owns(v)',
               task'[v].pc \in {"loaded", "batching", "embedding", "storing"}
        PROVE  todo'[v] = Chunks \ Done(task'[v].job)
    BY <1>1, <1>3, <1>4 DEF Remaining
  <1>5. QED
    BY <1>1, <1>2, <1>3, <1>4, QuietStep DEF TypeOK

(* A worker that lost its job, or whose task is delivered again later.        *)
LEMMA GiveUpStep ==
  ASSUME Invariant, NEW w \in Workers, GiveUp(w), UNCHANGED jobVars PROVE Invariant'
  <1> USE DEF Invariant
  <1>1. /\ LeaseInvariant' /\ UNCHANGED rowVars
        /\ \A v \in Workers : v # w => task'[v] = task[v]
        /\ task'[w].pc \in {"idle", "claim"}
    BY VoidLeases
  <1>2. UNCHANGED <<status, attempts, current, token>>
    BY <1>1 DEF rowVars
  <1>3. \A v \in Workers : Owns(v)' => Owns(v) /\ v # w
    BY <1>1, <1>2 DEF Owns
  <1>4. ASSUME NEW v \in Workers, Owns(v)',
               task'[v].pc \in {"loaded", "batching", "embedding", "storing"}
        PROVE  todo'[v] = Chunks \ Done(task'[v].job)
    BY <1>1, <1>3, <1>4 DEF Remaining, jobVars
  <1>5. QED
    BY <1>1, <1>2, <1>3, <1>4, QuietStep DEF TypeOK, jobVars

(* The worker that holds a job is its owner.                                *)
LEMMA HeldFacts ==
  ASSUME LeaseInvariant, NEW w \in Workers, Held(w), task[w].pc \notin {"idle", "claim"}
  PROVE  task[w].job \in Jobs /\ status[task[w].job] = "running" /\ Owns(w)
  BY OwnsFacts DEF Held, Owns

(* The worker that holds its job ends it.                                   *)
LEMMA FinishStep ==
  ASSUME Invariant, NEW w \in Workers, task[w].pc \in {"batching", "failing"}, Held(w),
         NEW s \in {"completed", "failed"}, Finish(w, s), UNCHANGED jobVars,
         s = "completed" => task[w].pc = "batching" /\ todo[w] = {}
  PROVE  Invariant'
  <1> USE DEF Invariant
  <1>0. PICK j \in Jobs : j = task[w].job /\ status[j] = "running" /\ Owns(w)
    BY HeldFacts
  <1>1. PICK S \in SUBSET Jobs : S = {j}
    BY {j} \in SUBSET Jobs
  <1>2. /\ SetStatus(S, s) /\ Return(w) /\ \A i \in S : status[i] \in Rows
        /\ UNCHANGED <<inserted, attempts, current, waiting, dispatched, batch, sent, turn, lastToken,
                       faults>>
    BY <1>0, <1>1 DEF Finish, loopVars
  <1>3. /\ LeaseInvariant'
        /\ \A i \in Jobs : status'[i] = IF i \in S THEN s ELSE status[i]
        /\ \A i \in Jobs : token'[i] = IF i \in S THEN NoToken ELSE token[i]
    <2>1. /\ batch \subseteq Jobs /\ sent \in Jobs \cup {NoJob} /\ turn \in Nat \ {0}
          /\ attempts \in [Jobs -> 0..MaxAttempts]
      BY DEF TypeOK, LeaseTypeOK
    <2>2. QED
      BY <1>2, <2>1, FreeLeases
  <1>4. \A v \in Workers : IF v = w THEN task'[v].pc = "idle" ELSE task'[v] = task[v]
    BY <1>2, IdleType DEF Return, TypeOK, LeaseTypeOK
  <1>5. \A v \in Workers : Owns(v)' => Owns(v) /\ v # w
    BY <1>3, <1>4 DEF Owns, LeaseInvariant, Claims
  <1>6. ASSUME NEW v \in Workers, Owns(v)',
               task'[v].pc \in {"loaded", "batching", "embedding", "storing"}
        PROVE  todo'[v] = Chunks \ Done(task'[v].job)
    BY <1>4, <1>5, <1>6 DEF Remaining, jobVars
  <1>7. s = "completed" => Done(j) = Chunks
    <2>1. Done(j) \subseteq Chunks
      BY DEF Done, TypeOK
    <2>2. s = "completed" => Chunks \ Done(j) = {}
      BY <1>0 DEF Remaining
    <2>3. QED
      BY <2>1, <2>2
  <1>8. QED
    BY <1>0, <1>1, <1>2, <1>3, <1>4, <1>5, <1>6, <1>7, QuietStep DEF TypeOK, jobVars

(* The steps of a worker's task.                                            *)
LEMMA LoadStep == ASSUME Invariant, NEW w \in Workers, Load(w) PROVE Invariant'
  <1> DEFINE j == task[w].job
             pending == Chunks \ Done(j)
  <1>1. CASE GiveUp(w) /\ UNCHANGED todo
    BY <1>1, GiveUpStep DEF Load, jobVars
  <1>2. ASSUME NEW pc \in {"loaded", "failing"}, Proceed(w, pc),
               todo' = [todo EXCEPT ![w] = pending]
        PROVE  Invariant'
    <2>1. /\ todo' \in [Workers -> SUBSET Chunks] /\ todo'[w] = pending
          /\ \A v \in Workers : v # w => todo'[v] = todo[v]
      BY <1>2 DEF Invariant, TypeOK
    <2>2. QED
      BY <1>2, <2>1, ProceedStep DEF Load
  <1>3. QED
    BY <1>1, <1>2 DEF Load

LEMMA ReportStageStep == ASSUME Invariant, NEW w \in Workers, ReportStage(w) PROVE Invariant'
  <1>1. CASE Proceed(w, "batching")
    <2>1. Owns(w) => todo[w] = Chunks \ Done(task[w].job)
      BY DEF ReportStage, Invariant, Remaining
    <2>2. QED
      BY <1>1, <2>1, ProceedStep DEF ReportStage, jobVars, Invariant, TypeOK
  <1>2. QED
    BY <1>1, GiveUpStep DEF ReportStage

LEMMA CompleteStep == ASSUME Invariant, NEW w \in Workers, Complete(w) PROVE Invariant'
  BY FinishStep, GiveUpStep DEF Complete

LEMMA FailStep == ASSUME Invariant, NEW w \in Workers, Fail(w) PROVE Invariant'
  BY FinishStep, GiveUpStep DEF Fail

LEMMA RaiseStep == ASSUME Invariant, NEW w \in Workers, Raise(w) PROVE Invariant'
  BY ProceedStep DEF Raise, Working, jobVars, Invariant, TypeOK

-----------------------------------------------------------------------------
(* The steps that reserve, spend and store.                                 *)

(* What a step changes that moves one worker on and writes the row of its job *)
(* or its documents.                                                       *)
LEMMA PayingStep ==
  ASSUME Invariant, NEW w \in Workers, task[w].pc \in {"batching", "embedding", "storing"},
         NEW pc \in {"batching", "embedding", "storing"}, Proceed(w, pc),
         UNCHANGED <<repository, generation, resumes, mode, source, budget>>
  PROVE  /\ LeaseInvariant' /\ Currency' /\ OneUseful' /\ UNCHANGED <<status, attempts, current>>
         /\ \A v \in Workers : v # w => task'[v] = task[v]
         /\ task'[w].pc = pc /\ task'[w].job = task[w].job /\ task'[w].token = task[w].token
         /\ \A v \in Workers : Owns(v)' <=> Owns(v)
  <1> USE DEF Invariant
  <1>1. /\ LeaseInvariant' /\ UNCHANGED rowVars
        /\ \A v \in Workers : v # w => task'[v] = task[v]
        /\ task'[w].pc = pc /\ task'[w].job = task[w].job /\ task'[w].token = task[w].token
    BY ProceedLeases
  <1>2. UNCHANGED <<status, attempts, current, token>>
    BY <1>1 DEF rowVars
  <1>3. Currency' /\ OneUseful'
    BY <1>2 DEF Currency, OneUseful
  <1>4. \A v \in Workers : Owns(v)' <=> Owns(v)
    BY <1>1, <1>2 DEF Owns
  <1>5. QED
    BY <1>1, <1>2, <1>3, <1>4

(* A batch is reserved: the budget bounds it.                               *)
LEMMA ReserveStep == ASSUME Invariant, NEW w \in Workers, Reserve(w) PROVE Invariant'
  <1> USE DEF Invariant
  <1>1. CASE Proceed(w, "failing") /\ UNCHANGED reserved
    BY <1>1, ProceedStep DEF Reserve, TypeOK
  <1>2. CASE Room(w) /\ Proceed(w, "embedding") /\ ~(Proceed(w, "failing") /\ UNCHANGED reserved)
    <2>0. PICK j \in Jobs : j = task[w].job /\ status[j] = "running" /\ Owns(w)
      BY <1>2, HeldFacts DEF Reserve, Room
    <2>1. PICK n \in Nat, B \in SUBSET Chunks : B = Batch(w) /\ n = Cardinality(B) /\ IsFiniteSet(B)
      BY BatchFacts
    <2>2. /\ reserved' = [reserved EXCEPT ![j] = @ + n] /\ reserved[j] + n <= budget[j]
          /\ UNCHANGED <<repository, generation, resumes, mode, source, usage, stored, budget,
                         documents, embedded, todo>>
          /\ task[w].pc = "batching" /\ Hybrid(j)
      BY <1>2, <2>0, <2>1 DEF Reserve, Room
    <2>3. /\ LeaseInvariant' /\ Currency' /\ OneUseful' /\ UNCHANGED <<status, attempts, current>>
          /\ \A v \in Workers : v # w => task'[v] = task[v]
          /\ task'[w].pc = "embedding" /\ task'[w].job = task[w].job
          /\ \A v \in Workers : Owns(v)' <=> Owns(v)
      BY <1>2, <2>2, PayingStep
    <2>4. \A i \in Jobs : reserved'[i] = IF i = j THEN reserved[j] + n ELSE reserved[i]
      BY <2>2 DEF TypeOK
    <2>5. TypeOK'
      BY <2>1, <2>2, <2>3 DEF TypeOK, LeaseInvariant
    <2>6. Fresh' /\ Payers' /\ Remaining' /\ Whole' /\ Unpaid' /\ Finite' /\ LedgerMatchesDocuments'
      BY <2>0, <2>2, <2>3, <2>4, ZenonT(30) DEF Fresh, Payers, Remaining, Whole, Unpaid, Finite,
         LedgerMatchesDocuments, Hybrid, Done, Batch
    <2>7. ASSUME NEW i \in Jobs
          PROVE  embedded'[i] + Cardinality(InFlight(i)') <= reserved'[i]
      <3>1. Cardinality(InFlight(i)) \in Nat /\ IsFiniteSet(InFlight(i))
            /\ embedded[i] + Cardinality(InFlight(i)) <= reserved[i]
        BY FlightFacts DEF Reserved
      <3>2. CASE i = j
        <4>1. InFlight(j)' = InFlight(j) \cup ({w} \X B)
          BY <2>0, <2>1, <2>2, <2>3 DEF InFlight, Batch
        <4>2. IsFiniteSet({w} \X B) /\ Cardinality({w} \X B) = n
          BY <2>1, FlightOfBatch
        <4>3. Cardinality(InFlight(j)') =
                Cardinality(InFlight(j)) + n - Cardinality(InFlight(j) \cap ({w} \X B))
          BY <3>1, <3>2, <4>1, <4>2, FS_Union
        <4>4. InFlight(j) \cap ({w} \X B) = {}
          BY <2>2 DEF InFlight
        <4>5. Cardinality(InFlight(i)') = Cardinality(InFlight(i)) + n
          <5>1. Cardinality(InFlight(j) \cap ({w} \X B)) = 0
            BY <4>4, FS_EmptySet
          <5>2. QED
            BY <2>1, <3>1, <3>2, <4>3, <5>1
        <4>6. embedded[i] \in Nat /\ reserved[i] \in Nat /\ embedded'[i] = embedded[i]
          BY <2>2 DEF TypeOK
        <4>7. QED
          BY <2>1, <2>4, <3>1, <3>2, <4>5, <4>6
      <3>3. CASE i # j
        <4>1. InFlight(i)' = InFlight(i)
          BY <2>0, <2>2, <2>3, <3>3 DEF InFlight, Batch
        <4>2. QED
          BY <2>2, <2>4, <3>1, <3>3, <4>1
      <3>4. QED
        BY <3>2, <3>3
    <2>8. Reserved'
      BY <2>2, <2>4, <2>7 DEF Reserved
    <2>9. QED
      BY <2>3, <2>5, <2>6, <2>8
  <1>3. QED
    BY <1>1, <1>2 DEF Reserve

(* The model answers or fails: what is reserved stays reserved.             *)
LEMMA EmbedStep == ASSUME Invariant, NEW w \in Workers, Embed(w) PROVE Invariant'
  <1> USE DEF Invariant
  <1>0. PICK j \in Jobs : j = task[w].job /\ Hybrid(j)
    BY DEF Embed, LeaseInvariant, Claims, Payers
  <1>1. PICK n \in Nat, B \in SUBSET Chunks : B = Batch(w) /\ n = Cardinality(B) /\ IsFiniteSet(B)
    BY BatchFacts
  <1>2. /\ embedded' = [embedded EXCEPT ![j] = @ + n] /\ task[w].pc = "embedding"
        /\ UNCHANGED <<repository, generation, resumes, mode, source, reserved, usage, stored, budget,
                       documents, todo>>
    BY <1>0, <1>1 DEF Embed
  <1>3. PICK pc \in {"storing", "failing"} : Proceed(w, pc)
    BY DEF Embed
  <1>4. /\ LeaseInvariant' /\ UNCHANGED rowVars
        /\ \A v \in Workers : v # w => task'[v] = task[v]
        /\ task'[w].pc = pc /\ task'[w].job = task[w].job /\ task'[w].token = task[w].token
    BY <1>2, <1>3, ProceedLeases
  <1>5. UNCHANGED <<status, attempts, current, token>> /\ \A v \in Workers : Owns(v)' <=> Owns(v)
    BY <1>2, <1>4 DEF rowVars, Owns
  <1>6. /\ \A i \in Jobs : embedded'[i] = IF i = j THEN embedded[j] + n ELSE embedded[i]
        /\ \A i \in Jobs : embedded[i] \in Nat /\ usage[i] \in Nat /\ reserved[i] \in Nat
    BY <1>2 DEF TypeOK
  <1>7. TypeOK'
    BY <1>1, <1>2, <1>4 DEF TypeOK, LeaseInvariant
  <1>8. /\ Currency' /\ OneUseful' /\ Fresh' /\ Payers' /\ Remaining' /\ Whole' /\ Finite'
        /\ LedgerMatchesDocuments'
    <2>1. Currency' /\ OneUseful'
      BY <1>2, <1>5 DEF Currency, OneUseful
    <2>2. Fresh' /\ Whole' /\ Finite' /\ LedgerMatchesDocuments'
      BY <1>2, <1>5 DEF Fresh, Whole, Finite, LedgerMatchesDocuments, Hybrid, Done
    <2>3. Payers'
      BY <1>0, <1>2, <1>4 DEF Payers, Hybrid
    <2>4. ASSUME NEW v \in Workers, Owns(v)',
                 task'[v].pc \in {"loaded", "batching", "embedding", "storing"}
          PROVE  todo'[v] = Chunks \ Done(task'[v].job)
      <3>1. /\ Owns(v) /\ task'[v].job = task[v].job /\ todo'[v] = todo[v]
            /\ task[v].pc \in {"loaded", "batching", "embedding", "storing"}
        BY <1>2, <1>4, <1>5, <2>4
      <3>2. QED
        BY <3>1 DEF Remaining
    <2>5. Remaining'
      BY <1>2, <2>4 DEF Remaining, Done
    <2>6. QED
      BY <2>1, <2>2, <2>3, <2>5
  <1>9. Unpaid'
    <2>1. \A v \in Workers : Batch(v)' = Batch(v)
      BY <1>2 DEF Batch
    <2>2. ASSUME NEW v \in Workers, Owns(v)', task'[v].pc = "storing"
          PROVE  usage'[task'[v].job] + Cardinality(Batch(v)') <= embedded'[task'[v].job]
      <3>1. CASE v = w
        BY <1>0, <1>1, <1>2, <1>4, <1>6, <2>1, <3>1 DEF Reserved
      <3>2. CASE v # w
        <4>1. /\ task'[v] = task[v] /\ task[v].job \in Jobs /\ Cardinality(Batch(v)) \in Nat
              /\ usage[task[v].job] + Cardinality(Batch(v)) <= embedded[task[v].job]
          BY <1>4, <1>5, <2>2, <3>2, BatchFacts DEF Unpaid, LeaseInvariant, Claims
        <4>2. QED
          BY <1>1, <1>2, <1>6, <2>1, <4>1
      <3>3. QED
        BY <3>1, <3>2
    <2>3. QED
      BY <2>2 DEF Unpaid
  <1>10. ASSUME NEW i \in Jobs
         PROVE  embedded'[i] + Cardinality(InFlight(i)') <= reserved'[i]
    <2>1. /\ Cardinality(InFlight(i)) \in Nat /\ IsFiniteSet(InFlight(i))
          /\ embedded[i] + Cardinality(InFlight(i)) <= reserved[i]
      BY FlightFacts DEF Reserved
    <2>2. CASE i = j
      <3>1. InFlight(j)' = InFlight(j) \ ({w} \X B)
        BY <1>0, <1>1, <1>2, <1>4 DEF InFlight, Batch
      <3>2. InFlight(j) \cap ({w} \X B) = {w} \X B
        BY <1>0, <1>1, <1>2 DEF InFlight
      <3>3. Cardinality({w} \X B) = n
        BY <1>1, FlightOfBatch
      <3>4. Cardinality(InFlight(j)') = Cardinality(InFlight(j)) - n
        BY <2>1, <2>2, <3>1, <3>2, <3>3, FS_Difference
      <3>5. QED
        BY <1>2, <1>6, <2>1, <2>2, <3>4
    <2>3. CASE i # j
      <3>1. InFlight(i)' = InFlight(i)
        BY <1>0, <1>2, <1>4, <2>3 DEF InFlight, Batch
      <3>2. QED
        BY <1>2, <1>6, <2>1, <2>3, <3>1
    <2>4. QED
      BY <2>2, <2>3
  <1>11. Reserved'
    BY <1>1, <1>2, <1>6, <1>10 DEF Reserved
  <1>12. QED
    BY <1>4, <1>7, <1>8, <1>9, <1>11

(* The documents that a checkpoint adds: one per text of the batch, and the   *)
(* texts had none.                                                         *)
LEMMA CheckpointDocuments ==
  ASSUME Invariant, NEW j \in Jobs, NEW B \in SUBSET (Chunks \ Done(j)), NEW k,
         documents' = [documents EXCEPT ![j] = @ \cup [chunk : B, by : {k}]]
  PROVE  /\ IsFiniteSet(documents'[j]) /\ Cardinality(B) \in Nat
         /\ Cardinality(documents'[j]) = Cardinality(documents[j]) + Cardinality(B)
         /\ Done(j)' = Done(j) \cup B
         /\ Cardinality(Done(j)') = Cardinality(Done(j)) + Cardinality(B)
  <1> DEFINE D == [chunk : B, by : {k}]
             f == [c \in B |-> [chunk |-> c, by |-> k]]
  <1>1. IsFiniteSet(B) /\ Cardinality(B) \in Nat /\ Done(j) \in SUBSET Chunks
    BY Bounds, FS_Subset, FS_CardinalityType DEF Invariant, TypeOK, Done
  <1>2. IsFiniteSet(Done(j)) /\ IsFiniteSet(documents[j])
    BY <1>1, Bounds, FS_Subset DEF Invariant, Finite
  <1>3. f \in Bijection(B, D)
    <2>1. f \in [B -> D]
      OBVIOUS
    <2>2. \A x, y \in B : f[x] = f[y] => x = y
      OBVIOUS
    <2>3. \A d \in D : \E c \in B : f[c] = d
      OBVIOUS
    <2> HIDE DEF f, D
    <2>4. QED
      BY <2>1, <2>2, <2>3 DEF Bijection, Injection, Surjection, IsInjective
  <1>4. IsFiniteSet(D) /\ Cardinality(D) = Cardinality(B)
    BY <1>1, <1>3, FS_Bijection DEF ExistsBijection
  <1>5. documents'[j] = documents[j] \cup D
    BY DEF Invariant, TypeOK
  <1>6. \A d \in D : d.chunk \in B
    OBVIOUS
  <1>7. \A c \in B : \E d \in D : d.chunk = c
    <2>1. \A c \in B : [chunk |-> c, by |-> k] \in D /\ [chunk |-> c, by |-> k].chunk = c
      OBVIOUS
    <2>2. QED
      BY <2>1
  <1> HIDE DEF D, f
  <1>8. documents[j] \cap D = {} /\ Done(j) \cap B = {}
    BY <1>6 DEF Done
  <1>9. Done(j)' = Done(j) \cup B
    BY <1>5, <1>6, <1>7 DEF Done
  <1>10. Cardinality(documents[j] \cap D) = 0 /\ Cardinality(Done(j) \cap B) = 0
    BY <1>8, FS_EmptySet
  <1>11. Cardinality(documents[j]) \in Nat /\ Cardinality(Done(j)) \in Nat
    BY <1>2, FS_CardinalityType
  <1>12. /\ IsFiniteSet(documents'[j])
         /\ Cardinality(documents'[j]) = Cardinality(documents[j]) + Cardinality(B)
    BY <1>1, <1>2, <1>4, <1>5, <1>10, <1>11, FS_Union
  <1>13. Cardinality(Done(j)') = Cardinality(Done(j)) + Cardinality(B)
    <2>1. Cardinality(Done(j) \cup B) =
            Cardinality(Done(j)) + Cardinality(B) - Cardinality(Done(j) \cap B)
      BY <1>1, <1>2, FS_Union
    <2>2. Cardinality(Done(j) \cup B) = Cardinality(Done(j)) + Cardinality(B)
      BY <1>1, <1>10, <1>11, <2>1
    <2>3. QED
      BY <1>9, <2>2
  <1>14. QED
    BY <1>1, <1>9, <1>12, <1>13

(* The documents of a batch are stored and its receipt is confirmed.        *)
LEMMA CheckpointStep == ASSUME Invariant, NEW w \in Workers, Checkpoint(w) PROVE Invariant'
  <1> USE DEF Invariant
  <1>1. CASE GiveUp(w) /\ UNCHANGED <<documents, stored, usage, todo>>
    BY <1>1, GiveUpStep DEF Checkpoint, jobVars
  <1>2. CASE Held(w) /\ ~(GiveUp(w) /\ UNCHANGED <<documents, stored, usage, todo>>)
    <2>0. PICK j \in Jobs : j = task[w].job /\ status[j] = "running" /\ Owns(w)
      BY <1>2, HeldFacts DEF Checkpoint
    <2>1. PICK n \in Nat, B \in SUBSET Chunks :
            B = Batch(w) /\ n = Cardinality(B) /\ B \subseteq todo[w]
      BY BatchFacts
    <2>2. PICK k \in Nat : k = task[w].token
      BY TaskType DEF LeaseInvariant, Task
    <2>3. /\ documents' = [documents EXCEPT ![j] = @ \cup [chunk : B, by : {k}]]
          /\ stored' = [stored EXCEPT ![j] = @ + n]
          /\ usage' = [usage EXCEPT ![j] = IF Hybrid(j) THEN @ + n ELSE @]
          /\ todo' = [todo EXCEPT ![w] = @ \ B]
          /\ Proceed(w, "batching")
          /\ UNCHANGED <<repository, generation, resumes, mode, source, reserved, budget, embedded>>
      BY <1>2, <2>0, <2>1, <2>2 DEF Checkpoint
    <2>4. task[w].pc \in {"batching", "storing"} /\ (Hybrid(j) => task[w].pc = "storing")
      BY <2>0 DEF Checkpoint
    <2>5. /\ LeaseInvariant' /\ Currency' /\ OneUseful' /\ UNCHANGED <<status, attempts, current>>
          /\ \A v \in Workers : v # w => task'[v] = task[v]
          /\ task'[w].pc = "batching" /\ task'[w].job = task[w].job
          /\ \A v \in Workers : Owns(v)' <=> Owns(v)
      BY <2>3, <2>4, PayingStep
    <2>6. todo[w] = Chunks \ Done(j) /\ B \in SUBSET (Chunks \ Done(j))
      BY <2>0, <2>1, <2>4 DEF Remaining
    <2>7. /\ IsFiniteSet(documents'[j])
          /\ Cardinality(documents'[j]) = Cardinality(documents[j]) + n
          /\ Done(j)' = Done(j) \cup B
          /\ Cardinality(Done(j)') = Cardinality(Done(j)) + n
      BY <2>1, <2>3, <2>6, CheckpointDocuments
    <2>8. /\ \A i \in Jobs : i # j => /\ documents'[i] = documents[i] /\ stored'[i] = stored[i]
                                      /\ usage'[i] = usage[i] /\ Done(i)' = Done(i)
          /\ stored'[j] = stored[j] + n /\ usage'[j] = IF Hybrid(j) THEN usage[j] + n ELSE usage[j]
          /\ \A v \in Workers : todo'[v] = IF v = w THEN todo[w] \ B ELSE todo[v]
      BY <2>3 DEF TypeOK, Done
    <2>9. TypeOK'
      <3>1. documents' \in [Jobs -> SUBSET [chunk : Chunks, by : Nat]]
        BY <2>3 DEF TypeOK
      <3>2. /\ stored' \in [Jobs -> Nat] /\ usage' \in [Jobs -> Nat]
            /\ todo' \in [Workers -> SUBSET Chunks]
        BY <2>3 DEF TypeOK
      <3>3. QED
        BY <2>3, <2>5, <3>1, <3>2 DEF TypeOK, LeaseInvariant
    <2>10. \A i \in Jobs : Hybrid(i)' <=> Hybrid(i)
      BY <2>3 DEF Hybrid
    <2>11. Fresh' /\ Whole' /\ Finite' /\ Payers'
      <3>1. Fresh' /\ Whole' /\ Finite'
        BY <2>0, <2>3, <2>5, <2>7, <2>8, ZenonT(30) DEF Fresh, Whole, Finite
      <3>2. Payers'
        BY <2>3, <2>5 DEF Payers, Hybrid
      <3>3. QED
        BY <3>1, <3>2
    <2>12. ASSUME NEW v \in Workers, v # w, Owns(v)
           PROVE  task[v].job \in Jobs /\ task[v].job # j
      BY <2>0, <2>12 DEF Owns, LeaseInvariant, Claims
    <2>13. Remaining'
      <3>1. ASSUME NEW v \in Workers, NEW i \in Jobs, i = task'[v].job, Owns(v)',
                   task'[v].pc \in {"loaded", "batching", "embedding", "storing"}
            PROVE  todo'[v] = Chunks \ Done(i)'
        <4>1. CASE v = w
          BY <2>0, <2>5, <2>6, <2>7, <2>8, <3>1, <4>1
        <4>2. CASE v # w
          BY <2>5, <2>8, <2>12, <3>1, <4>2 DEF Remaining
        <4>3. QED
          BY <4>1, <4>2
      <3>2. \A v \in Workers : Owns(v)' => task'[v].job \in Jobs
        BY <2>0, <2>5, <2>12
      <3>3. QED
        BY <3>1, <3>2 DEF Remaining, Done
    <2>14. Unpaid'
      <3>1. ASSUME NEW v \in Workers, Owns(v)', task'[v].pc = "storing"
            PROVE  usage'[task'[v].job] + Cardinality(Batch(v)') <= embedded'[task'[v].job]
        <4>1. v # w /\ Owns(v) /\ task'[v] = task[v] /\ task[v].job \in Jobs /\ task[v].job # j
          BY <2>5, <2>12, <3>1
        <4>2. Batch(v)' = Batch(v)
          BY <2>8, <4>1 DEF Batch
        <4>3. QED
          BY <2>3, <2>8, <3>1, <4>1, <4>2 DEF Unpaid
      <3>2. QED
        BY <3>1 DEF Unpaid
    <2>15. Reserved'
      <3>1. usage'[j] <= embedded[j]
        BY <2>0, <2>1, <2>4, <2>8 DEF Unpaid, Reserved
      <3>2. ASSUME NEW i \in Jobs
            PROVE  embedded'[i] + Cardinality(InFlight(i)') <= reserved'[i]
        <4>1. \A v \in Workers : task'[v].pc = "embedding" => task'[v] = task[v] /\ todo'[v] = todo[v]
          BY <2>5, <2>8
        <4>2. /\ Cardinality(InFlight(i)') \in Nat
              /\ Cardinality(InFlight(i)') <= Cardinality(InFlight(i))
          BY <4>1, FlightShrinks
        <4>3. Cardinality(InFlight(i)) \in Nat
          BY FlightFacts
        <4>4. QED
          BY <2>3, <4>2, <4>3 DEF Reserved, TypeOK
      <3>3. QED
        BY <2>3, <2>8, <3>1, <3>2 DEF Reserved
    <2>16. LedgerMatchesDocuments'
      <3>1. ASSUME NEW i \in Jobs, status'[i] # "deleted"
            PROVE  /\ stored'[i] = Cardinality(documents'[i])
                   /\ stored'[i] = Cardinality(Done(i)')
                   /\ usage'[i] = IF Hybrid(i)' THEN stored'[i] ELSE 0
        BY <2>5, <2>7, <2>8, <2>10, <3>1, ZenonT(30) DEF LedgerMatchesDocuments
      <3>2. QED
        BY <3>1 DEF LedgerMatchesDocuments, Done, Hybrid
    <2>17. QED
      BY <2>5, <2>9, <2>11, <2>13, <2>14, <2>15, <2>16
  <1>3. QED
    BY <1>1, <1>2 DEF Checkpoint

-----------------------------------------------------------------------------
(* Nothing happens.                                                         *)
LEMMA UnchangedStep == ASSUME Invariant, UNCHANGED vars PROVE Invariant'
  <1> USE DEF Invariant, vars, leaseVars, rowVars, queueVars, loopVars, jobVars
  <1>1. TypeOK' /\ LeaseInvariant'
    BY DEF TypeOK, LeaseTypeOK, LeaseInvariant, LeaseNumbered, Leased, Claims
  <1>2. \A w \in Workers : Owns(w)' <=> Owns(w)
    BY DEF Owns
  <1>3. Currency' /\ OneUseful' /\ Remaining' /\ Whole'
    BY <1>2 DEF Currency, OneUseful, Remaining, Whole, Done
  <1>4. \A j \in Jobs : budget'[j] \in Nat /\ budget'[j] >= budget[j]
    BY DEF TypeOK
  <1>5. Fresh' /\ Payers' /\ Reserved' /\ Unpaid' /\ Finite' /\ LedgerMatchesDocuments'
    BY <1>2, <1>4, QuietLedgers
  <1>6. QED
    BY <1>1, <1>3, <1>5

(* All steps together.                                                      *)
LEMMA NextStep == Invariant /\ [Next]_vars => Invariant'
  BY ReindexStep, StartNewStep, ResumeStep, CancelStep, RemoveStep, SchedulingStep, LoadStep,
     ReportStageStep, ReserveStep, EmbedStep, CheckpointStep, CompleteStep, FailStep, RaiseStep,
     UnchangedStep DEF Next, Requests, Work

(* The inductive invariant: whose claim a job is, what is left of it, what is  *)
(* paid and what is in flight, for any number of workers, jobs and chunks.    *)
THEOREM PreparationInvariant == Spec => []Invariant
  BY InitInvariant, NextStep, PTL DEF Spec

(* Every variable keeps its type.                                           *)
THEOREM PreparationTypes == Spec => []TypeOK
  BY PreparationInvariant, PTL DEF Invariant

(* The embedding budget holds for any number of workers, crashes and resumes.  *)
THEOREM BudgetHolds == Spec => []SpendWithinBudget
  <1>1. Invariant => SpendWithinBudget
    <2>1. ASSUME Invariant, NEW j \in Jobs
          PROVE  usage[j] <= embedded[j] /\ embedded[j] <= reserved[j] /\ reserved[j] <= budget[j]
      BY <2>1, FlightFacts DEF Invariant, Reserved, TypeOK
    <2>2. QED
      BY <2>1 DEF SpendWithinBudget
  <1>2. QED
    BY <1>1, PreparationInvariant, PTL

(* The counters always say what is stored, and a chunk has one document.      *)
THEOREM LedgersMatch == Spec => []LedgerMatchesDocuments
  BY PreparationInvariant, PTL DEF Invariant

(* SearchStore.active (repositories/search.py) answers with the newest of the  *)
(* completed preparations of an index and a mode: there is one at most, so     *)
(* start found the earlier one whenever there was one and paid for no other.   *)
OnePreparation == \A g \in Nat, m \in Modes : \A i, j \in Ready(g, m) : i = j

(* Starting, resuming and taking over never complete a second preparation of   *)
(* the same index and mode.                                                *)
THEOREM PreparationsUnique == Spec => []OnePreparation
  <1>1. Invariant => OnePreparation
    BY DEF Invariant, OneUseful, Useful, OnePreparation, Ready
  <1>2. QED
    BY <1>1, PreparationInvariant, PTL

-----------------------------------------------------------------------------
(* Preparations follow the life cycle of leased jobs.                       *)

(* The usable preparations are the completed ones: these are whole.           *)
LEMMA UsableFacts ==
  Invariant => {j \in Jobs : status[j] = "completed" /\ Done(j) = Chunks}
                 = {j \in Jobs : status[j] = "completed"}
  BY DEF Invariant, Whole

(* No preparation is there at first.                                        *)
LEMMA InitRefines == Init => Lifecycle!Init
  BY DEF Init, InitLeases, Lifecycle!Init

(* What a step of the life cycle is in terms of the columns.                 *)
LEMMA Stutter ==
  ASSUME Invariant, Invariant', UNCHANGED <<status, attempts>>
  PROVE  UNCHANGED Lifecycle!jvars
  <1>1. Invariant' => ({j \in Jobs : status[j] = "completed" /\ Done(j) = Chunks}
                         = {j \in Jobs : status[j] = "completed"})'
    BY UsableFacts, PTL
  <1>2. QED
    BY <1>1, UsableFacts DEF Lifecycle!jvars

(* Rows that get the state s.                                               *)
LEMMA EnterRefines ==
  ASSUME Invariant, Invariant', NEW S \in SUBSET Jobs, NEW s,
         \A j \in Jobs : status'[j] = IF j \in S THEN s ELSE status[j],
         \/ /\ s = "queued" /\ UNCHANGED attempts
            /\ \E j \in Jobs : S = {j} /\ status[j] = "none"
         \/ /\ s = "queued" /\ \E j \in Jobs : /\ S = {j} /\ status[j] \in {"failed", "cancelled"}
                                               /\ attempts' = [attempts EXCEPT ![j] = 0]
         \/ /\ s = "running"
            /\ \E j \in Jobs : /\ S = {j} /\ status[j] \in Active /\ attempts[j] < MaxAttempts
                               /\ attempts' = [attempts EXCEPT ![j] = @ + 1]
         \/ /\ s = "completed" /\ UNCHANGED attempts
            /\ \E j \in Jobs : S = {j} /\ status[j] = "running"
         \/ s = "failed" /\ UNCHANGED attempts /\ \A j \in S : status[j] = "running"
         \/ s = "cancelled" /\ UNCHANGED attempts /\ \A j \in S : status[j] \in Active
         \/ s = "deleted" /\ UNCHANGED attempts /\ S = {j \in Jobs : status[j] \in Rows}
  PROVE  Lifecycle!Next
  <1> DEFINE Usable == {j \in Jobs : status[j] = "completed" /\ Done(j) = Chunks}
             Completed == {j \in Jobs : status[j] = "completed"}
  <1>1. Usable = Completed /\ Usable' = Completed'
    <2>1. Invariant' => (Usable = Completed)'
      BY UsableFacts, PTL
    <2>2. QED
      BY <2>1, UsableFacts
  <1>2. Lifecycle!Enter(S, s)
    <2>1. status' \in [Jobs -> Rows \cup {"none", "deleted"}]
      BY DEF Invariant, LeaseInvariant, LeaseTypeOK
    <2>2. status' = [j \in Jobs |-> IF j \in S THEN s ELSE status[j]]
      BY <2>1
    <2>3. QED
      BY <2>2 DEF Lifecycle!Enter
  <1>3. CASE s = "queued"
    <2>1. Completed' = Completed
      BY <1>3
    <2>2. PICK j \in Jobs : \/ S = {j} /\ status[j] = "none" /\ UNCHANGED attempts
                            \/ /\ S = {j} /\ status[j] \in {"failed", "cancelled"}
                               /\ attempts' = [attempts EXCEPT ![j] = 0]
      BY <1>3
    <2>3. Lifecycle!Accept(j) \/ Lifecycle!Resume(j)
      BY <1>1, <1>2, <1>3, <2>1, <2>2 DEF Lifecycle!Accept, Lifecycle!Resume
    <2>4. QED
      BY <2>3 DEF Lifecycle!Next
  <1>4. CASE s = "running"
    <2>1. PICK j \in Jobs : /\ S = {j} /\ status[j] \in Active /\ attempts[j] < MaxAttempts
                            /\ attempts' = [attempts EXCEPT ![j] = @ + 1]
      BY <1>4
    <2>2. Completed' = Completed
      BY <1>4, <2>1
    <2>3. Lifecycle!Try(j)
      BY <1>1, <1>2, <1>4, <2>1, <2>2 DEF Lifecycle!Try, Lifecycle!Active
    <2>4. QED
      BY <2>3 DEF Lifecycle!Next
  <1>5. CASE s = "completed"
    <2>1. PICK j \in Jobs : S = {j} /\ status[j] = "running" /\ UNCHANGED attempts
      BY <1>5
    <2>2. Completed' = Completed \cup {j}
      BY <1>5, <2>1
    <2>3. Lifecycle!Complete(j)
      BY <1>1, <1>2, <1>5, <2>1, <2>2 DEF Lifecycle!Complete
    <2>4. QED
      BY <2>3 DEF Lifecycle!Next
  <1>6. CASE s \in {"failed", "cancelled"}
    <2>1. Completed' = Completed
      BY <1>6
    <2>2. Lifecycle!Abandon(S) \/ Lifecycle!Cancel(S)
      BY <1>1, <1>2, <1>6, <2>1 DEF Lifecycle!Abandon, Lifecycle!Cancel, Lifecycle!Active
    <2>3. QED
      BY <2>2 DEF Lifecycle!Next
  <1>7. CASE s = "deleted"
    <2>1. Completed' = Completed \ S
      BY <1>7
    <2>2. Lifecycle!Delete(S)
      BY <1>1, <1>2, <1>7, <2>1 DEF Lifecycle!Delete, Lifecycle!Active, Lifecycle!Terminal
    <2>3. QED
      BY <2>2 DEF Lifecycle!Next
  <1>8. QED
    BY <1>3, <1>4, <1>5, <1>6, <1>7

-----------------------------------------------------------------------------
(* What each kind of step is in the life cycle.                             *)

LEMMA RequestsRefine ==
  ASSUME Invariant, Invariant', Requests
  PROVE  [Lifecycle!Next]_(Lifecycle!jvars)
  <1>1. CASE Reindex
    BY <1>1, Stutter DEF Reindex, leaseVars, rowVars
  <1>2. ASSUME NEW m \in Modes, NEW b \in Budgets, StartNew(m, b) PROVE Lifecycle!Next
    <2>1. current \in SUBSET Jobs /\ Insert(current)
      BY <1>2 DEF StartNew, Invariant, TypeOK, LeaseTypeOK
    <2>2. PICK i \in Jobs : i = inserted + 1
      BY <2>1, InsertLeases DEF Invariant
    <2>3. status[i] = "none" /\ \A j \in Jobs : status'[j] = IF j \in {i} THEN "queued" ELSE status[j]
      BY <2>1, <2>2, InsertLeases DEF Invariant
    <2>4. UNCHANGED attempts /\ {i} \in SUBSET Jobs
      BY <2>1 DEF Insert
    <2>5. QED
      BY <2>3, <2>4, EnterRefines
  <1>3. ASSUME NEW m \in Modes, NEW b \in Budgets, Resume(m, b) PROVE Lifecycle!Next
    <2>1. PICK j \in Unfinished(m) :
            SetStatus({j}, "queued") /\ attempts' = [attempts EXCEPT ![j] = 0]
      BY <1>3 DEF Resume
    <2>2. Startable(m) /\ j \in current /\ j \in Jobs /\ source[j] = generation /\ mode[j] = m
      BY <1>3 DEF Resume, Unfinished, Invariant, TypeOK, LeaseTypeOK
    <2>3. status[j] \in {"failed", "cancelled"}
      BY <2>2 DEF Startable, Ready, Invariant, Currency
    <2>4. \A i \in Jobs : status'[i] = IF i \in {j} THEN "queued" ELSE status[i]
      BY <2>1 DEF SetStatus
    <2>5. {j} \in SUBSET Jobs
      BY <2>2
    <2>6. QED
      BY <2>1, <2>2, <2>3, <2>4, <2>5, EnterRefines
  <1>4. CASE Cancel
    <2>1. PICK S \in SUBSET Jobs : S = current
      BY DEF Invariant, TypeOK, LeaseTypeOK
    <2>2. /\ \A i \in Jobs : status'[i] = IF i \in S THEN "cancelled" ELSE status[i]
          /\ UNCHANGED attempts /\ \A i \in S : status[i] \in Active
      BY <1>4, <2>1 DEF Cancel, CancelJobs, SetStatus, Invariant, Currency
    <2>3. QED
      BY <2>2, EnterRefines
  <1>5. CASE RemoveRepository
    <2>1. PICK S \in SUBSET Jobs : S = {j \in Jobs : status[j] \in Rows}
      OBVIOUS
    <2>2. UNCHANGED attempts /\ \A i \in Jobs : status'[i] = IF i \in S THEN "deleted" ELSE status[i]
      BY <1>5, <2>1 DEF RemoveRepository, DeleteAll, SetStatus
    <2>3. QED
      BY <2>1, <2>2, EnterRefines
  <1>6. QED
    BY <1>1, <1>2, <1>3, <1>4, <1>5 DEF Requests

LEMMA SchedulingRefines ==
  ASSUME Invariant, Invariant', Scheduling(<<Jobs>>)
  PROVE  [Lifecycle!Next]_(Lifecycle!jvars)
  <1>1. CASE Sweep(<<Jobs>>)
    <2>1. PICK S \in SUBSET Jobs : S = Lost \cap <<Jobs>>[turn]
      BY DEF Lost
    <2>2. /\ \A i \in Jobs : status'[i] = IF i \in S THEN "failed" ELSE status[i]
          /\ UNCHANGED attempts /\ \A i \in S : status[i] = "running"
      BY <1>1, <2>1 DEF Sweep, SetStatus, Lost
    <2>3. QED
      BY <2>2, EnterRefines
  <1>2. CASE UNCHANGED <<status, attempts>>
    BY <1>2, Stutter
  <1>3. ASSUME NEW w \in Workers, Claim(w), ~GiveUp(w) PROVE Lifecycle!Next
    <2>1. PICK j \in Jobs : j = task[w].job
      BY <1>3, ClaimLeases DEF Invariant
    <2>2. /\ status[j] \in Active /\ attempts[j] < MaxAttempts
          /\ attempts' = [attempts EXCEPT ![j] = @ + 1]
          /\ \A i \in Jobs : status'[i] = IF i \in {j} THEN "running" ELSE status[i]
      BY <1>3, <2>1, ClaimLeases DEF Invariant
    <2>3. {j} \in SUBSET Jobs
      OBVIOUS
    <2>4. QED
      BY <2>2, <2>3, EnterRefines
  <1>4. ASSUME NEW w \in Workers, GiveUp(w) PROVE UNCHANGED <<status, attempts>>
    BY <1>4 DEF GiveUp, rowVars
  <1>5. QED
    BY <1>1, <1>2, <1>3, <1>4 DEF Scheduling, Dispatcher, Clock, PublishMessage, MarkDispatched,
       AbortCycle, LeaseExpires, BackoffEnds, RedispatchDue, LoseMessage, Crash, Deliver, rowVars

(* A worker that ends its job.                                              *)
LEMMA FinishRefines ==
  ASSUME Invariant, Invariant', NEW w \in Workers, task[w].pc \in {"batching", "failing"}, Held(w),
         NEW s \in {"completed", "failed"}, Finish(w, s)
  PROVE  Lifecycle!Next
  <1>1. PICK j \in Jobs : j = task[w].job /\ status[j] = "running"
    BY HeldFacts DEF Invariant
  <1>2. UNCHANGED attempts /\ \A i \in Jobs : status'[i] = IF i \in {j} THEN s ELSE status[i]
    BY <1>1 DEF Finish, SetStatus
  <1>3. {j} \in SUBSET Jobs
    OBVIOUS
  <1>4. QED
    BY <1>1, <1>2, <1>3, EnterRefines, ZenonT(30)

LEMMA WorkRefines ==
  ASSUME Invariant, Invariant', NEW w \in Workers, Work(w) \/ Raise(w)
  PROVE  [Lifecycle!Next]_(Lifecycle!jvars)
  <1>1. ASSUME NEW s \in {"completed", "failed"}, Finish(w, s), Held(w),
               task[w].pc \in {"batching", "failing"}
        PROVE  Lifecycle!Next
    BY <1>1, FinishRefines
  <1>2. CASE UNCHANGED <<status, attempts>>
    BY <1>2, Stutter
  <1>3. QED
    BY <1>1, <1>2 DEF Work, Raise, Load, ReportStage, Reserve, Embed, Checkpoint, Complete, Fail,
       Proceed, GiveUp, rowVars

(* Every step is a step of the life cycle, or none.                          *)
LEMMA StepRefines ==
  ASSUME Invariant, Invariant', [Next]_vars
  PROVE  [Lifecycle!Next]_(Lifecycle!jvars)
  <1>1. CASE UNCHANGED vars
    BY <1>1, Stutter DEF vars, leaseVars, rowVars
  <1>2. CASE Next
    BY <1>2, RequestsRefine, SchedulingRefines, WorkRefines DEF Next
  <1>3. QED
    BY <1>1, <1>2

(* Preparations implement the life cycle of leased jobs: a bounded number of   *)
(* tries per start, usable exactly when complete, resumed only after an end.  *)
THEOREM PreparationsFollowLifecycle == Spec => ImplementsJobLifecycle
  <1>1. Invariant /\ Invariant' /\ [Next]_vars => [Lifecycle!Next]_(Lifecycle!jvars)
    BY StepRefines
  <1>2. QED
    BY <1>1, InitRefines, PreparationInvariant, PTL
       DEF Spec, Lifecycle!Spec, ImplementsJobLifecycle

=============================================================================
