---------------------------- MODULE JobLifecycle ----------------------------
(***************************************************************************)
(* What leased jobs promise: a bounded number of tries, a result that is      *)
(* visible exactly when the job completes, and an end that is final unless    *)
(* the user resumes the job.                                                *)
(***************************************************************************)
EXTENDS Naturals

CONSTANTS Jobs, MaxTries,
          Resumable   \* whether a failed or cancelled job can be queued again

VARIABLES phase,    \* [Jobs -> Phases]
          tries,    \* [Jobs -> 0..MaxTries]
          results   \* jobs whose result a reader sees

jvars == <<phase, tries, results>>

Active == {"queued", "running"}
Terminal == {"completed", "failed", "cancelled"}

Init ==
  /\ phase = [j \in Jobs |-> "none"]
  /\ tries = [j \in Jobs |-> 0]
  /\ results = {}

Enter(S, p) == phase' = [j \in Jobs |-> IF j \in S THEN p ELSE phase[j]]

Accept(j) == phase[j] = "none" /\ Enter({j}, "queued") /\ UNCHANGED <<tries, results>>

(* A first try, or another one in place of a worker that went away.          *)
Try(j) ==
  /\ phase[j] \in Active /\ tries[j] < MaxTries
  /\ tries' = [tries EXCEPT ![j] = @ + 1]
  /\ Enter({j}, "running") /\ UNCHANGED results

Requeue(j) ==
  /\ phase[j] = "running" /\ tries[j] < MaxTries
  /\ Enter({j}, "queued") /\ UNCHANGED <<tries, results>>

Complete(j) ==
  /\ phase[j] = "running" /\ Enter({j}, "completed")
  /\ results' = results \cup {j} /\ UNCHANGED tries

Abandon(S) ==
  /\ \A j \in S : phase[j] = "running"
  /\ Enter(S, "failed") /\ UNCHANGED <<tries, results>>

Cancel(S) ==
  /\ \A j \in S : phase[j] \in Active
  /\ Enter(S, "cancelled") /\ UNCHANGED <<tries, results>>

Resume(j) ==
  /\ Resumable /\ phase[j] \in {"failed", "cancelled"}
  /\ tries' = [tries EXCEPT ![j] = 0]
  /\ Enter({j}, "queued") /\ UNCHANGED results

Delete(S) ==
  /\ \A j \in S : phase[j] \in Active \cup Terminal
  /\ Enter(S, "deleted")
  /\ results' = results \ S /\ UNCHANGED tries

Next ==
  \/ \E j \in Jobs : Accept(j) \/ Try(j) \/ Requeue(j) \/ Complete(j) \/ Resume(j)
  \/ \E S \in SUBSET Jobs : Abandon(S) \/ Cancel(S) \/ Delete(S)

Spec == Init /\ [][Next]_jvars
=============================================================================
