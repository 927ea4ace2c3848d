---------------------------- MODULE RunLifecycle ----------------------------
(***************************************************************************)
(* What answer runs promise, without queue, broker, leases or workers: a     *)
(* run moves along queued, running and one terminal state, its answer        *)
(* becomes visible in the very step that completes it, and both disappear    *)
(* only when the conversation is deleted.                                    *)
(***************************************************************************)
EXTENDS Naturals

CONSTANT Runs

VARIABLES phase,    \* [Runs -> Phases]
          answers   \* runs whose answer a reader of the conversation sees

avars == <<phase, answers>>

Active == {"queued", "running"}
Terminal == {"completed", "failed", "cancelled"}

Init ==
  /\ phase = [r \in Runs |-> "none"]
  /\ answers = {}

(* The runs of S enter phase p together.                                    *)
Enter(S, p) == phase' = [r \in Runs |-> IF r \in S THEN p ELSE phase[r]]

Accept(r) == phase[r] = "none" /\ Enter({r}, "queued") /\ UNCHANGED answers

Start(r) == phase[r] = "queued" /\ Enter({r}, "running") /\ UNCHANGED answers

Answer(r) ==
  /\ phase[r] = "running" /\ Enter({r}, "completed")
  /\ answers' = answers \cup {r}

(* Failures are found one by one by workers, together by the dispatcher.     *)
Abandon(S) ==
  /\ \A r \in S : phase[r] \in Active
  /\ Enter(S, "failed") /\ UNCHANGED answers

Cancel(r) == phase[r] \in Active /\ Enter({r}, "cancelled") /\ UNCHANGED answers

Delete(S) ==
  /\ \A r \in S : phase[r] \in Active \cup Terminal
  /\ Enter(S, "deleted")
  /\ answers' = answers \ S

Next ==
  \/ \E r \in Runs : Accept(r) \/ Start(r) \/ Answer(r) \/ Cancel(r)
  \/ \E S \in SUBSET Runs : Abandon(S) \/ Delete(S)

Spec == Init /\ [][Next]_avars
=============================================================================
