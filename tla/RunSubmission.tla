---------------------------- MODULE RunSubmission ----------------------------
(***************************************************************************)
(* Submitting questions to one conversation from browser tabs                *)
(* (frontend features/runs/RunComposer.tsx and api.ts, lib/api/http.ts;       *)
(* services/answer_runs.py submit, replay, list and cancel). A submission     *)
(* carries a key the browser made up; requests and answers get lost or come   *)
(* late, the tab polls the list of runs meanwhile, and the user may press the *)
(* button again. How a run proceeds is AnswerRuns; here it is active or not.  *)
(***************************************************************************)
EXTENDS Naturals, Sequences, FiniteSets, SequencesExt

CONSTANTS Tabs,        \* RunComposers mounted on the conversation
          ListLimit,   \* 20 in the code: runs listed
          MaxKeys      \* model bound: keys the browsers make up

ASSUME SubmissionBounds == {ListLimit, MaxKeys} \subseteq Nat \ {0}

Keys == 1..MaxKeys

VARIABLES
  runs,      \* rows of the conversation in order of creation: key and active
  retried,   \* history: for every key made up, the key its press promised to retry
  stray,     \* submissions no tab waits for any more, still on their way
  typed,     \* something is in the tab's textarea
  pending,   \* key of the submission whose outcome the tab does not know, or 0
  alert,     \* "", "uncertain" or "message"
  about,     \* history: the key last sent for the text still in the textarea, or 0
  shown,     \* runs listed by the tab, newest first: key and active
  blind,     \* loading, or the last poll failed: the button is disabled
  poll,      \* the list on its way to the tab
  call       \* the POST the tab is busy with

tabVars == <<typed, pending, alert, about, shown, blind, poll, call>>
vars == <<runs, retried, stray, tabVars>>

Idle == [kind |-> "none", key |-> 0, reply |-> "", active |-> FALSE]
NoPoll == [read |-> FALSE, list |-> <<>>]

Init ==
  /\ runs = <<>> /\ retried = <<>> /\ stray = {}
  /\ typed = [t \in Tabs |-> FALSE] /\ pending = [t \in Tabs |-> 0]
  /\ alert = [t \in Tabs |-> ""] /\ about = [t \in Tabs |-> 0]
  /\ shown = [t \in Tabs |-> <<>>] /\ blind = [t \in Tabs |-> TRUE]
  /\ poll = [t \in Tabs |-> NoPoll] /\ call = [t \in Tabs |-> Idle]

-----------------------------------------------------------------------------
(* What the form lets its user do.                                         *)

Busy(t) == call[t] # Idle
Active(list) == \E i \in DOMAIN list : list[i].active

Type(t) ==
  /\ ~Busy(t) /\ pending[t] = 0 /\ ~Active(shown[t])
  /\ \E b \in BOOLEAN : typed' = [typed EXCEPT ![t] = b]
  /\ about' = [about EXCEPT ![t] = 0]
  /\ UNCHANGED <<runs, retried, stray, pending, alert, shown, blind, poll, call>>

Request(t, kind, k) ==
  /\ call' = [call EXCEPT ![t] = [Idle EXCEPT !.kind = kind, !.key = k, !.reply = "waiting"]]
  /\ alert' = [alert EXCEPT ![t] = ""]

(* submit: the pending submission, or what is typed under a key of its own.  *)
Press(t) ==
  /\ ~Busy(t) /\ ~blind[t] /\ ~Active(shown[t])
  /\ \/ /\ pending[t] # 0
        /\ Request(t, "submit", pending[t])
        /\ UNCHANGED <<retried, pending, about>>
     \/ /\ pending[t] = 0 /\ typed[t] /\ Len(retried) < MaxKeys
        /\ LET k == Len(retried) + 1 IN
           /\ Request(t, "submit", k)
           /\ pending' = [pending EXCEPT ![t] = k]
           /\ about' = [about EXCEPT ![t] = k]
        /\ retried' = Append(retried, IF alert[t] = "uncertain" THEN about[t] ELSE 0)
  /\ UNCHANGED <<runs, stray, typed, shown, blind, poll>>

PressCancel(t) ==
  /\ ~Busy(t)
  /\ \E i \in DOMAIN shown[t] : shown[t][i].active /\ Request(t, "cancel", shown[t][i].key)
  /\ UNCHANGED <<runs, retried, stray, typed, pending, about, shown, blind, poll>>

-----------------------------------------------------------------------------
(* The server.                                                             *)

(* Mutant: only an active run answers for its key.                          *)
RowOfActive(k) == {i \in DOMAIN runs : runs[i].key = k /\ runs[i].active}

RowOf(k) == {i \in DOMAIN runs : runs[i].key = k}

Reply(t, reply, active) ==
  call' = [call EXCEPT ![t].reply = reply, ![t].active = active]

(* submit, once its guards hold: a known key is replayed, a new run needs a   *)
(* conversation without an active one.                                      *)
Accept(k) ==
  /\ RowOf(k) = {} /\ ~Active(runs)
  /\ runs' = Append(runs, [key |-> k, active |-> TRUE])

HandleSubmit(t) ==
  LET k == call[t].key IN
  /\ call[t].kind = "submit" /\ call[t].reply = "waiting"
  /\ \/ \E i \in RowOf(k) : Reply(t, "ok", runs[i].active) /\ UNCHANGED runs
     \/ Accept(k) /\ Reply(t, "ok", TRUE)
  /\ UNCHANGED <<retried, stray, typed, pending, alert, about, shown, blind, poll>>

HandleCancel(t) ==
  /\ call[t].kind = "cancel" /\ call[t].reply = "waiting"
  /\ \E i \in RowOf(call[t].key) :
       \/ runs[i].active /\ runs' = [runs EXCEPT ![i].active = FALSE] /\ Reply(t, "ok", FALSE)
       \/ ~runs[i].active /\ Reply(t, "refused", FALSE) /\ UNCHANGED runs
  /\ UNCHANGED <<retried, stray, typed, pending, alert, about, shown, blind, poll>>

(* 400, 403, 404, 409, 422 and 429; 401; and everything of 500 and above,     *)
(* which may come before or after the handler's work.                       *)
Refuse(t) ==
  /\ call[t].reply = "waiting"
  /\ \E reply \in {"refused", "expired", "error"} : Reply(t, reply, FALSE)
  /\ UNCHANGED <<runs, retried, stray, typed, pending, alert, about, shown, blind, poll>>

HandleStray ==
  \E k \in stray :
    /\ Accept(k) \/ UNCHANGED runs
    /\ stray' = stray \ {k}
    /\ UNCHANGED <<retried, tabVars>>

(* The run completes, fails, is cancelled elsewhere or swept (AnswerRuns).    *)
EndRun ==
  \E i \in DOMAIN runs :
    /\ runs[i].active /\ runs' = [runs EXCEPT ![i].active = FALSE]
    /\ UNCHANGED <<retried, stray, tabVars>>

-----------------------------------------------------------------------------
(* What comes back to the tab.                                             *)

(* The session or the user ends the tab; it starts again from nothing.       *)
Remount(t) ==
  /\ typed' = [typed EXCEPT ![t] = FALSE] /\ pending' = [pending EXCEPT ![t] = 0]
  /\ alert' = [alert EXCEPT ![t] = ""] /\ about' = [about EXCEPT ![t] = 0]
  /\ shown' = [shown EXCEPT ![t] = <<>>] /\ blind' = [blind EXCEPT ![t] = TRUE]
  /\ poll' = [poll EXCEPT ![t] = NoPoll] /\ call' = [call EXCEPT ![t] = Idle]
  /\ stray' = IF call[t].kind = "submit" /\ call[t].reply = "waiting"
              THEN stray \cup {call[t].key} ELSE stray
  /\ UNCHANGED <<runs, retried>>

Listed(row, list) == <<row>> \o SelectSeq(list, LAMBDA other : other.key # row.key)

Newest(list) == SubSeq(list, 1, IF Len(list) < ListLimit THEN Len(list) ELSE ListLimit)

(* A run came back: it is listed and the list is asked for anew.             *)
ReceiveRun(t) ==
  LET row == [key |-> call[t].key, active |-> call[t].active] IN
  /\ call[t].reply = "ok"
  /\ \/ /\ call[t].kind = "submit"
        /\ shown' = [shown EXCEPT ![t] = Newest(Listed(row, @))]
        /\ pending' = [pending EXCEPT ![t] = 0]
        /\ typed' = [typed EXCEPT ![t] = FALSE] /\ about' = [about EXCEPT ![t] = 0]
     \/ /\ call[t].kind = "cancel"
        /\ shown' = [shown EXCEPT ![t] =
             [i \in DOMAIN @ |-> IF @[i].key = row.key THEN row ELSE @[i]]]
        /\ UNCHANGED <<typed, pending, about>>
  /\ poll' = [poll EXCEPT ![t] = NoPoll] /\ call' = [call EXCEPT ![t] = Idle]
  /\ UNCHANGED <<runs, retried, stray, alert, blind>>

(* Mutant: every answer of the server settles the submission.               *)
SettlesAlways(reply) == reply \in {"refused", "error"}

(* The statuses after which the submission is not pending any more.          *)
Settles(reply) == reply = "refused"

ReceiveError(t) ==
  \/ call[t].reply = "expired" /\ Remount(t)
  \/ /\ call[t].reply \in {"refused", "error"}
     /\ pending' = [pending EXCEPT ![t] =
          IF call[t].kind = "submit" /\ Settles(call[t].reply) THEN 0 ELSE @]
     /\ alert' = [alert EXCEPT ![t] = "message"]
     /\ call' = [call EXCEPT ![t] = Idle]
     /\ UNCHANGED <<runs, retried, stray, typed, about, shown, blind, poll>>

(* Twelve seconds, a broken connection or an unreadable answer; the request   *)
(* may still be on its way.                                                *)
GiveUp(t) ==
  /\ Busy(t)
  /\ alert' = [alert EXCEPT ![t] = IF call[t].kind = "submit" THEN "uncertain" ELSE "message"]
  /\ \/ stray' = stray
     \/ /\ call[t].kind = "submit" /\ call[t].reply = "waiting"
        /\ stray' = stray \cup {call[t].key}
  /\ call' = [call EXCEPT ![t] = Idle]
  /\ UNCHANGED <<runs, retried, typed, pending, about, shown, blind, poll>>

(* RunStore.recent: the newest first.                                       *)
ReadList(t) ==
  /\ ~poll[t].read
  /\ poll' = [poll EXCEPT ![t] = [read |-> TRUE, list |-> Newest(Reverse(runs))]]
  /\ UNCHANGED <<runs, retried, stray, typed, pending, alert, about, shown, blind, call>>

(* Mutant: a poll does not look for the pending submission.                  *)
RecognisesNothing(t, list) == FALSE

Recognises(t, list) == \E i \in DOMAIN list : list[i].key = pending[t]

ApplyList(t) ==
  /\ poll[t].read
  /\ shown' = [shown EXCEPT ![t] = poll[t].list]
  /\ blind' = [blind EXCEPT ![t] = FALSE]
  /\ pending' = [pending EXCEPT ![t] = IF Recognises(t, poll[t].list) THEN 0 ELSE @]
  /\ poll' = [poll EXCEPT ![t] = NoPoll]
  /\ UNCHANGED <<runs, retried, stray, typed, alert, about, call>>

(* The poll fails, or a refresh aborts it and starts another.                *)
DropList(t) ==
  /\ \E failed \in BOOLEAN : blind' = [blind EXCEPT ![t] = @ \/ failed]
  /\ poll' = [poll EXCEPT ![t] = NoPoll]
  /\ UNCHANGED <<runs, retried, stray, typed, pending, alert, about, shown, call>>

Tab(t) ==
  \/ Type(t) \/ Press(t) \/ PressCancel(t)
  \/ HandleSubmit(t) \/ HandleCancel(t) \/ Refuse(t)
  \/ ReceiveRun(t) \/ ReceiveError(t) \/ GiveUp(t) \/ Remount(t)
  \/ ReadList(t) \/ ApplyList(t) \/ DropList(t)

Next == HandleStray \/ EndRun \/ \E t \in Tabs : Tab(t)

Spec == Init /\ [][Next]_vars

(* A mounted tab keeps polling, and polls succeed again and again.           *)
FairSpec == Spec /\ \A t \in Tabs : WF_vars(ReadList(t)) /\ SF_vars(ApplyList(t))

-----------------------------------------------------------------------------
Row == [key : Keys, active : BOOLEAN]

(* A tab's request; a submission carries a key.                             *)
CallOK(c) ==
  /\ c \in [kind : {"none", "submit", "cancel"}, key : {c.key},
            reply : {"", "waiting", "ok", "refused", "expired", "error"}, active : BOOLEAN]
  /\ c.kind = "submit" => c.key \in Keys
  /\ c.kind = "none" => c.reply = ""

TypeOK ==
  /\ runs \in Seq(Row)
  /\ retried \in Seq(0..MaxKeys)
  /\ stray \subseteq Keys
  /\ pending \in [Tabs -> 0..MaxKeys] /\ about \in [Tabs -> 0..MaxKeys]
  /\ call = [t \in Tabs |-> call[t]] /\ \A t \in Tabs : CallOK(call[t])
  /\ poll \in [Tabs -> [read : BOOLEAN, list : Seq(Row)]]

Stored(k) == \E i \in DOMAIN runs : runs[i].key = k

(* A key makes one run, however often and late its submission arrives, also    *)
(* after that run has ended; and the conversation has one active run.        *)
AcceptedOnce ==
  /\ \A k \in Keys : Cardinality({i \in DOMAIN runs : runs[i].key = k}) <= 1
  /\ Cardinality({i \in DOMAIN runs : runs[i].active}) <= 1

(* A tab that stays open lets go of a submission only when its run exists or   *)
(* the server has refused it: an error or a silence keeps it for the retry.   *)
NeverForgotten ==
  [][\A t \in Tabs :
       pending[t] # 0 /\ pending'[t] = 0 =>
         Stored(pending[t]) \/ call[t].reply = "refused" \/ (shown'[t] = <<>> /\ blind'[t])]_vars

(* A submission whose answer was lost but whose run exists does not stay       *)
(* pending: the polls find it.                                             *)
PendingResolves ==
  \A t \in Tabs, k \in Keys : pending[t] = k /\ Stored(k) ~> pending[t] # k

(* RunComposer.tsx line 139, shown over an uncertain submission: "Retry the    *)
(* same submission below; its key prevents creating a second run."           *)
RetryMakesNoSecondRun ==
  \A k \in DOMAIN retried : retried[k] # 0 => ~(Stored(k) /\ Stored(retried[k]))

=============================================================================
