------------------------- MODULE RunSubmissionProofs -------------------------
(***************************************************************************)
(* RunSubmission for every number of tabs, keys and listed runs: a key makes  *)
(* one run, and a tab lets go of a submission only when it knows.            *)
(***************************************************************************)
EXTENDS RunSubmission, SequenceTheorems, FiniteSetTheorems, TLAPS

(* One row for a key, and one active row.                                   *)
RowsApart ==
  \A i, j \in DOMAIN runs :
    runs[i].key = runs[j].key \/ (runs[i].active /\ runs[j].active) => i = j

StoredKeys == {runs[i].key : i \in DOMAIN runs}

(* What a tab hears of is stored: runs in a list, and an accepted submission.  *)
Heard(t) ==
  /\ \A i \in DOMAIN poll[t].list : poll[t].list[i].key \in StoredKeys
  /\ call[t].kind = "submit" => pending[t] \in {0, call[t].key}
  /\ call[t].kind = "submit" /\ call[t].reply = "ok" => call[t].key \in StoredKeys

HeardOf == \A t \in Tabs : Heard(t)

(* Every tab shows something.                                               *)
Displayed == shown = [t \in Tabs |-> shown[t]] /\ blind = [t \in Tabs |-> blind[t]]

Invariant == TypeOK /\ RowsApart /\ HeardOf /\ Displayed

-----------------------------------------------------------------------------
(* An empty list, and a tab without a poll.                                 *)
LEMMA EmptyList == ASSUME NEW S PROVE << >> \in Seq(S) /\ DOMAIN << >> = {}
  <1>1. << >> \in Seq(S) /\ Len(<< >>) = 0
    BY EmptySeq
  <1>2. DOMAIN << >> = 1..0
    BY <1>1, LenProperties
  <1>3. QED
    BY <1>1, <1>2

LEMMA NoPollOK == NoPoll \in [read : BOOLEAN, list : Seq(Row)] /\ DOMAIN NoPoll.list = {}
  BY EmptyList DEF NoPoll

(* No run, no request in the first state.                                   *)
LEMMA InitInvariant == Init => Invariant
  <1> SUFFICES ASSUME Init PROVE Invariant
    OBVIOUS
  <1>1. MaxKeys \in Nat
    BY SubmissionBounds DEF SubmissionBounds
  <1>2. CallOK(Idle)
    BY DEF CallOK, Idle
  <1>3. TypeOK
    <2>1. runs \in Seq(Row) /\ retried \in Seq(0..MaxKeys) /\ stray \subseteq Keys
      BY EmptyList DEF Init
    <2>2. poll \in [Tabs -> [read : BOOLEAN, list : Seq(Row)]]
      BY NoPollOK DEF Init
    <2>5. pending \in [Tabs -> 0..MaxKeys] /\ about \in [Tabs -> 0..MaxKeys]
      <3>1. pending = [t \in Tabs |-> 0] /\ about = [t \in Tabs |-> 0]
        BY DEF Init
      <3>2. 0 \in 0..MaxKeys
        BY <1>1
      <3>3. QED
        BY <3>1, <3>2
    <2>3. call = [t \in Tabs |-> call[t]] /\ \A t \in Tabs : CallOK(call[t])
      BY <1>2 DEF Init
    <2>4. QED
      BY <2>1, <2>2, <2>3, <2>5 DEF TypeOK
  <1>4. RowsApart
    BY EmptyList DEF Init, RowsApart
  <1>5. HeardOf
    <2>1. \A t \in Tabs : poll[t].list = << >> /\ call[t].kind = "none"
      BY DEF Init, NoPoll, Idle
    <2>2. QED
      BY <2>1, EmptyList DEF HeardOf, Heard
  <1>6. Displayed
    BY DEF Init, Displayed
  <1>7. QED
    BY <1>3, <1>4, <1>5, <1>6 DEF Invariant

(* Rows are never removed and keep their keys.                               *)
RowsStay == Len(runs) <= Len(runs') /\ \A i \in DOMAIN runs : i \in DOMAIN runs' /\ runs'[i].key = runs[i].key

RowMoves ==
  \/ UNCHANGED runs
  \/ \E k \in Keys : Accept(k)
  \/ \E i \in DOMAIN runs : runs[i].active /\ runs' = [runs EXCEPT ![i].active = FALSE]

(* What a step may do to the rows.                                          *)
LEMMA StepMoves == ASSUME TypeOK, Next PROVE RowMoves
  <1>1. CASE HandleStray
    BY <1>1 DEF HandleStray, RowMoves, TypeOK
  <1>2. CASE EndRun
    BY <1>2 DEF EndRun, RowMoves
  <1>3. ASSUME NEW t \in Tabs, Tab(t) PROVE RowMoves
    <2>1. CASE HandleSubmit(t)
      BY <2>1 DEF HandleSubmit, RowMoves, TypeOK, CallOK
    <2>2. CASE HandleCancel(t)
      BY <2>2 DEF HandleCancel, RowMoves, RowOf
    <2>3. CASE ~HandleSubmit(t) /\ ~HandleCancel(t)
      BY <1>3, <2>3 DEF Tab, RowMoves, Type, Press, PressCancel, Refuse, ReceiveRun, ReceiveError,
           GiveUp, Remount, ReadList, ApplyList, DropList
    <2>4. QED
      BY <2>1, <2>2, <2>3
  <1>4. QED
    BY <1>1, <1>2, <1>3 DEF Next

(* Rows are only added, with a key of their own.                            *)
LEMMA RowStep ==
  ASSUME runs \in Seq(Row), RowsApart, RowMoves PROVE runs' \in Seq(Row) /\ RowsApart' /\ RowsStay
  <1>1. CASE UNCHANGED runs
    BY <1>1 DEF RowsApart, RowsStay
  <1>2. ASSUME NEW k \in Keys, Accept(k) PROVE runs' \in Seq(Row) /\ RowsApart' /\ RowsStay
    <2> DEFINE new == [key |-> k, active |-> TRUE]
    <2>1. new \in Row /\ runs' = Append(runs, new) /\ new.key = k /\ new.active
      BY <1>2 DEF Accept, Row
    <2>2. \A i \in DOMAIN runs : runs[i].key # k /\ ~runs[i].active
      BY <1>2 DEF Accept, RowOf, Active
    <2> HIDE DEF new
    <2>3. /\ runs' \in Seq(Row) /\ Len(runs') = Len(runs) + 1 /\ runs'[Len(runs) + 1] = new
          /\ \A i \in 1..Len(runs) : runs'[i] = runs[i]
      BY <2>1, AppendProperties
    <2>4. QED
      BY <2>1, <2>2, <2>3 DEF RowsApart, RowsStay
  <1>3. ASSUME NEW n \in DOMAIN runs, runs' = [runs EXCEPT ![n].active = FALSE]
        PROVE  runs' \in Seq(Row) /\ RowsApart' /\ RowsStay
    <2> DEFINE row == [runs[n] EXCEPT !.active = FALSE]
    <2>0. runs[n] \in Row
      OBVIOUS
    <2>1. row \in Row /\ row.key = runs[n].key /\ ~row.active
      BY <2>0 DEF Row
    <2>2. runs' = [runs EXCEPT ![n] = row]
      BY <1>3
    <2> HIDE DEF row
    <2>3. /\ runs' \in Seq(Row) /\ DOMAIN runs' = DOMAIN runs /\ Len(runs') = Len(runs)
          /\ \A i \in DOMAIN runs : runs'[i] = IF i = n THEN row ELSE runs[i]
      BY <2>1, <2>2
    <2>4. QED
      BY <2>1, <2>3 DEF RowsApart, RowsStay
  <1>4. QED
    BY <1>1, <1>2, <1>3 DEF RowMoves

(* Everything about a tab but what it does itself stays.                      *)
Others(t) ==
  \A u \in Tabs \ {t} : pending'[u] = pending[u] /\ call'[u] = call[u] /\ poll'[u] = poll[u]

(* What is stored stays stored.                                             *)
LEMMA StoredStays == ASSUME RowsStay PROVE StoredKeys \subseteq StoredKeys'
  BY DEF RowsStay, StoredKeys

(* A step of one tab that leaves the others alone.                          *)
LEMMA TabFrame ==
  ASSUME TypeOK, HeardOf, RowsStay, NEW t \in Tabs, Others(t), CallOK(call'[t]), Heard(t)',
         runs' \in Seq(Row), retried' \in Seq(0..MaxKeys), stray' \subseteq Keys,
         about' \in [Tabs -> 0..MaxKeys],
         pending' \in [Tabs -> 0..MaxKeys], call' = [u \in Tabs |-> call'[u]],
         poll' \in [Tabs -> [read : BOOLEAN, list : Seq(Row)]]
  PROVE  TypeOK' /\ HeardOf'
  <1>1. TypeOK'
    BY DEF TypeOK, Others
  <1>2. ASSUME NEW u \in Tabs, u # t PROVE Heard(u)'
    <2>1. Heard(u) /\ pending'[u] = pending[u] /\ call'[u] = call[u] /\ poll'[u] = poll[u]
      BY <1>2 DEF HeardOf, Others
    <2>2. QED
      BY <2>1, StoredStays DEF Heard
  <1>3. QED
    BY <1>1, <1>2 DEF HeardOf

(* A step that changes the call of a tab to c, and its pending key to k.       *)
LEMMA CallChange ==
  ASSUME TypeOK, HeardOf, RowsStay, runs' \in Seq(Row), NEW t \in Tabs, NEW c, NEW k \in 0..MaxKeys,
         call' = [call EXCEPT ![t] = c], pending' = [pending EXCEPT ![t] = k],
         poll' = poll \/ poll' = [poll EXCEPT ![t] = NoPoll],
         retried' \in Seq(0..MaxKeys), stray' \subseteq Keys,
         about' \in [Tabs -> 0..MaxKeys], CallOK(c),
         c.kind = "submit" => k \in {0, c.key} /\ (c.reply = "ok" => c.key \in StoredKeys')
  PROVE  TypeOK' /\ HeardOf'
  <1>1. Others(t) /\ call'[t] = c /\ pending'[t] = k /\ poll'[t] \in {poll[t], NoPoll}
    BY DEF TypeOK, Others
  <1>2. \A i \in DOMAIN poll'[t].list : poll'[t].list[i].key \in StoredKeys'
    <2>1. CASE poll'[t] = poll[t]
      BY <2>1, StoredStays DEF HeardOf, Heard
    <2>2. CASE poll'[t] = NoPoll
      BY <2>2, NoPollOK
    <2>3. QED
      BY <1>1, <2>1, <2>2
  <1>3. Heard(t)'
    BY <1>1, <1>2 DEF Heard
  <1>4. /\ pending' \in [Tabs -> 0..MaxKeys] /\ call' = [u \in Tabs |-> call'[u]]
        /\ poll' \in [Tabs -> [read : BOOLEAN, list : Seq(Row)]]
    BY NoPollOK DEF TypeOK
  <1>5. QED
    BY <1>1, <1>3, <1>4, TabFrame

(* A tab that is not busy.                                                  *)
LEMMA IdleOK == CallOK(Idle) /\ Idle.kind = "none"
  BY DEF CallOK, Idle

(* Nothing happens to the calls, the polls and the keys kept by tabs.         *)
LEMMA Quiet ==
  ASSUME TypeOK, HeardOf, RowsStay, runs' \in Seq(Row), UNCHANGED <<pending, poll, call>>,
         retried' \in Seq(0..MaxKeys), stray' \subseteq Keys, about' \in [Tabs -> 0..MaxKeys]
  PROVE  TypeOK' /\ HeardOf'
  <1>1. TypeOK'
    BY DEF TypeOK
  <1>2. HeardOf'
    BY StoredStays DEF HeardOf, Heard
  <1>3. QED
    BY <1>1, <1>2

(* A request leaves the tab.                                                *)
LEMMA RequestCall ==
  ASSUME TypeOK, NEW t \in Tabs, NEW kind \in {"submit", "cancel"}, NEW k, Request(t, kind, k),
         kind = "submit" => k \in Keys
  PROVE  \E c : /\ call' = [call EXCEPT ![t] = c] /\ CallOK(c)
               /\ c.kind = kind /\ c.key = k /\ c.reply = "waiting"
  <1> DEFINE c == [Idle EXCEPT !.kind = kind, !.key = k, !.reply = "waiting"]
  <1>1. c \in [kind : {kind}, key : {k}, reply : {"waiting"}, active : BOOLEAN]
    BY DEF Idle
  <1>2. CallOK(c) /\ c.kind = kind /\ c.key = k /\ c.reply = "waiting"
    BY <1>1 DEF CallOK
  <1>3. call' = [call EXCEPT ![t] = c]
    BY DEF Request
  <1> HIDE DEF c
  <1>4. QED
    BY <1>2, <1>3

(* The server answers a call that waits.                                     *)
LEMMA ReplyCall ==
  ASSUME TypeOK, NEW t \in Tabs, call[t].reply = "waiting", NEW active \in BOOLEAN,
         NEW reply \in {"ok", "refused", "expired", "error"}, Reply(t, reply, active)
  PROVE  \E c : /\ call' = [call EXCEPT ![t] = c] /\ CallOK(c)
               /\ c.kind = call[t].kind /\ c.key = call[t].key /\ c.reply = reply
  <1> DEFINE c == [call[t] EXCEPT !.reply = reply, !.active = active]
  <1>1. CallOK(call[t])
    BY DEF TypeOK
  <1>2. c \in [kind : {call[t].kind}, key : {call[t].key}, reply : {reply}, active : BOOLEAN]
    BY <1>1 DEF CallOK
  <1>3. CallOK(c) /\ c.kind = call[t].kind /\ c.key = call[t].key /\ c.reply = reply
    BY <1>1, <1>2 DEF CallOK
  <1>4. call' = [call EXCEPT ![t] = c]
    BY DEF Reply, TypeOK
  <1> HIDE DEF c
  <1>5. QED
    BY <1>3, <1>4

(* What a tab is busy with, and the key it keeps.                            *)
LEMMA TabFields ==
  ASSUME TypeOK, HeardOf, NEW t \in Tabs
  PROVE  /\ CallOK(call[t]) /\ Heard(t) /\ pending[t] \in 0..MaxKeys
         /\ pending = [pending EXCEPT ![t] = pending[t]] /\ call = [call EXCEPT ![t] = call[t]]
  BY DEF TypeOK, HeardOf

(* A button is pressed.                                                     *)
LEMMA PressStep ==
  ASSUME TypeOK, HeardOf, RowsStay, NEW t \in Tabs, Press(t) \/ PressCancel(t) PROVE TypeOK' /\ HeardOf'
  <1>0. UNCHANGED <<runs, stray, poll>> /\ runs \in Seq(Row) /\ stray \subseteq Keys
    BY DEF Press, PressCancel, TypeOK
  <1>1. CASE PressCancel(t)
    <2>1. UNCHANGED <<retried, pending, about>> /\ \E k : Request(t, "cancel", k)
      BY <1>1 DEF PressCancel
    <2>2. \E c : call' = [call EXCEPT ![t] = c] /\ CallOK(c) /\ c.kind = "cancel"
      BY <2>1, RequestCall
    <2>3. retried \in Seq(0..MaxKeys) /\ about \in [Tabs -> 0..MaxKeys]
      BY DEF TypeOK
    <2>4. QED
      BY <1>0, <2>1, <2>2, <2>3, TabFields, CallChange
  <1>2. CASE Press(t) /\ pending[t] # 0
    <2>1. UNCHANGED <<retried, pending, about>> /\ Request(t, "submit", pending[t]) /\ pending[t] \in Keys
      BY <1>2, TabFields DEF Press, Keys
    <2>2. \E c : call' = [call EXCEPT ![t] = c] /\ CallOK(c) /\ c.key = pending[t] /\ c.reply = "waiting"
      BY <2>1, RequestCall
    <2>3. retried \in Seq(0..MaxKeys) /\ about \in [Tabs -> 0..MaxKeys]
      BY DEF TypeOK
    <2>4. QED
      BY <1>0, <2>1, <2>2, <2>3, TabFields, CallChange
  <1>3. CASE Press(t) /\ pending[t] = 0
    <2> DEFINE k == Len(retried) + 1
               old == IF alert[t] = "uncertain" THEN about[t] ELSE 0
    <2>1. /\ Request(t, "submit", k) /\ pending' = [pending EXCEPT ![t] = k]
          /\ about' = [about EXCEPT ![t] = k] /\ Len(retried) < MaxKeys
          /\ retried' = Append(retried, old)
      BY <1>3 DEF Press
    <2>2. MaxKeys \in Nat /\ Len(retried) \in Nat /\ old \in 0..MaxKeys
      BY SubmissionBounds DEF SubmissionBounds, TypeOK
    <2>3. k \in Keys /\ k \in 0..MaxKeys
      BY <2>1, <2>2 DEF Keys
    <2> HIDE DEF k, old
    <2>4. retried' \in Seq(0..MaxKeys) /\ about' \in [Tabs -> 0..MaxKeys]
      BY <2>1, <2>2, <2>3, AppendProperties DEF TypeOK
    <2>5. \E c : call' = [call EXCEPT ![t] = c] /\ CallOK(c) /\ c.key = k /\ c.reply = "waiting"
      BY <2>1, <2>3, RequestCall
    <2>6. QED
      BY <1>0, <2>1, <2>3, <2>4, <2>5, CallChange
  <1>4. QED
    BY <1>1, <1>2, <1>3

(* A request is handled.                                                    *)
LEMMA ServerStep ==
  ASSUME TypeOK, HeardOf, RowsStay, runs' \in Seq(Row), NEW t \in Tabs,
         HandleSubmit(t) \/ HandleCancel(t) \/ Refuse(t)
  PROVE  TypeOK' /\ HeardOf'
  <1>0. /\ UNCHANGED <<retried, stray, poll, pending, about>> /\ stray \subseteq Keys
        /\ retried \in Seq(0..MaxKeys) /\ about \in [Tabs -> 0..MaxKeys]
    BY DEF HandleSubmit, HandleCancel, Refuse, TypeOK
  <1>1. call[t].kind = "submit" => pending[t] \in {0, call[t].key}
    BY TabFields DEF Heard
  <1>2. \E reply \in {"ok", "refused", "expired", "error"}, active \in BOOLEAN :
          /\ Reply(t, reply, active) /\ call[t].reply = "waiting"
          /\ call[t].kind = "submit" /\ reply = "ok" => call[t].key \in StoredKeys'
    <2>1. CASE HandleSubmit(t)
      <3>1. CASE \E i \in RowOf(call[t].key) : Reply(t, "ok", runs[i].active) /\ UNCHANGED runs
        <4> PICK i \in RowOf(call[t].key) : Reply(t, "ok", runs[i].active) /\ UNCHANGED runs
          BY <3>1
        <4>1. i \in DOMAIN runs /\ runs[i].key = call[t].key /\ runs[i] \in Row
          BY DEF RowOf, TypeOK
        <4>2. QED
          BY <2>1, <4>1 DEF HandleSubmit, Row, StoredKeys
      <3>2. CASE Accept(call[t].key) /\ Reply(t, "ok", TRUE)
        <4>1. call[t].key \in Keys
          BY <2>1, TabFields DEF HandleSubmit, CallOK
        <4>2. /\ runs' = Append(runs, [key |-> call[t].key, active |-> TRUE])
              /\ [key |-> call[t].key, active |-> TRUE] \in Row /\ runs \in Seq(Row)
          BY <3>2, <4>1 DEF Accept, Row, TypeOK
        <4>3. Len(runs) + 1 \in DOMAIN runs' /\ runs'[Len(runs) + 1].key = call[t].key
          BY <4>2, AppendProperties, LenProperties
        <4>4. QED
          BY <2>1, <3>2, <4>3 DEF HandleSubmit, StoredKeys
      <3>3. QED
        BY <2>1, <3>1, <3>2 DEF HandleSubmit
    <2>2. CASE HandleCancel(t)
      BY <2>2 DEF HandleCancel
    <2>3. CASE Refuse(t)
      BY <2>3 DEF Refuse
    <2>4. QED
      BY <2>1, <2>2, <2>3
  <1>3. PICK reply \in {"ok", "refused", "expired", "error"}, active \in BOOLEAN :
          /\ Reply(t, reply, active) /\ call[t].reply = "waiting"
          /\ call[t].kind = "submit" /\ reply = "ok" => call[t].key \in StoredKeys'
    BY <1>2
  <1>4. \E c : /\ call' = [call EXCEPT ![t] = c] /\ CallOK(c)
              /\ c.kind = call[t].kind /\ c.key = call[t].key /\ c.reply = reply
    BY <1>3, ReplyCall
  <1>5. QED
    BY <1>0, <1>1, <1>3, <1>4, TabFields, CallChange

(* A tab that has its answer, gives up or starts anew is idle.                *)
LEMMA SettleStep ==
  ASSUME TypeOK, HeardOf, RowsStay, NEW t \in Tabs,
         ReceiveRun(t) \/ ReceiveError(t) \/ GiveUp(t) \/ Remount(t)
  PROVE  TypeOK' /\ HeardOf'
  <1>1. 0 \in 0..MaxKeys
    BY SubmissionBounds DEF SubmissionBounds
  <1>2. /\ UNCHANGED <<runs, retried>> /\ runs \in Seq(Row) /\ retried \in Seq(0..MaxKeys)
        /\ call' = [call EXCEPT ![t] = Idle]
        /\ poll' = poll \/ poll' = [poll EXCEPT ![t] = NoPoll]
    BY DEF ReceiveRun, ReceiveError, GiveUp, Remount, TypeOK
  <1>3. stray' \subseteq Keys
    <2>1. stray \subseteq Keys /\ (call[t].kind = "submit" => call[t].key \in Keys)
      BY TabFields DEF TypeOK, CallOK
    <2>2. stray' \subseteq stray \cup {call[t].key} /\ (call[t].kind # "submit" => stray' = stray)
      BY DEF ReceiveRun, ReceiveError, GiveUp, Remount
    <2>3. QED
      BY <2>1, <2>2
  <1>4. about' \in [Tabs -> 0..MaxKeys]
    BY <1>1 DEF ReceiveRun, ReceiveError, GiveUp, Remount, TypeOK
  <1>5. \E k \in 0..MaxKeys : pending' = [pending EXCEPT ![t] = k]
    BY <1>1, TabFields, ZenonT(30) DEF ReceiveRun, ReceiveError, GiveUp, Remount
  <1>6. CallOK(Idle) /\ Idle.kind = "none"
    BY IdleOK
  <1>7. QED
    BY <1>2, <1>3, <1>4, <1>5, <1>6, CallChange

(* A list is a part of the rows, backwards.                                  *)
LEMMA ListedRows ==
  ASSUME runs \in Seq(Row)
  PROVE  /\ Newest(Reverse(runs)) \in Seq(Row)
         /\ \A i \in DOMAIN Newest(Reverse(runs)) : Newest(Reverse(runs))[i].key \in StoredKeys
  <1> DEFINE back == Reverse(runs)
             m == IF Len(back) < ListLimit THEN Len(back) ELSE ListLimit
  <1>1. /\ back \in Seq(Row) /\ Len(back) = Len(runs)
        /\ \A i \in 1..Len(back) : back[i] = runs[Len(runs) - i + 1]
    BY DEF Reverse
  <1>2. m \in Nat /\ m <= Len(back)
    BY <1>1, SubmissionBounds DEF SubmissionBounds
  <1>3. Newest(back) = SubSeq(back, 1, m)
    BY DEF Newest
  <1> HIDE DEF back, m
  <1>4. /\ SubSeq(back, 1, m) \in Seq(Row) /\ Len(SubSeq(back, 1, m)) = m
        /\ \A i \in 1..m : SubSeq(back, 1, m)[i] = back[i]
    BY <1>1, <1>2, SubSeqProperties
  <1>5. \A i \in 1..m : back[i].key \in StoredKeys
    <2>1. ASSUME NEW i \in 1..m PROVE back[i].key \in StoredKeys
      <3>1. i \in 1..Len(back) /\ Len(runs) - i + 1 \in DOMAIN runs
        BY <1>1, <1>2, LenProperties
      <3>2. back[i] = runs[Len(runs) - i + 1]
        BY <1>1, <3>1
      <3>3. QED
        BY <3>1, <3>2 DEF StoredKeys
    <2>2. QED
      BY <2>1
  <1>6. QED
    BY <1>3, <1>4, <1>5, LenProperties DEF back

(* A list of runs is read, shown or lost.                                   *)
LEMMA PollStep ==
  ASSUME TypeOK, HeardOf, RowsStay, NEW t \in Tabs, ReadList(t) \/ ApplyList(t) \/ DropList(t)
  PROVE  TypeOK' /\ HeardOf'
  <1>0. /\ UNCHANGED <<runs, retried, stray, about, call>> /\ runs \in Seq(Row)
        /\ retried \in Seq(0..MaxKeys) /\ stray \subseteq Keys /\ about \in [Tabs -> 0..MaxKeys]
    BY DEF ReadList, ApplyList, DropList, TypeOK
  <1>1. CASE ReadList(t)
    <2> DEFINE list == Newest(Reverse(runs))
               p == [read |-> TRUE, list |-> list]
    <2>1. UNCHANGED pending /\ poll' = [poll EXCEPT ![t] = p]
      BY <1>1 DEF ReadList
    <2>2. list \in Seq(Row) /\ \A i \in DOMAIN list : list[i].key \in StoredKeys
      BY <1>0, ListedRows
    <2> HIDE DEF list
    <2>3. p \in [read : BOOLEAN, list : Seq(Row)] /\ p.list = list
      BY <2>2
    <2> HIDE DEF p
    <2>4. Others(t) /\ poll'[t] = p /\ poll' \in [Tabs -> [read : BOOLEAN, list : Seq(Row)]]
      BY <1>0, <2>1, <2>3 DEF TypeOK, Others
    <2>5. Heard(t)'
      BY <1>0, <2>1, <2>2, <2>3, <2>4, StoredStays, TabFields DEF Heard
    <2>6. CallOK(call'[t]) /\ pending' \in [Tabs -> 0..MaxKeys] /\ call' = [u \in Tabs |-> call'[u]]
      BY <1>0, <2>1 DEF TypeOK
    <2>7. QED
      BY <1>0, <2>4, <2>5, <2>6, TabFrame
  <1>2. CASE ApplyList(t) \/ DropList(t)
    <2>1. poll' = [poll EXCEPT ![t] = NoPoll]
      BY <1>2 DEF ApplyList, DropList
    <2>2. \E k \in {0, pending[t]} : pending' = [pending EXCEPT ![t] = k]
      BY <1>2, TabFields DEF ApplyList, DropList
    <2>3. 0 \in 0..MaxKeys
      BY SubmissionBounds DEF SubmissionBounds
    <2>4. call[t].kind = "submit" =>
            pending[t] \in {0, call[t].key} /\ (call[t].reply = "ok" => call[t].key \in StoredKeys')
      BY TabFields, StoredStays DEF Heard
    <2>5. QED
      BY <1>0, <2>1, <2>2, <2>3, <2>4, TabFields, CallChange
  <1>3. QED
    BY <1>1, <1>2

(* What is shown is shown by a tab.                                         *)
LEMMA DisplayStep == ASSUME Displayed, Next PROVE Displayed'
  <1>1. CASE HandleStray \/ EndRun
    BY <1>1 DEF HandleStray, EndRun, tabVars, Displayed
  <1>2. ASSUME NEW t \in Tabs, Tab(t) PROVE Displayed'
    <2>1. CASE ReceiveRun(t) \/ ReceiveError(t) \/ Remount(t) \/ ApplyList(t) \/ DropList(t)
      BY <2>1 DEF ReceiveRun, ReceiveError, Remount, ApplyList, DropList, Displayed
    <2>2. CASE Type(t) \/ Press(t) \/ PressCancel(t) \/ HandleSubmit(t) \/ HandleCancel(t) \/ Refuse(t)
               \/ GiveUp(t) \/ ReadList(t)
      BY <2>2 DEF Type, Press, PressCancel, HandleSubmit, HandleCancel, Refuse, GiveUp, ReadList, Displayed
    <2>3. QED
      BY <1>2, <2>1, <2>2 DEF Tab
  <1>3. QED
    BY <1>1, <1>2 DEF Next

(* All steps together.                                                      *)
LEMMA InvariantStep == ASSUME Invariant, [Next]_vars PROVE Invariant'
  <1>1. CASE UNCHANGED vars
    BY <1>1 DEF vars, tabVars, Invariant, TypeOK, RowsApart, HeardOf, Heard, StoredKeys, Displayed
  <1>2. CASE Next
    <2>1. TypeOK /\ HeardOf /\ RowsStay /\ runs' \in Seq(Row) /\ RowsApart'
      BY <1>2, StepMoves, RowStep DEF Invariant, TypeOK
    <2>2. ASSUME HandleStray \/ EndRun PROVE TypeOK' /\ HeardOf'
      <3>1. UNCHANGED <<pending, poll, call>> /\ UNCHANGED <<retried, about>> /\ stray' \subseteq Keys
        BY <2>1, <2>2 DEF HandleStray, EndRun, tabVars, TypeOK
      <3>2. retried' \in Seq(0..MaxKeys) /\ about' \in [Tabs -> 0..MaxKeys]
        BY <2>1, <3>1 DEF TypeOK
      <3>3. QED
        BY <2>1, <3>1, <3>2, Quiet
    <2>3. ASSUME NEW t \in Tabs, Tab(t) PROVE TypeOK' /\ HeardOf'
      <3>1. CASE Type(t)
        <4>1. UNCHANGED <<runs, pending, poll, call, retried, stray>> /\ about' \in [Tabs -> 0..MaxKeys]
          BY <2>1, <3>1, SubmissionBounds DEF Type, TypeOK, SubmissionBounds
        <4>2. QED
          BY <2>1, <4>1, Quiet DEF TypeOK
      <3>2. QED
        BY <2>1, <2>3, <3>1, PressStep, ServerStep, SettleStep, PollStep DEF Tab
    <2>4. QED
      BY <1>2, <2>1, <2>2, <2>3, DisplayStep DEF Next, Invariant
  <1>3. QED
    BY <1>1, <1>2

(* Rows stay apart and what a tab hears of is stored, after any steps.      *)
THEOREM InvariantHolds == Spec => []Invariant
  BY InitInvariant, InvariantStep, PTL DEF Spec

-----------------------------------------------------------------------------
(* A key makes one run, however often and late its submission arrives, and    *)
(* the conversation has one active run.                                     *)
THEOREM SubmissionsAcceptedOnce == Spec => []AcceptedOnce
  <1>1. ASSUME Invariant PROVE AcceptedOnce
    <2>1. ASSUME NEW S, \A i, j \in S : i = j PROVE Cardinality(S) <= 1
      <3>1. CASE S = {}
        BY <3>1, FS_EmptySet
      <3>2. CASE S # {}
        <4> PICK i \in S : TRUE
          BY <3>2
        <4>1. S = {i}
          BY <2>1
        <4>2. Cardinality({i}) = 1
          BY FS_Singleton
        <4>3. QED
          BY <4>1, <4>2
      <3>3. QED
        BY <3>1, <3>2
    <2>2. ASSUME NEW k \in Keys PROVE Cardinality({i \in DOMAIN runs : runs[i].key = k}) <= 1
      BY <1>1, <2>1 DEF Invariant, RowsApart
    <2>3. Cardinality({i \in DOMAIN runs : runs[i].active}) <= 1
      BY <1>1, <2>1 DEF Invariant, RowsApart
    <2>4. QED
      BY <2>2, <2>3 DEF AcceptedOnce
  <1>2. Invariant => AcceptedOnce
    BY <1>1
  <1>3. QED
    BY <1>2, InvariantHolds, PTL

(* A tab that stays open keeps the key of a submission until its run is        *)
(* stored or the server has refused it.                                     *)
THEOREM SubmissionsNotForgotten == Spec => NeverForgotten
  <1> DEFINE Kept == \A t \in Tabs :
               pending[t] # 0 /\ pending'[t] = 0 =>
                 Stored(pending[t]) \/ call[t].reply = "refused" \/ (shown'[t] = <<>> /\ blind'[t])
  <1>1. ASSUME Invariant, [Next]_vars PROVE Kept
    <2>1. CASE UNCHANGED vars \/ HandleStray \/ EndRun
      BY <2>1 DEF vars, tabVars, HandleStray, EndRun
    <2>2. ASSUME NEW u \in Tabs, Tab(u), NEW t \in Tabs, pending[t] # 0, pending'[t] = 0
          PROVE  Stored(pending[t]) \/ call[t].reply = "refused" \/ (shown'[t] = <<>> /\ blind'[t])
      <3>1. \A k \in StoredKeys : Stored(k)
        BY DEF StoredKeys, Stored
      <3>2. pending \in [Tabs -> 0..MaxKeys] /\ Heard(t) /\ CallOK(call[t])
        BY <1>1 DEF Invariant, TypeOK, HeardOf
      <3>3. CASE ReceiveRun(u)
        BY <2>2, <3>1, <3>2, <3>3 DEF ReceiveRun, Heard
      <3>4. CASE Remount(u)
        BY <1>1, <2>2, <3>2, <3>4 DEF Remount, Invariant, Displayed
      <3>8. CASE ReceiveError(u) /\ ~Remount(u)
        BY <2>2, <3>2, <3>8 DEF ReceiveError, Settles
      <3>5. CASE ApplyList(u)
        BY <2>2, <3>1, <3>2, <3>5 DEF ApplyList, Recognises, Heard
      <3>6. CASE Press(u)
        BY <2>2, <3>2, <3>6, SubmissionBounds DEF Press
      <3>7. QED
        BY <2>2, <3>3, <3>4, <3>5, <3>6, <3>8 DEF Tab, Type, PressCancel, HandleSubmit, HandleCancel,
             Refuse, GiveUp, ReadList, DropList
    <2>3. QED
      BY <1>1, <2>1, <2>2 DEF Next
  <1>2. Invariant /\ [Next]_vars => [Kept]_vars
    BY <1>1
  <1>3. QED
    BY <1>2, InvariantHolds, PTL DEF Spec, NeverForgotten

=============================================================================
