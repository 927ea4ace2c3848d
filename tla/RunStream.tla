------------------------------ MODULE RunStream ------------------------------
(***************************************************************************)
(* Watching one answer run (services/run_stream.py, api/routes/run_events.py, *)
(* frontend features/runs/events.ts and RunTimeline.tsx). The server polls    *)
(* the run and its event log with separate statements and sends what it found *)
(* as frames; connections break, and the browser reconnects with its cursor.  *)
(***************************************************************************)
EXTENDS Naturals, Sequences

CONSTANTS Polls,         \* 25 in the code
          MaxRevision,   \* model bound: previews written, 256 in the code
          MaxFaults      \* model bound: broken connections and refused requests

ASSUME StreamBounds == Polls \in Nat \ {0} /\ {MaxRevision, MaxFaults} \subseteq Nat

Terminal == {"completed", "failed", "cancelled"}
Statuses == {"queued", "running"} \cup Terminal

VARIABLES
  log,       \* run_events of the run; its last entry is the run's status
  live,      \* the lease of the running run has not expired
  revision, text,   \* preview_revision and preview_text
  access,    \* "ok", "deleted" (run gone) or "signed_out" (session gone)
  stream,    \* the server's handler of the current connection
  wire,      \* frames sent and not yet read
  phase,     \* the browser's timeline: what connect() is doing
  cursor, timeline,   \* last event id, and the events shown
  previewRevision, draft,   \* last revision accepted, and the text shown
  faults

runVars == <<log, live, revision, text, access>>
clientVars == <<phase, cursor, timeline, previewRevision, draft>>
vars == <<runVars, stream, wire, clientVars, faults>>

NoStream == [pc |-> "none", cursor |-> 0, tick |-> 0, status |-> "queued",
             preview |-> <<0, "none">>, sent |-> <<>>]

Init ==
  /\ log = <<"queued">> /\ live = FALSE /\ revision = 0 /\ text = "none"
  /\ access = "ok"
  /\ stream = NoStream /\ wire = <<>>
  /\ phase = "waiting"
  /\ cursor = 0 /\ timeline = <<>>
  /\ previewRevision = 0 /\ draft = "none"
  /\ faults = 0

Status == log[Len(log)]

-----------------------------------------------------------------------------
(* The run, its owner, and time.                                           *)

(* Status, event and an empty preview in one transaction.                   *)
Finish(s) ==
  /\ access # "deleted" /\ Status \notin Terminal
  /\ s = "completed" => Status = "running"
  /\ log' = Append(log, s)
  /\ live' = FALSE /\ text' = "none"
  /\ UNCHANGED <<revision, access>>

Start ==
  /\ access # "deleted" /\ Status = "queued"
  /\ log' = Append(log, "running") /\ live' = TRUE
  /\ UNCHANGED <<revision, text, access>>

WritePreview ==
  /\ access # "deleted" /\ Status = "running" /\ live
  /\ revision < MaxRevision
  /\ revision' = revision + 1 /\ text' = "draft"
  /\ UNCHANGED <<log, live, access>>

LeaseExpires == live /\ live' = FALSE /\ UNCHANGED <<log, revision, text, access>>

(* The conversation is deleted, or the session is revoked or expires.       *)
LoseAccess(a) == access = "ok" /\ access' = a /\ UNCHANGED <<log, live, revision, text>>

Run ==
  /\ \/ Start \/ WritePreview \/ LeaseExpires
     \/ \E s \in Terminal : Finish(s)
     \/ \E a \in {"deleted", "signed_out"} : LoseAccess(a)
  /\ UNCHANGED <<stream, wire, clientVars, faults>>

-----------------------------------------------------------------------------
(* RunStream.page: the run's row is one statement, its events are another.   *)

(* What a reader sees of the row: its status, and the draft while it is live. *)
Row == [status |-> Status, preview |-> <<revision, IF Status = "running" /\ live THEN text ELSE "none">>]

Events == IF access = "deleted" THEN <<>> ELSE log

StatusFrame(n) == [type |-> "run.status", seq |-> n, what |-> Events[n]]

(* Mutants: only the first new event; the new events but the first.          *)
AfterLimit(c) == IF Len(Events) > c THEN <<StatusFrame(c + 1)>> ELSE <<>>
AfterOffByOne(c) == [i \in 1..(Len(Events) - c - 1) |-> StatusFrame(c + 1 + i)]

(* The frames of the events after cursor c, three at most.                  *)
After(c) == [i \in 1..(Len(Events) - c) |-> StatusFrame(c + i)]

(* Mutant: the page only believes the row it read first.                    *)
EndsByRow(s, frames) == s \in Terminal

(* The page ends the stream when its row or one of its events is terminal.   *)
Ends(s, frames) == s \in Terminal \/ \E i \in DOMAIN frames : frames[i].what \in Terminal

Control(type, what) == [type |-> type, seq |-> 0, what |-> what]

(* The request: HTTP errors come before headers, from a page of its own and   *)
(* the limiter (30 per minute, 300 per hour); 401, 404 and 409 end the         *)
(* timeline, others are tried again.                                        *)
Connect ==
  /\ phase = "waiting"
  /\ \/ /\ access = "ok" /\ cursor <= Len(Events)
        /\ stream' = [NoStream EXCEPT !.pc = "row", !.cursor = cursor]
        /\ phase' = "open"
        /\ UNCHANGED <<draft, faults>>
     \/ /\ access # "ok" \/ cursor > Len(Events)
        /\ phase' = "stopped" /\ draft' = "none"
        /\ UNCHANGED <<stream, faults>>
     \/ /\ faults < MaxFaults /\ faults' = faults + 1
        /\ draft' = "none"
        /\ UNCHANGED <<phase, stream>>
  /\ wire' = <<>>
  /\ UNCHANGED <<runVars, cursor, timeline, previewRevision>>

(* An AppError after the headers is a frame.                                *)
Refuse(code) ==
  /\ wire' = Append(wire, Control("stream.error", code))
  /\ stream' = NoStream

(* Reauthenticate, then read the run.                                       *)
ReadRow ==
  /\ stream.pc = "row"
  /\ \/ access = "signed_out" /\ Refuse("unauthenticated")
     \/ access = "deleted" /\ Refuse("stream_unavailable")
     \/ /\ access = "ok"
        /\ stream' = [stream EXCEPT !.pc = "events", !.status = Row.status, !.preview = Row.preview]
        /\ UNCHANGED wire
  /\ UNCHANGED <<runVars, clientVars, faults>>

(* The rest of a page and its frames: events, a draft that changed, and the    *)
(* end; a handler that found no end asks the browser to reconnect.           *)
ReadEvents ==
  LET frames == After(stream.cursor)
      ended == Ends(stream.status, frames)
      shown == IF ended THEN <<stream.preview[1], "none">> ELSE stream.preview
      preview == IF shown = stream.sent THEN <<>>
                 ELSE <<[type |-> "answer.preview", seq |-> shown[1], what |-> shown[2]]>>
      last == stream.tick + 1 = Polls
      close == IF ended THEN <<Control("stream.end", "none")>>
               ELSE IF last THEN <<Control("stream.reconnect", "none")>> ELSE <<>>
  IN
  /\ stream.pc = "events"
  /\ \/ stream.cursor > Len(Events) /\ Refuse("stream_unavailable")
     \/ /\ stream.cursor <= Len(Events)
        /\ wire' = wire \o frames \o preview \o close
        /\ stream' = IF ended \/ last THEN NoStream
                     ELSE [stream EXCEPT !.pc = "row", !.cursor = Len(Events), !.tick = @ + 1,
                                         !.sent = shown]
  /\ UNCHANGED <<runVars, clientVars, faults>>

-----------------------------------------------------------------------------
(* The browser.                                                            *)

(* Any failure but 401 schedules another connection.                        *)
Interrupted(next) ==
  /\ phase' = next /\ draft' = "none"
  /\ stream' = NoStream /\ wire' = <<>>

(* A new event moves the cursor; a repeated one is skipped.                  *)
ReadStatus(frame) ==
  \/ /\ frame.seq <= cursor
     /\ wire' = Tail(wire)
     /\ UNCHANGED <<phase, cursor, timeline, draft, stream>>
  \/ /\ frame.seq = cursor + 1
     /\ wire' = Tail(wire)
     /\ cursor' = frame.seq /\ timeline' = Append(timeline, frame.what)
     /\ draft' = IF frame.what \in Terminal THEN "none" ELSE draft
     /\ UNCHANGED <<phase, stream>>
  \/ /\ frame.seq > cursor + 1   \* "Event sequence gap"
     /\ Interrupted("waiting")
     /\ UNCHANGED <<cursor, timeline>>

TerminalSeen == \E i \in DOMAIN timeline : timeline[i] \in Terminal

ReadPreview(frame) ==
  /\ wire' = Tail(wire)
  /\ IF ~TerminalSeen /\ frame.seq >= previewRevision
     THEN draft' = frame.what /\ previewRevision' = frame.seq
     ELSE UNCHANGED <<draft, previewRevision>>
  /\ UNCHANGED <<phase, cursor, timeline, stream>>

ReadControl(frame) ==
  Interrupted(IF frame.type = "stream.end" THEN "complete"
              ELSE IF frame.what = "unauthenticated" THEN "stopped" ELSE "waiting")

(* Mutant: a stream that asks to reconnect is not opened again.              *)
ReadReconnectAsEnd ==
  /\ phase' = "stopped" /\ stream' = NoStream /\ wire' = <<>>
  /\ UNCHANGED <<cursor, timeline, draft, previewRevision>>

(* stream.reconnect is not a failure: the draft stays on the screen.         *)
ReadReconnect ==
  /\ phase' = "waiting" /\ stream' = NoStream /\ wire' = <<>>
  /\ UNCHANGED <<cursor, timeline, draft, previewRevision>>

ReadFrame ==
  LET frame == Head(wire) IN
  /\ phase = "open" /\ wire # <<>>
  /\ \/ frame.type = "run.status" /\ ReadStatus(frame) /\ UNCHANGED previewRevision
     \/ frame.type = "answer.preview" /\ ReadPreview(frame)
     \/ frame.type = "stream.reconnect" /\ ReadReconnect
     \/ /\ frame.type \in {"stream.end", "stream.error"}
        /\ ReadControl(frame)
        /\ UNCHANGED <<cursor, timeline, previewRevision>>
  /\ UNCHANGED <<runVars, faults>>

(* The connection breaks, or 35 seconds pass; unread frames are lost.        *)
Break ==
  /\ faults < MaxFaults /\ faults' = faults + 1
  /\ phase = "open"
  /\ Interrupted("waiting")
  /\ UNCHANGED <<runVars, cursor, timeline, previewRevision>>

Next == Run \/ Connect \/ ReadRow \/ ReadEvents \/ ReadFrame \/ Break

Spec == Init /\ [][Next]_vars

(* The server's handler and the browser go on; runs end by what AnswerRuns    *)
(* shows, so that is a premise here.                                        *)
FairSpec == Spec /\ WF_vars(Connect) /\ WF_vars(ReadRow \/ ReadEvents) /\ WF_vars(ReadFrame)

-----------------------------------------------------------------------------
Frames == [type : {"run.status", "answer.preview", "stream.end", "stream.reconnect", "stream.error"},
           seq : Nat, what : Statuses \cup {"none", "draft", "unauthenticated", "stream_unavailable"}]

Drafts == (0..MaxRevision) \X {"none", "draft"}

TypeOK ==
  /\ log \in Seq(Statuses) /\ Len(log) \in 1..3
  /\ live \in BOOLEAN /\ revision \in 0..MaxRevision /\ text \in {"none", "draft"}
  /\ access \in {"ok", "deleted", "signed_out"}
  /\ stream \in [pc : {"none", "row", "events"}, cursor : 0..3, tick : 0..(Polls - 1),
                  status : Statuses, preview : Drafts, sent : {<< >>} \cup Drafts]
  /\ wire \in Seq(Frames)
  /\ phase \in {"waiting", "open", "complete", "stopped"}
  /\ cursor \in 0..3 /\ timeline \in Seq(Statuses)
  /\ previewRevision \in Nat /\ draft \in {"none", "draft"}
  /\ faults \in 0..MaxFaults

(* What the timeline shows is the beginning of the run's log, whatever was     *)
(* lost or sent twice over however many connections; and every event between   *)
(* the cursor and an event on the wire comes before it there: the browser      *)
(* never meets a sequence gap.                                              *)
TimelineIsPrefix ==
  /\ Len(timeline) <= Len(log) /\ timeline = SubSeq(log, 1, Len(timeline))
  /\ \A i \in DOMAIN wire : wire[i].type = "run.status" =>
       \A m \in (cursor + 1)..(wire[i].seq - 1) :
         \E j \in 1..(i - 1) : wire[j].type = "run.status" /\ wire[j].seq = m

(* "Timeline complete." is only shown over the whole log of an ended run,      *)
(* although the page reads the status before the events. (Unless both were     *)
(* deleted between the two.)                                                *)
CompleteIsComplete ==
  phase = "complete" /\ access # "deleted" => timeline = log /\ Status \in Terminal

(* A draft is only on the screen between the events running and the end: a    *)
(* preview never overtakes its run's first transition or outlives its last.   *)
(* (A deletion between the two statements of a page takes the events away     *)
(* and leaves the draft; the next page then ends the stream.) No draft is      *)
(* even sent after the last event, although the row was read before it.      *)
DraftOnlyWhileRunning ==
  /\ draft # "none" =>
       /\ ~TerminalSeen
       /\ access = "deleted" \/ (timeline # <<>> /\ timeline[Len(timeline)] = "running")
  /\ \A i, j \in DOMAIN wire :
       i < j /\ wire[i].what \in Terminal /\ wire[j].type = "answer.preview" => wire[j].what = "none"

(* A timeline whose run ended and stays readable gets complete.              *)
TimelineCompletes ==
  [](access = "ok") /\ <>(Status \in Terminal) => <>(phase = "complete")

=============================================================================
