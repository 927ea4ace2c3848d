--------------------------- MODULE ProviderStream ---------------------------
(***************************************************************************)
(* One request to the model provider (generation/openai.py, openai_stream.py *)
(* and openai_payload.py) and the writer of provisional text it feeds         *)
(* (jobs/answer_preview.py). A streamed answer arrives as events that nobody   *)
(* vouches for: the adapter accepts what one completed event confirms, and    *)
(* reports what was paid even when it rejects the answer. AnswerRuns takes     *)
(* this module's outcomes as the results of its Respond and Delta.           *)
(***************************************************************************)
EXTENDS Naturals, Sequences, FiniteSets, SequencesExt

CONSTANTS Pieces,     \* what a delta may add to the text
          EventLimit, \* 12000 in the code: events of a stream
          TextLimit   \* 64 KiB in the code: pieces of a text

(* What the constants must satisfy, for the modules that instantiate this one. *)
StreamBounds == {EventLimit, TextLimit} \subseteq Nat

(* Items of the response's output: its one message, and what is no message.   *)
Items == {"message", "other"}

Texts == SeqOf(Pieces, TextLimit)

(* What a response says: how it ended, whether model and usage can be         *)
(* trusted, what its message is, and the text of each item (empty: none).     *)
Responses ==
  [status : {"completed", "incomplete"}, trusted : BOOLEAN,
   shape : {"answer"}, texts : [Items -> Texts]]
  \cup
  [status : {"completed", "incomplete"}, trusted : BOOLEAN,
   shape : {"refusal", "malformed"}, texts : {[i \in Items |-> <<>>]}]

VARIABLES
  transport,  \* "streamed" or "buffered"
  heard,      \* history: the events read, the last one included
  identity,   \* item whose text is streamed, or "none"
  text,       \* pieces accumulated, by the adapter and by the writer
  drafted,    \* pieces in the preview that was written last
  held,       \* the run still accepts a preview of this worker
  outcome,    \* "open", "answer", "refusal", "failed" or "stopped"
  usage       \* the caller is told what the request cost

vars == <<transport, heard, identity, text, drafted, held, outcome, usage>>

Init ==
  /\ transport \in {"streamed", "buffered"}
  /\ heard = <<>> /\ identity = "none" /\ text = <<>> /\ drafted = 0
  /\ held = TRUE /\ outcome = "open" /\ usage = FALSE

End(how, paid) == outcome' = how /\ usage' = paid

Reading == outcome = "open" /\ transport = "streamed"

(* An event is read; `late` says that its sequence number is not above the    *)
(* number of the event before it.                                          *)
Hear(e) ==
  /\ Reading
  /\ heard' = Append(heard, e)
  /\ UNCHANGED <<transport, held>>

TooMany == Len(heard) >= EventLimit

-----------------------------------------------------------------------------
(* The final response, of either transport.                                *)

Valid(r) == r.status = "completed" /\ r.trusted /\ r.shape # "malformed"

(* Mutant: usage is read from a response that is otherwise valid.            *)
PaidIfValid(r) == Valid(r)

(* Usage counts once the model is ours and its sums agree, whatever else the  *)
(* response holds: an answer that is rejected was paid for.                  *)
Paid(r) == r.trusted

Buffered(r) ==
  /\ outcome = "open" /\ transport = "buffered"
  /\ End(IF Valid(r) THEN r.shape ELSE "failed", Paid(r))
  /\ UNCHANGED <<transport, heard, identity, text, drafted, held>>

-----------------------------------------------------------------------------
(* Events of a stream.                                                     *)

(* Mutant: pieces of several items are put together.                        *)
FollowsAny(item) == TRUE

Follows(item) == identity \in {"none", item}

(* response.created, reasoning, refusal deltas: counted and numbered only.    *)
Metadata(late) ==
  /\ Hear([type |-> "metadata", late |-> late])
  /\ IF TooMany \/ late THEN End("failed", FALSE) ELSE UNCHANGED <<outcome, usage>>
  /\ UNCHANGED <<identity, text, drafted>>

(* PreviewWriter.delta, a quarter of a second after the last write: the row   *)
(* takes the text while this worker holds the run, or the stream is given up. *)
Preview ==
  \/ held /\ drafted' = Len(text') /\ UNCHANGED <<outcome, usage>>
  \/ ~held /\ End("stopped", FALSE) /\ UNCHANGED drafted

(* response.output_text.delta                                              *)
TextDelta(item, piece, late) ==
  /\ Hear([type |-> "delta", item |-> item, piece |-> piece, late |-> late])
  /\ \/ /\ TooMany \/ late \/ ~Follows(item)
        /\ End("failed", FALSE) /\ UNCHANGED <<identity, text, drafted>>
     \/ /\ ~TooMany /\ ~late /\ Follows(item)
        /\ identity' = item /\ text' = Append(text, piece)
        /\ \/ Len(text') > TextLimit /\ End("failed", FALSE) /\ UNCHANGED drafted
           \/ Len(text') <= TextLimit /\ Preview
           \/ Len(text') <= TextLimit /\ UNCHANGED <<drafted, outcome, usage>>

(* The completed response repeats, in the item the deltas named, their text.  *)
Confirms(r) == identity # "none" /\ r.texts[identity] = text

(* response.completed                                                      *)
Completed(r, late) ==
  /\ Hear([type |-> "completed", response |-> r, late |-> late])
  /\ \/ /\ TooMany \/ late
        /\ End("failed", FALSE)
     \/ /\ ~TooMany /\ ~late
        /\ End(IF Valid(r) /\ (r.shape = "refusal" \/ Confirms(r)) THEN r.shape ELSE "failed",
               Paid(r))
  /\ UNCHANGED <<identity, text, drafted>>

(* error, response.failed, response.incomplete: their number is not looked    *)
(* at; a response that is valid against its event's type is dropped.         *)
Failed(r) ==
  /\ Hear([type |-> "failed", response |-> r])
  /\ End("failed", ~TooMany /\ Paid(r) /\ ~Valid(r))
  /\ UNCHANGED <<identity, text, drafted>>

FailedBare ==
  /\ Hear([type |-> "error"])
  /\ End("failed", FALSE)
  /\ UNCHANGED <<identity, text, drafted>>

(* The request is refused, the connection breaks, ends without a completed    *)
(* event or is too long, an event cannot be parsed, or time is up.           *)
Break ==
  /\ outcome = "open"
  /\ End("failed", FALSE)
  /\ UNCHANGED <<transport, heard, identity, text, drafted, held>>

(* The run is cancelled or swept (AnswerRuns).                               *)
LoseRun ==
  /\ outcome = "open" /\ held
  /\ held' = FALSE
  /\ UNCHANGED <<transport, heard, identity, text, drafted, outcome, usage>>

Next ==
  \/ \E late \in BOOLEAN :
       \/ Metadata(late)
       \/ \E item \in Items, piece \in Pieces : TextDelta(item, piece, late)
       \/ \E r \in Responses : Completed(r, late)
  \/ \E r \in Responses : Failed(r) \/ Buffered(r)
  \/ FailedBare \/ Break \/ LoseRun

Spec == Init /\ [][Next]_vars

-----------------------------------------------------------------------------
Deltas == {i \in DOMAIN heard : heard[i].type = "delta"}
InOrder == \A i \in DOMAIN heard : heard[i].type \in {"failed", "error"} \/ ~heard[i].late

(* The place of a delta among the deltas, and a text that is theirs in order.  *)
Place(i) == Cardinality({j \in Deltas : j <= i})
Joins(t) == Len(t) = Cardinality(Deltas) /\ \A i \in Deltas : t[Place(i)] = heard[i].piece

(* What a complete stream is, said of all its events at once: numbered         *)
(* upwards, ended by a valid completed response, and either a refusal or one   *)
(* text whose pieces, all of one item, are that item's text in the response.  *)
Whole ==
  /\ heard # <<>> /\ Last(heard).type = "completed" /\ InOrder /\ Len(heard) <= EventLimit
  /\ LET r == Last(heard).response IN
     /\ Valid(r)
     /\ \/ r.shape = "refusal"
        \/ \E item \in Items :
             /\ Deltas # {} /\ \A i \in Deltas : heard[i].item = item
             /\ Joins(r.texts[item])

(* A streamed answer is accepted exactly when its stream is whole: not when it  *)
(* stops early, skips back, mixes items or differs from the completed text;    *)
(* and no draft that was shown is anything but a beginning of the text.       *)
AcceptedIffWhole ==
  transport = "streamed" =>
    /\ outcome \in {"answer", "refusal"} <=> Whole
    /\ outcome = "answer" /\ identity = "message" =>
         SubSeq(text, 1, drafted) = SubSeq(Last(heard).response.texts["message"], 1, drafted)

(* An answer is never accepted without its cost, and a final response in its    *)
(* turn that can be trusted for its usage is never rejected without it.       *)
UsageSurvives ==
  /\ outcome \in {"answer", "refusal"} => usage
  /\ (/\ outcome = "failed" /\ heard # <<>> /\ Len(heard) <= EventLimit
      /\ \/ Last(heard).type = "completed" /\ ~Last(heard).late
         \/ Last(heard).type = "failed" /\ ~Valid(Last(heard).response)
      /\ Last(heard).response.trusted) => usage

=============================================================================
