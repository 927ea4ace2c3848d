---------------------------- MODULE MCAlgorithms ----------------------------
(* The sequential parts of an import and of an answer over small inputs. Each    *)
(* behaviour is about one part: an archive is read, a file is cut into chunks,  *)
(* candidates are ranked, hits are packed, a history is chosen, or a provider's *)
(* response is received; the other parts' variables stand still.             *)
EXTENDS AnswerContext, Archive, TLC

CONSTANTS MaxBytes, MaxLength, MaxSymbols, Pieces, EventLimit, TextLimit

PieceSymmetry == Permutations(Pieces)
MCHistoryLimit == [tokens |-> 4, bytes |-> 5]
MCPayloadLimit == [tokens |-> 8, bytes |-> 8]

VARIABLES
  part, input,                                                        \* of a pure part
  content, symbols, ahead, cursor, span, chunks,                      \* of Chunking
  transport, heard, identity, text, drafted, held, outcome, usage     \* of ProviderStream

pureVars == <<part, input>>
fileVars == <<content, symbols, ahead, cursor, span, chunks>>
streamVars == <<transport, heard, identity, text, drafted, held, outcome, usage>>

File == INSTANCE Chunking
Stream == INSTANCE ProviderStream

ASSUME InstanceBounds == File!ChunkingBounds /\ Stream!StreamBounds

NoFile == content = 0 /\ symbols = 0 /\ ahead = 0 /\ cursor = 0 /\ span = 0 /\ chunks = 0
NoStream ==
  /\ transport = 0 /\ heard = 0 /\ identity = 0 /\ text = 0 /\ drafted = 0 /\ held = 0
  /\ outcome = 0 /\ usage = 0

-----------------------------------------------------------------------------
Small == [tokens : 1..2, bytes : 1..2]

(* Chunks are numbered as the lexical channel finds them, or backwards.       *)
Numbered ==
  {l \in Lists(1..4) : (\A i \in DOMAIN l : l[i] = i) \/ (\A i \in DOMAIN l : l[i] = 5 - i)}
Found == [lexical : Numbered, symbol : Lists(1..4), vector : Lists(1..4)]

Hits == [1..4 -> 1..4]

Remarkable ==
  [source : {"same"}, answered : {TRUE}, quotable : {TRUE}, size : Small]
  \cup {[source |-> "other", answered |-> TRUE, quotable |-> TRUE, size |-> [tokens |-> 1, bytes |-> 1]],
        [source |-> "same", answered |-> FALSE, quotable |-> TRUE, size |-> [tokens |-> 1, bytes |-> 1]],
        [source |-> "same", answered |-> TRUE, quotable |-> FALSE, size |-> [tokens |-> 1, bytes |-> 1]]}

Dialogues == [turns : SeqOf(Remarkable, 4), base : [tokens : {2, 5, 8}, bytes : {3}]]
             \cup [turns : SeqOf(Remarkable, 3), base : [tokens : {3}, bytes : {2, 5, 8}]]

Usual == [safe : {TRUE}, root : {"r"}, path : {"a", "b"}, type : {"file"}, kept : {TRUE},
          size : 0..3, text : {"utf8"}]
Plain == [safe |-> TRUE, root |-> "r", path |-> "a", type |-> "file", kept |-> TRUE,
          size |-> 1, text |-> "utf8"]
Odd == {[Plain EXCEPT !.safe = FALSE], [Plain EXCEPT !.root = "s"], [Plain EXCEPT !.path = ""],
        [Plain EXCEPT !.type = "dir"], [Plain EXCEPT !.type = "link"],
        [Plain EXCEPT !.kept = FALSE], [Plain EXCEPT !.text = "binary"],
        [Plain EXCEPT !.path = "b", !.text = "lfs pointer"]}
Packed == [members : SeqOf(Usual \cup Odd, 3) \cup [1..4 -> {Plain, [Plain EXCEPT !.type = "dir"]}],
           readable : {1, 4}, trailing : {0, 2}]

PureInit ==
  \/ part = "ranking" /\ input \in Found
  \/ part = "evidence" /\ input \in Hits
  \/ part = "history" /\ input \in Dialogues
  \/ part = "archive" /\ input \in Packed

Init ==
  \/ PureInit /\ NoFile /\ NoStream
  \/ part = "chunking" /\ input = 0 /\ File!Init /\ NoStream
  \/ part = "stream" /\ input = 0 /\ Stream!Init /\ NoFile

Next ==
  \/ part = "chunking" /\ File!Next /\ UNCHANGED <<pureVars, streamVars>>
  \/ part = "stream" /\ Stream!Next /\ UNCHANGED <<pureVars, fileVars>>

Spec == Init /\ [][Next]_<<pureVars, fileVars, streamVars>>

-----------------------------------------------------------------------------
(* The properties of the parts, each about the behaviours of its part.         *)

(* Archive.ArchiveIsExactFor every archive.                                 *)
ArchiveIsExact == part = "archive" => ArchiveIsExactFor(input)

(* Chunking.ChunksAreExact of every file.                                   *)
ChunksAreExact == part = "chunking" => File!ChunksAreExact

(* AnswerContext.AgreementWinsFor all candidates.                           *)
AgreementWins == part = "ranking" => AgreementWinsFor(input)

(* AnswerContext.EvidenceIsFirstFitFor all hits.                            *)
EvidenceIsFirstFit == part = "evidence" => EvidenceIsFirstFitFor(input)

(* AnswerContext.HistoryIsRecentSuffixFor every dialogue.                   *)
HistoryIsRecentSuffix == part = "history" => HistoryIsRecentSuffixFor(input.turns, input.base)

(* ProviderStream.AcceptedIffWhole of every stream.                         *)
AcceptedIffWhole == part = "stream" => Stream!AcceptedIffWhole

(* ProviderStream.UsageSurvives of every stream.                            *)
UsageSurvives == part = "stream" => Stream!UsageSurvives

=============================================================================
