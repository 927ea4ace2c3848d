---------------------------- MODULE AnswerContext ----------------------------
(***************************************************************************)
(* What the model is given with a question: the chunks that retrieval ranks   *)
(* highest (retrieval/ranking.py), the ones of them that fit as evidence       *)
(* (retrieval/context.py), and as much of the dialogue before it as may be     *)
(* remembered (repositories/conversation_history.py, generation/history.py,   *)
(* generation/context.py).                                                 *)
(***************************************************************************)
EXTENDS Integers, Sequences, FiniteSets, SequencesExt

CONSTANTS
  Damping,          \* 60 in the code: added to the position of a candidate
  CandidateLimit,   \* 30 in the code: candidates of a channel
  Scale,            \* a common multiple of the denominators: scores are multiplied by it
  TopK,             \* 8 in an answer: chunks that are ranked
  EvidenceBudget,   \* 6000 in an answer: tokens of evidence
  MaxTurns,         \* 3 in the code: turns that are remembered
  HistoryLimit,     \* 1000 tokens, 8192 bytes
  PayloadLimit      \* 8000 tokens, 64 KiB

Measures == [tokens : Nat, bytes : Nat]

ASSUME ContextBounds ==
  /\ {Damping, TopK, EvidenceBudget, MaxTurns} \subseteq Nat
  /\ Scale \in Nat \ {0} /\ CandidateLimit \in Nat \ {0}
  /\ \A p \in 1..CandidateLimit : Scale % (Damping + p) = 0
  /\ HistoryLimit \in Measures /\ PayloadLimit \in Measures

(* 60 > 2 * 30 - 3: what AgreementWinsFor needs of the numbers in the code.    *)
ASSUME DampingSuffices == Damping + 3 > 2 * CandidateLimit

-----------------------------------------------------------------------------
(* Ranking. A chunk is the number it has in the order of the tie keys, path    *)
(* and offset; a channel lists the chunks it found, each once, best first.    *)

Channels == {"lexical", "symbol", "vector"}

Lists(chunks) == {l \in SeqOf(chunks, CandidateLimit) : \A i, j \in DOMAIN l : l[i] = l[j] => i = j}

Hit(list, c) == \E i \in DOMAIN list : list[i] = c

Position(list, c) == CHOOSE i \in DOMAIN list : list[i] = c

(* Mutant: the reciprocal of the position alone.                            *)
ShareUndamped(list, c) == IF Hit(list, c) THEN Scale \div Position(list, c) ELSE 0

(* 1 / (60 + position), scaled.                                             *)
Share(list, c) == IF Hit(list, c) THEN Scale \div (Damping + Position(list, c)) ELSE 0

Score(found, c) ==
  Share(found["lexical"], c) + Share(found["symbol"], c) + Share(found["vector"], c)

FoundBy(found, c) == {ch \in Channels : Hit(found[ch], c)}

Candidates(found) == UNION {ToSet(found[ch]) : ch \in Channels}

(* The order of the candidates: by score, equal scores by tie key.           *)
Before(found, a, b) ==
  \/ Score(found, a) > Score(found, b)
  \/ Score(found, a) = Score(found, b) /\ a < b

Place(found, c) == 1 + Cardinality({d \in Candidates(found) : Before(found, d, c)})

(* fuse: the candidates in their order, cut to the first TopK.                *)
Fuse(found) ==
  LET count == Cardinality(Candidates(found)) IN
  [i \in 1..(IF count < TopK THEN count ELSE TopK) |->
     CHOOSE c \in Candidates(found) : Place(found, c) = i]

-----------------------------------------------------------------------------
(* Evidence. A hit is given by the tokens of its JSON.                       *)

Tokens(S, hits) == MapThenSumSet(LAMBDA i : hits[i], S)

(* Mutant: packing stops at the first hit that does not fit.                  *)
PackPrefix(hits) ==
  FoldLeft(LAMBDA kept, i : IF kept = 1..(i - 1) /\ Tokens(kept \cup {i}, hits) <= EvidenceBudget
                            THEN kept \cup {i} ELSE kept,
           {}, [i \in DOMAIN hits |-> i])

(* build_context of retrieval: the places of the hits that become evidence;     *)
(* one that does not fit beside those before it is left out.                *)
Pack(hits) ==
  FoldLeft(LAMBDA kept, i : IF Tokens(kept \cup {i}, hits) <= EvidenceBudget
                            THEN kept \cup {i} ELSE kept,
           {}, [i \in DOMAIN hits |-> i])

-----------------------------------------------------------------------------
(* History. A turn is the question and answer that were published together;   *)
(* it may be remembered if its answer was given from the same source index,   *)
(* answered the question and is neither empty nor longer than 8000 characters. *)

Turns == [source : {"same", "other"}, answered : BOOLEAN, quotable : BOOLEAN, size : Measures]

Eligible(t) == t.source = "same" /\ t.answered /\ t.quotable

Size(turns) ==
  [tokens |-> MapThenSumSet(LAMBDA i : turns[i].size.tokens, DOMAIN turns),
   bytes |-> MapThenSumSet(LAMBDA i : turns[i].size.bytes, DOMAIN turns)]

Plus(a, b) == [tokens |-> a.tokens + b.tokens, bytes |-> a.bytes + b.bytes]

Within(size, limit) == size.tokens <= limit.tokens /\ size.bytes <= limit.bytes

Recent(turns) == SubSeq(turns, Len(turns) - (IF Len(turns) < MaxTurns THEN Len(turns) ELSE MaxTurns) + 1, Len(turns))

(* The oldest turns are dropped until the rest fits.                        *)
DropOldest(turns, Fits(_)) ==
  LET drop[n \in 0..Len(turns)] ==
        LET rest == SubSeq(turns, n + 1, Len(turns)) IN
        IF n = Len(turns) \/ Fits(rest) THEN rest ELSE drop[n + 1]
  IN  drop[0]

BoundedHistory(turns) == DropOldest(Recent(turns), LAMBDA rest : Within(Size(rest), HistoryLimit))

(* Mutant: a turn that may not be remembered is skipped.                     *)
SnapshotSkipping(turns) == BoundedHistory(SelectSeq(Recent(turns), Eligible))

(* snapshot_history: the newest turns, back to the first that is not eligible. *)
Snapshot(turns) ==
  LET recent == Recent(turns)
      broken == {i \in DOMAIN recent : ~Eligible(recent[i])}
      from == 1 + (IF broken = {} THEN 0 ELSE Max(broken))
  IN  BoundedHistory(SubSeq(recent, from, Len(recent)))

(* build_context of generation: `base` is the size of the instructions, the     *)
(* question and the evidence.                                              *)
Remembered(base, history) ==
  DropOldest(BoundedHistory(history), LAMBDA rest : Within(Plus(base, Size(rest)), PayloadLimit))

(* answer_context_limit                                                    *)
Refused(base) == ~Within(base, PayloadLimit)

-----------------------------------------------------------------------------
(* A chunk that more channels found is ranked above every chunk that fewer     *)
(* found, wherever each of them stood: the damping outweighs all positions,    *)
(* which only just holds for three channels of thirty.                      *)
AgreementWinsFor(found) ==
  LET ranked == Fuse(found) IN
  \A i \in DOMAIN ranked : \A c \in Candidates(found) :
    Cardinality(FoundBy(found, c)) > Cardinality(FoundBy(found, ranked[i])) =>
      \E j \in 1..(i - 1) : ranked[j] = c

(* Evidence fits its budget, and no other choice of hits that does prefers a    *)
(* better hit: where the two first differ, it is evidence that has the hit.   *)
EvidenceIsFirstFitFor(hits) ==
  LET kept == Pack(hits) IN
  /\ Tokens(kept, hits) <= EvidenceBudget
  /\ \A other \in SUBSET DOMAIN hits :
       Tokens(other, hits) <= EvidenceBudget /\ other # kept =>
         Min((kept \ other) \cup (other \ kept)) \in kept

(* What is remembered is the longest uninterrupted end of the conversation     *)
(* that may be and that leaves room for the evidence: no turn is joined to one *)
(* it did not follow, and the snapshot taken at submission loses nothing.     *)
HistoryIsRecentSuffixFor(turns, base) ==
  LET End(n) == SubSeq(turns, Len(turns) - n + 1, Len(turns))
      Allowed(n) ==
        /\ \A i \in DOMAIN End(n) : Eligible(End(n)[i])
        /\ Within(Size(End(n)), HistoryLimit)
        /\ Within(Plus(base, Size(End(n))), PayloadLimit)
  IN  \/ Refused(base)
      \/ \E n \in 0..Len(turns) :
           /\ n <= MaxTurns /\ Allowed(n)
           /\ \A m \in 0..Len(turns) : m <= MaxTurns /\ Allowed(m) => m <= n
           /\ Remembered(base, Snapshot(turns)) = End(n)

=============================================================================
