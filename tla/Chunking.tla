------------------------------ MODULE Chunking ------------------------------
(***************************************************************************)
(* Cutting one source file into the chunks that are indexed and cited          *)
(* (indexing/parser.py, pipeline.py, chunks.py). Offsets count characters      *)
(* from 0, as in the code; lines count from 1.                              *)
(***************************************************************************)
EXTENDS Naturals, Sequences, FiniteSets, SequencesExt

CONSTANTS MaxBytes,   \* 8192 in the code: bytes of a chunk
          MaxLength,  \* model bound: characters of a file
          MaxSymbols  \* model bound: definitions in a file

(* What the constants must satisfy, for the modules that instantiate this one. *)
ChunkingBounds ==
  /\ MaxBytes \in Nat /\ MaxBytes >= 4
  /\ MaxLength \in Nat /\ MaxSymbols \in Nat

(* A narrow and a wide character, carriage return and line feed.             *)
Characters == {"a", "w", "r", "n"}

Width(c) == IF c = "w" THEN 4 ELSE 1

VARIABLES
  content,  \* the file
  symbols,  \* its classes and functions, in the order of their first lines
  ahead,    \* symbols whose region has not been opened
  cursor,   \* end of the spans opened so far
  span,     \* what is left of the span being cut: begin, end, symbol or 0
  chunks    \* chunks cut so far

vars == <<content, symbols, ahead, cursor, span, chunks>>

Size == Len(content)

(* The character at an offset.                                              *)
At(i) == content[i + 1]

Bytes(begin, end) == MapThenSumSet(LAMBDA i : Width(At(i)), begin..(end - 1))

(* A line is over at i: \n, \r\n or \r came before.                          *)
LineOver(i) == i > 0 /\ (At(i - 1) = "n" \/ (At(i - 1) = "r" /\ (i = Size \/ At(i) # "n")))

Starts == {0} \cup {i \in 1..Size : LineOver(i)}

(* bisect_right(starts, i)                                                  *)
Line(i) == Cardinality({s \in Starts : s <= i})

LineStart(n) == CHOOSE s \in Starts : Line(s) = n

-----------------------------------------------------------------------------
(* What parse_python finds: a forest of definitions, a nested one begins       *)
(* below the first line of its parent. "def" is a method in a class.          *)

CanFollow(forest, d) ==
  /\ d.first <= d.last /\ d.parent <= Len(forest)
  /\ forest # <<>> => Last(forest).first < d.first
  /\ d.parent # 0 => d.last <= forest[d.parent].last
  /\ \A i \in DOMAIN forest : forest[i].parent = d.parent => forest[i].last < d.first

(* Code stands at the beginning of a definition's first and last lines.       *)
Written == {n \in 1..Cardinality(Starts) : LineStart(n) < Size /\ At(LineStart(n)) \in {"a", "w"}}

Definitions ==
  [kind : {"class", "def"}, parent : 0..MaxSymbols, first : Written, last : Written]

Parsed ==
  LET some == Definitions
      grown[k \in 0..MaxSymbols] ==
        IF k = 0 THEN {<<>>}
        ELSE UNION {{Append(f, d) : d \in {x \in some : CanFollow(f, x)}} : f \in grown[k - 1]}
  IN  UNION {grown[k] : k \in 0..MaxSymbols}

-----------------------------------------------------------------------------
(* Regions.                                                                *)

Ancestors(i) ==
  LET above[k \in 0..Len(symbols)] ==
        IF k = 0 THEN {} ELSE {symbols[k].parent} \cup above[symbols[k].parent]
  IN  above[i] \ {0}

Nested(i) == \E j \in DOMAIN symbols : symbols[j].parent = i

(* Nothing in a function has its own region, and no class with definitions.   *)
HasRegion(i) ==
  /\ \A a \in Ancestors(i) : symbols[a].kind # "def"
  /\ ~(symbols[i].kind = "class" /\ Nested(i))

Begin(i) == LineStart(symbols[i].first)

End(i) == IF symbols[i].last < Cardinality(Starts) THEN LineStart(symbols[i].last + 1) ELSE Size

Regions == {i \in DOMAIN symbols : HasRegion(i)}

Init ==
  /\ content \in SeqOf(Characters, MaxLength)
  /\ symbols \in Parsed
  /\ ahead = Regions
  /\ cursor = 0 /\ chunks = <<>>
  /\ span = [begin |-> 0, end |-> 0, symbol |-> 0]

-----------------------------------------------------------------------------
(* Spans: the regions that do not overlap, and the gaps around them.         *)

SpanCut == span.begin = span.end

Ahead == {i \in ahead : Begin(i) >= cursor}

(* sorted(regions): definitions are parsed in the order of their first lines. *)
Nearest == Min(Ahead)

Open(end, symbol) ==
  /\ SpanCut
  /\ span' = [begin |-> cursor, end |-> end, symbol |-> symbol]
  /\ cursor' = end
  /\ UNCHANGED <<content, symbols, chunks>>

OpenGap ==
  LET end == IF Ahead = {} THEN Size ELSE Begin(Nearest) IN
  /\ cursor < end
  /\ Open(end, 0)
  /\ ahead' = Ahead

OpenRegion ==
  /\ Ahead # {} /\ Begin(Nearest) = cursor
  /\ Open(End(Nearest), Nearest)
  /\ ahead' = Ahead \ {Nearest}

(* Mutant: the two characters of \r\n are two line breaks.                   *)
BreakInPair(i, end) == At(i - 1) \in {"n", "r"}

Break(i, end) == At(i - 1) = "n" \/ (At(i - 1) = "r" /\ (i = end \/ At(i) # "n"))

(* As much as fits; if that is not all, only up to its last line break.       *)
Stop(begin, end) ==
  LET fit == Max({i \in begin..end : Bytes(begin, i) <= MaxBytes})
      breaks == {i \in (begin + 1)..fit : Break(i, end)}
  IN  IF fit < end /\ breaks # {} THEN Max(breaks) ELSE fit

Cut ==
  LET stop == Stop(span.begin, span.end) IN
  /\ ~SpanCut
  /\ chunks' = Append(chunks,
       [begin |-> span.begin, end |-> stop, symbol |-> span.symbol,
        first |-> Line(span.begin), last |-> Line(stop - 1)])
  /\ span' = [span EXCEPT !.begin = stop]
  /\ UNCHANGED <<content, symbols, ahead, cursor>>

Next == OpenGap \/ OpenRegion \/ Cut

Spec == Init /\ [][Next]_vars

-----------------------------------------------------------------------------
Finished == SpanCut /\ cursor = Size /\ Ahead = {}

Reached == IF chunks = <<>> THEN 0 ELSE Last(chunks).end

(* The chunks are the file, character for character and in order; each fits    *)
(* the limit, and ends inside a line only if it holds no end of a line.       *)
Partition ==
  /\ Reached <= cursor /\ (Finished => Reached = Size)
  /\ \A k \in DOMAIN chunks :
       LET c == chunks[k] IN
       /\ c.begin = (IF k = 1 THEN 0 ELSE chunks[k - 1].end)
       /\ c.begin < c.end /\ Bytes(c.begin, c.end) <= MaxBytes
       /\ c.end \in Starts \cup {Size} \/ (c.begin + 1)..c.end \cap Starts = {}

(* Characters of the definition that a chunk of them is named after: the       *)
(* outermost function around them, or else the innermost class, if that class  *)
(* defines nothing itself.                                                  *)
Owner(i) ==
  LET around == {s \in DOMAIN symbols : Line(i) \in symbols[s].first..symbols[s].last}
      defs == {s \in around : symbols[s].kind = "def"}
  IN  IF defs # {} THEN Min(defs)
      ELSE IF around # {} /\ ~Nested(Max(around)) THEN Max(around) ELSE 0

(* A chunk lies in one definition or in none and is named after it, its lines  *)
(* are the lines of its characters, and a definition that fits is one chunk.  *)
Named ==
  /\ \A k \in DOMAIN chunks :
       LET c == chunks[k] IN
       /\ \A i \in c.begin..(c.end - 1) : Owner(i) = c.symbol /\ Line(i) \in c.first..c.last
       /\ Line(c.begin) = c.first /\ Line(c.end - 1) = c.last
  /\ Finished =>
       \A s \in DOMAIN symbols :
         LET own == {i \in 0..(Size - 1) : Owner(i) = s} IN
         own # {} /\ Bytes(Min(own), Max(own) + 1) <= MaxBytes =>
           \E k \in DOMAIN chunks :
             /\ chunks[k].symbol = s
             /\ chunks[k].first = symbols[s].first /\ chunks[k].last = symbols[s].last

(* The chunks of a file, which are all that search and answers ever see of it,  *)
(* partition it exactly and are cited under the right definition and lines.   *)
ChunksAreExact == Partition /\ Named

=============================================================================
