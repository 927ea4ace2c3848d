--------------------------- MODULE RunStreamProofs ---------------------------
(***************************************************************************)
(* RunStream for every number of polls, previews and broken connections: the  *)
(* timeline is a part of the log without gaps, "complete" means all of it,     *)
(* and a draft is only shown while the run executes. The heart of the         *)
(* argument is what may be on the wire, whatever the cursor behind it is.      *)
(***************************************************************************)
EXTENDS RunStream, SequenceTheorems, TLAPS

USE DEF Terminal, Statuses

IsStatus(f) == f.type = "run.status"

(* In wire w every event after cursor c up to n comes before position i.      *)
Delivered(w, c, n, i) == \A m \in (c + 1)..n : \E j \in 1..(i - 1) : IsStatus(w[j]) /\ w[j].seq = m

(* Frame i of wire w is one that log l justifies; gone: the run was deleted.   *)
Sound(w, l, c, gone, i) ==
  /\ IsStatus(w[i]) =>
       w[i].seq \in 1..Len(l) /\ w[i].what = l[w[i].seq] /\ Delivered(w, c, w[i].seq - 1, i)
  /\ ~IsStatus(w[i]) => w[i].what \notin Terminal
  /\ w[i].type = "answer.preview" => w[i].what \in {"none", "draft"}
  /\ w[i].type = "answer.preview" /\ w[i].what # "none" =>
       /\ \A j \in 1..(i - 1) : w[j].what \notin Terminal
       /\ gone \/ (Len(l) >= 2 /\ l[2] = "running" /\ Delivered(w, c, 2, i))
  /\ w[i].type \in {"stream.end", "stream.reconnect", "stream.error"} => i = Len(w)
  /\ w[i].type = "stream.end" => gone \/ (l[Len(l)] \in Terminal /\ Delivered(w, c, Len(l), i))

WireOK(w, l, c, gone) == \A i \in 1..Len(w) : Sound(w, l, c, gone, i)

(* A wire to which frames may still be added.                                *)
Open(w) == \A i \in 1..Len(w) : w[i].type \in {"run.status", "answer.preview"} /\ w[i].what \notin Terminal

(* The run writes at most three events: queued, then running or an end.       *)
LogOK(l) ==
  /\ l[1] = "queued"
  /\ Len(l) >= 2 => l[2] \in {"running"} \cup Terminal
  /\ Len(l) = 3 => l[2] = "running" /\ l[3] \in Terminal

TextOK == text # "none" => Status = "running"

ClientOK ==
  /\ cursor = Len(timeline) /\ Len(timeline) <= Len(log)
  /\ \A i \in 1..Len(timeline) : timeline[i] = log[i]

StreamOK ==
  stream.pc # "none" =>
    /\ phase = "open" /\ Open(wire)
    /\ stream.cursor <= Len(log) /\ Delivered(wire, cursor, stream.cursor, Len(wire) + 1)
    /\ stream.pc = "events" =>
         /\ stream.status \in Terminal => Status \in Terminal
         /\ stream.preview[2] # "none" => Len(log) >= 2 /\ log[2] = "running"

CompleteOK == phase = "complete" /\ access # "deleted" => cursor = Len(log) /\ Status \in Terminal

DraftOK ==
  draft # "none" => ~TerminalSeen /\ (access = "deleted" \/ (cursor = 2 /\ log[2] = "running"))

Invariant ==
  /\ TypeOK /\ LogOK(log) /\ TextOK /\ ClientOK /\ StreamOK /\ CompleteOK /\ DraftOK
  /\ WireOK(wire, log, cursor, access = "deleted")

-----------------------------------------------------------------------------
(* Wires.                                                                  *)

LEMMA EmptyWire == << >> \in Seq(Frames) /\ \A l, c, gone : WireOK(<< >>, l, c, gone)
  <1>1. << >> \in Seq(Frames) /\ Len(<< >>) = 0
    BY EmptySeq
  <1>2. QED
    BY <1>1 DEF WireOK

(* A frame is read: what followed it stays justified by the new cursor d.     *)
LEMMA TailDelivered ==
  ASSUME NEW w \in Seq(Frames), w # << >>, NEW c \in Nat, NEW d \in {c, c + 1},
         IsStatus(w[1]) => w[1].seq <= d, NEW n \in Int, NEW i \in 2..(Len(w) + 1), Delivered(w, c, n, i)
  PROVE  Delivered(Tail(w), d, n, i - 1)
  <1>1. Len(Tail(w)) = Len(w) - 1 /\ \A j \in 1..Len(Tail(w)) : Tail(w)[j] = w[j + 1]
    BY HeadTailProperties
  <1>2. Len(w) \in Nat
    BY LenProperties
  <1>3. ASSUME NEW m \in (d + 1)..n PROVE \E j \in 1..(i - 2) : IsStatus(Tail(w)[j]) /\ Tail(w)[j].seq = m
    <2>1. m \in (c + 1)..n
      OBVIOUS
    <2>2. PICK j \in 1..(i - 1) : IsStatus(w[j]) /\ w[j].seq = m
      BY <2>1 DEF Delivered
    <2>3. j # 1
      BY <2>2
    <2>4. j - 1 \in 1..(i - 2) /\ j - 1 \in 1..Len(Tail(w))
      BY <1>1, <1>2, <2>3
    <2>5. Tail(w)[j - 1] = w[j]
      BY <1>1, <2>4
    <2>6. QED
      BY <2>2, <2>4, <2>5
  <1>4. QED
    BY <1>3 DEF Delivered

(* So a wire stays sound when its first frame is read.                      *)
LEMMA TailOK ==
  ASSUME NEW w \in Seq(Frames), w # << >>, NEW c \in Nat, NEW d \in {c, c + 1},
         IsStatus(w[1]) => w[1].seq <= d, NEW l, Len(l) \in Nat, NEW gone, WireOK(w, l, c, gone)
  PROVE  WireOK(Tail(w), l, d, gone)
  <1>1. Len(Tail(w)) = Len(w) - 1 /\ \A j \in 1..Len(Tail(w)) : Tail(w)[j] = w[j + 1]
    BY HeadTailProperties
  <1>2. Len(w) \in Nat
    BY LenProperties
  <1>3. ASSUME NEW i \in 1..Len(Tail(w)) PROVE Sound(Tail(w), l, d, gone, i)
    <2>1. i + 1 \in 1..Len(w) /\ i + 1 \in 2..(Len(w) + 1) /\ Tail(w)[i] = w[i + 1] /\ (i + 1) - 1 = i
      BY <1>1, <1>2
    <2>2. Sound(w, l, c, gone, i + 1)
      BY <2>1 DEF WireOK
    <2>3. \A n \in Int : Delivered(w, c, n, i + 1) => Delivered(Tail(w), d, n, i)
      BY <2>1, TailDelivered
    <2> DEFINE f == w[i + 1]
    <2>4. /\ IsStatus(f) =>
               f.seq \in 1..Len(l) /\ f.what = l[f.seq] /\ Delivered(w, c, f.seq - 1, i + 1)
          /\ ~IsStatus(f) => f.what \notin Terminal
          /\ f.type = "answer.preview" => f.what \in {"none", "draft"}
          /\ f.type = "answer.preview" /\ f.what # "none" =>
               /\ \A j \in 1..i : w[j].what \notin Terminal
               /\ gone \/ (Len(l) >= 2 /\ l[2] = "running" /\ Delivered(w, c, 2, i + 1))
          /\ f.type \in {"stream.end", "stream.reconnect", "stream.error"} => i + 1 = Len(w)
          /\ f.type = "stream.end" => gone \/ (l[Len(l)] \in Terminal /\ Delivered(w, c, Len(l), i + 1))
      BY <2>1, <2>2 DEF Sound
    <2>5. (\A j \in 1..i : w[j].what \notin Terminal) => \A j \in 1..(i - 1) : Tail(w)[j].what \notin Terminal
      BY <1>1, <2>1
    <2>6. Tail(w)[i] = f
      BY <2>1
    <2> HIDE DEF f
    <2>7. IsStatus(f) => Delivered(Tail(w), d, f.seq - 1, i)
      <3>1. IsStatus(f) => f.seq \in 1..Len(l) /\ Delivered(w, c, f.seq - 1, i + 1)
        BY <2>4
      <3>2. \A s \in 1..Len(l) : s - 1 \in Int
        OBVIOUS
      <3>3. QED
        BY <2>3, <3>1, <3>2
    <2>8. /\ Delivered(w, c, 2, i + 1) => Delivered(Tail(w), d, 2, i)
          /\ Delivered(w, c, Len(l), i + 1) => Delivered(Tail(w), d, Len(l), i)
      BY <2>3
    <2>9. i + 1 = Len(w) => i = Len(Tail(w))
      <3>1. Len(Tail(w)) = Len(w) - 1 /\ i \in Int /\ Len(w) \in Int
        BY <1>1, <1>2, <2>1
      <3>2. \A p, q \in Int : i + 1 = q => i = q - 1
        BY <3>1
      <3>3. QED
        BY <3>1, <3>2, Zenon
    <2>10. QED
      BY <2>4, <2>5, <2>6, <2>7, <2>8, <2>9 DEF Sound
  <1>4. QED
    BY <1>3 DEF WireOK

(* Frames are added to an open wire.                                         *)
LEMMA LongerDelivered ==
  ASSUME NEW w \in Seq(Frames), NEW v \in Seq(Frames), NEW c, NEW n, NEW i \in 1..(Len(w) + 1)
  PROVE  Delivered(w, c, n, i) => Delivered(w \o v, c, n, i)
  <1>1. \A j \in 1..Len(w) : (w \o v)[j] = w[j]
    BY ConcatProperties, LenProperties
  <1>2. Len(w) \in Nat
    BY LenProperties
  <1>3. QED
    BY <1>1, <1>2 DEF Delivered

(* So a sound wire stays sound when sound frames are added.                 *)
LEMMA LongerWire ==
  ASSUME NEW w \in Seq(Frames), NEW v \in Seq(Frames), NEW l, NEW c, NEW gone,
         WireOK(w, l, c, gone), Open(w),
         \A k \in 1..Len(v) : Sound(w \o v, l, c, gone, Len(w) + k)
  PROVE  WireOK(w \o v, l, c, gone)
  <1>1. /\ Len(w) \in Nat /\ Len(v) \in Nat /\ Len(w \o v) = Len(w) + Len(v)
        /\ \A j \in 1..Len(w) : (w \o v)[j] = w[j]
    BY ConcatProperties, LenProperties
  <1>2. ASSUME NEW i \in 1..Len(w \o v) PROVE Sound(w \o v, l, c, gone, i)
    <2>1. CASE i > Len(w)
      <3>1. i - Len(w) \in 1..Len(v) /\ i = Len(w) + (i - Len(w))
        BY <1>1, <2>1
      <3>2. QED
        BY <3>1
    <2>2. CASE i <= Len(w)
      <3>1. i \in 1..Len(w) /\ i \in 1..(Len(w) + 1) /\ (w \o v)[i] = w[i]
        BY <1>1, <2>2
      <3>2. Sound(w, l, c, gone, i) /\ w[i].type \in {"run.status", "answer.preview"}
        BY <3>1 DEF WireOK, Open
      <3>3. \A n : Delivered(w, c, n, i) => Delivered(w \o v, c, n, i)
        BY <3>1, LongerDelivered
      <3>4. (\A j \in 1..(i - 1) : w[j].what \notin Terminal) => \A j \in 1..(i - 1) : (w \o v)[j].what \notin Terminal
        BY <1>1, <3>1
      <3>5. QED
        BY <3>1, <3>2, <3>3, <3>4 DEF Sound
    <2>3. QED
      BY <1>1, <2>1, <2>2
  <1>3. QED
    BY <1>2 DEF WireOK

(* The log grows, or the run is deleted.                                     *)
LEMMA LogGrows ==
  ASSUME NEW w, NEW l, NEW k, NEW c, NEW gone \in BOOLEAN, NEW more \in BOOLEAN, WireOK(w, l, c, gone),
         Len(l) \in Nat, Len(k) \in Nat, Len(l) <= Len(k), \A i \in 1..Len(l) : k[i] = l[i],
         gone => more, k = l \/ (~gone /\ l[Len(l)] \notin Terminal)
  PROVE  WireOK(w, k, c, more)
  <1>1. ASSUME NEW i \in 1..Len(w) PROVE Sound(w, k, c, more, i)
    <2>1. Sound(w, l, c, gone, i)
      BY DEF WireOK
    <2>2. w[i].type = "stream.end" => more \/ (k[Len(k)] \in Terminal /\ Delivered(w, c, Len(k), i))
      BY <2>1 DEF Sound
    <2>3. IsStatus(w[i]) =>
            w[i].seq \in 1..Len(k) /\ w[i].what = k[w[i].seq] /\ Delivered(w, c, w[i].seq - 1, i)
      <3>1. IsStatus(w[i]) =>
              w[i].seq \in 1..Len(l) /\ w[i].what = l[w[i].seq] /\ Delivered(w, c, w[i].seq - 1, i)
        BY <2>1 DEF Sound
      <3>2. \A n \in 1..Len(l) : n \in 1..Len(k) /\ k[n] = l[n]
        OBVIOUS
      <3>3. QED
        BY <3>1, <3>2
    <2>4. gone \/ (Len(l) >= 2 /\ l[2] = "running" /\ Delivered(w, c, 2, i))
            => more \/ (Len(k) >= 2 /\ k[2] = "running" /\ Delivered(w, c, 2, i))
      OBVIOUS
    <2>5. QED
      BY <2>1, <2>2, <2>3, <2>4 DEF Sound
  <1>2. QED
    BY <1>1 DEF WireOK

(* What one page adds to an open wire w: p status frames that continue the     *)
(* log after cursor s, then a draft, then the end or a reconnect.            *)
PageFrame(v, l, s, p, ended, drawn, k) ==
  /\ k <= p => /\ IsStatus(v[k]) /\ v[k].seq = s + k /\ v[k].what = l[s + k]
               /\ l[s + k] \in Terminal => ended
  /\ k > p => \/ v[k].type = "answer.preview" /\ v[k].what = drawn
              \/ /\ k = Len(v) /\ v[k].what = "none" /\ v[k].type \in {"stream.end", "stream.reconnect"}
                 /\ v[k].type = "stream.end" => ended

Page(v, l, s, p, ended, drawn) ==
  /\ \A k \in 1..Len(v) : PageFrame(v, l, s, p, ended, drawn, k)
  /\ drawn # "none" => ~ended /\ Len(l) >= 2 /\ l[2] = "running"
  /\ drawn \in {"none", "draft"}

(* A page keeps an open wire sound, and delivers its events.                *)
LEMMA PageOK ==
  ASSUME NEW w \in Seq(Frames), NEW v \in Seq(Frames), NEW l, Len(l) \in Nat, NEW c \in Nat,
         NEW gone \in BOOLEAN, NEW s \in Nat, NEW p \in Nat, NEW ended \in BOOLEAN, NEW drawn,
         WireOK(w, l, c, gone), Open(w), Delivered(w, c, s, Len(w) + 1),
         p <= Len(v), s + p <= Len(l), ~gone => s + p = Len(l),
         Page(v, l, s, p, ended, drawn),
         ended => gone \/ l[Len(l)] \in Terminal
  PROVE  /\ WireOK(w \o v, l, c, gone)
         /\ Delivered(w \o v, c, s + p, Len(w \o v) + 1)
         /\ ~ended /\ (\A k \in 1..Len(v) : v[k].type # "stream.reconnect") => Open(w \o v)
  <1> DEFINE x == w \o v
  <1>1. /\ Len(w) \in Nat /\ Len(v) \in Nat /\ Len(x) = Len(w) + Len(v)
        /\ \A i \in 1..Len(w) : x[i] = w[i]
        /\ \A k \in 1..Len(v) : x[Len(w) + k] = v[k]
    <2>1. Len(w) \in Nat /\ Len(v) \in Nat
      BY LenProperties
    <2>2. Len(x) = Len(w) + Len(v) /\ \A i \in 1..Len(w) + Len(v) : x[i] = IF i <= Len(w) THEN w[i] ELSE v[i - Len(w)]
      BY ConcatProperties
    <2> HIDE DEF x
    <2>3. ASSUME NEW k \in 1..Len(v) PROVE x[Len(w) + k] = v[k]
      <3>1. Len(w) + k \in 1..Len(w) + Len(v) /\ ~(Len(w) + k <= Len(w)) /\ (Len(w) + k) - Len(w) = k
        BY <2>1
      <3>2. QED
        BY <2>2, <3>1
    <2>4. QED
      BY <2>1, <2>2, <2>3
  <1> HIDE DEF x
  <1>2. ASSUME NEW i \in 1..Len(x) + 1, NEW n \in Int, i > Len(w), n <= s + p, n <= s + (i - Len(w)) - 1
        PROVE  Delivered(x, c, n, i)
    <2>1. ASSUME NEW m \in (c + 1)..n PROVE \E j \in 1..(i - 1) : IsStatus(x[j]) /\ x[j].seq = m
      <3>1. CASE m <= s
        <4>1. m \in (c + 1)..s
          BY <3>1
        <4>2. PICK j \in 1..((Len(w) + 1) - 1) : IsStatus(w[j]) /\ w[j].seq = m
          BY <4>1 DEF Delivered
        <4>3. j \in 1..Len(w) /\ j \in 1..(i - 1)
          BY <1>1, <1>2
        <4>4. QED
          BY <1>1, <4>2, <4>3
      <3>2. CASE m > s
        <4>1. m - s \in 1..Len(v) /\ m - s <= p /\ Len(w) + (m - s) \in 1..(i - 1) /\ s + (m - s) = m
          BY <1>1, <1>2, <3>2
        <4>2. IsStatus(v[m - s]) /\ v[m - s].seq = m
          BY <4>1 DEF Page, PageFrame
        <4>3. QED
          BY <1>1, <4>1, <4>2
      <3>3. QED
        BY <3>1, <3>2
    <2>2. QED
      BY <2>1 DEF Delivered
  <1>0. ASSUME ~ended, NEW k \in 1..Len(v)
        PROVE  /\ v[k].what \notin Terminal
               /\ v[k].type \in {"run.status", "answer.preview", "stream.reconnect"}
    <2>1. PageFrame(v, l, s, p, ended, drawn, k) /\ drawn \notin Terminal
      BY DEF Page
    <2>2. CASE k <= p
      <3>1. IsStatus(v[k]) /\ v[k].what = l[s + k] /\ l[s + k] \notin Terminal
        BY <1>0, <2>1, <2>2 DEF PageFrame
      <3>2. QED
        BY <3>1 DEF IsStatus
    <2>3. CASE k > p
      <3>1. \/ v[k].type = "answer.preview" /\ v[k].what = drawn
            \/ v[k].what = "none" /\ v[k].type = "stream.reconnect"
        BY <1>0, <2>1, <2>3 DEF PageFrame
      <3>2. QED
        BY <2>1, <3>1
    <2>4. QED
      BY <2>2, <2>3
  <1>3. ASSUME NEW k \in 1..Len(v) PROVE Sound(x, l, c, gone, Len(w) + k)
    <2>1. /\ Len(w) + k \in 1..Len(x) /\ Len(w) + k \in 1..Len(x) + 1 /\ Len(w) + k > Len(w)
          /\ x[Len(w) + k] = v[k] /\ (Len(w) + k) - Len(w) = k
      BY <1>1
    <2>2. \A n \in Int : n <= s + p /\ n <= s + k - 1 => Delivered(x, c, n, Len(w) + k)
      BY <1>2, <2>1
    <2>3. PageFrame(v, l, s, p, ended, drawn, k) /\ (drawn # "none" => ~ended /\ Len(l) >= 2 /\ l[2] = "running")
      BY DEF Page
    <2>4. CASE k <= p
      <3>1. IsStatus(v[k]) /\ v[k].seq = s + k /\ v[k].what = l[s + k]
        BY <2>3, <2>4 DEF PageFrame
      <3>2. s + k \in 1..Len(l) /\ (s + k) - 1 \in Int /\ (s + k) - 1 <= s + p /\ (s + k) - 1 <= s + k - 1
        BY <2>4
      <3>3. QED
        BY <2>1, <2>2, <3>1, <3>2 DEF Sound, IsStatus
    <2>5. CASE k > p /\ v[k].type = "answer.preview"
      <3>1. v[k].what = drawn
        BY <2>3, <2>5 DEF PageFrame
      <3>2. ASSUME drawn # "none" PROVE \A j \in 1..(Len(w) + k - 1) : x[j].what \notin Terminal
        <4>1. ASSUME NEW j \in 1..(Len(w) + k - 1) PROVE x[j].what \notin Terminal
          <5>1. CASE j <= Len(w)
            <6>1. j \in 1..Len(w)
              BY <1>1, <5>1
            <6>2. QED
              BY <1>1, <6>1 DEF Open
          <5>2. CASE j > Len(w)
            <6>1. j - Len(w) \in 1..Len(v) /\ Len(w) + (j - Len(w)) = j
              BY <1>1, <5>2
            <6>2. x[j] = v[j - Len(w)]
              BY <1>1, <6>1
            <6>3. QED
              BY <1>0, <2>3, <3>2, <6>1, <6>2
          <5>3. QED
            BY <1>1, <5>1, <5>2
        <4>2. QED
          BY <4>1
      <3>3. ASSUME drawn # "none" PROVE gone \/ (Len(l) >= 2 /\ l[2] = "running" /\ Delivered(x, c, 2, Len(w) + k))
        <4>1. Len(l) >= 2 /\ l[2] = "running"
          BY <2>3, <3>3
        <4>2. ASSUME ~gone PROVE 2 <= s + p /\ 2 <= s + k - 1
          BY <2>5, <4>1, <4>2
        <4>3. ASSUME ~gone PROVE Delivered(x, c, 2, Len(w) + k)
          BY <2>2, <4>2, <4>3
        <4>4. QED
          BY <4>1, <4>3
      <3>4. PICK i \in 1..Len(x) : i = Len(w) + k
        BY <2>1
      <3>5. x[i].type = "answer.preview" /\ x[i].what = drawn /\ drawn \in {"none", "draft"}
        BY <2>1, <2>5, <3>1, <3>4 DEF Page
      <3>6. /\ drawn # "none" => \A j \in 1..(i - 1) : x[j].what \notin Terminal
            /\ drawn # "none" => gone \/ (Len(l) >= 2 /\ l[2] = "running" /\ Delivered(x, c, 2, i))
        <4>1. ASSUME drawn # "none", NEW j \in 1..(i - 1) PROVE x[j].what \notin Terminal
          <5>1. j \in 1..(Len(w) + k - 1)
            BY <1>1, <3>4
          <5>2. QED
            BY <3>2, <4>1, <5>1
        <4>2. drawn # "none" => gone \/ (Len(l) >= 2 /\ l[2] = "running" /\ Delivered(x, c, 2, i))
          BY <3>3, <3>4, Zenon
        <4>3. QED
          BY <4>1, <4>2
      <3>7. Sound(x, l, c, gone, i)
        BY <3>5, <3>6 DEF Sound, IsStatus
      <3>8. QED
        BY <3>4, <3>7
    <2>6. CASE k > p /\ v[k].type # "answer.preview"
      <3>1. /\ k = Len(v) /\ v[k].what = "none" /\ v[k].type \in {"stream.end", "stream.reconnect"}
            /\ v[k].type = "stream.end" => ended
        BY <2>3, <2>6 DEF PageFrame
      <3>2. ASSUME ended PROVE gone \/ (l[Len(l)] \in Terminal /\ Delivered(x, c, Len(l), Len(w) + k))
        <4>1. ASSUME ~gone PROVE Len(l) <= s + p /\ Len(l) <= s + k - 1
          BY <2>6, <4>1
        <4>2. QED
          BY <2>2, <3>2, <4>1
      <3>3. Len(w) + k = Len(x)
        BY <1>1, <3>1
      <3>4. QED
        BY <2>1, <3>1, <3>2, <3>3 DEF Sound, IsStatus
    <2>7. QED
      BY <2>4, <2>5, <2>6
  <1>4. WireOK(x, l, c, gone)
    BY <1>3, LongerWire DEF x
  <1>5. Delivered(x, c, s + p, Len(x) + 1)
    <2>1. /\ Len(x) + 1 \in 1..Len(x) + 1 /\ s + p \in Int
          /\ Len(x) + 1 > Len(w) /\ s + p <= s + p /\ s + p <= s + ((Len(x) + 1) - Len(w)) - 1
      BY <1>1
    <2>2. QED
      BY <1>2, <2>1
  <1>6. ASSUME ~ended, \A k \in 1..Len(v) : v[k].type # "stream.reconnect", NEW i \in 1..Len(x)
        PROVE  x[i].type \in {"run.status", "answer.preview"} /\ x[i].what \notin Terminal
    <2>1. CASE i <= Len(w)
      <3>1. i \in 1..Len(w)
        BY <1>1, <2>1
      <3>2. QED
        BY <1>1, <3>1 DEF Open
    <2>2. CASE i > Len(w)
      <3>1. i - Len(w) \in 1..Len(v) /\ Len(w) + (i - Len(w)) = i
        BY <1>1, <2>2
      <3>2. x[i] = v[i - Len(w)]
        BY <1>1, <3>1
      <3>3. QED
        BY <1>0, <1>6, <3>1, <3>2
    <2>3. QED
      BY <1>1, <2>1, <2>2
  <1>7. QED
    BY <1>4, <1>5, <1>6 DEF x, Open

(* An error is the last frame of its connection.                             *)
LEMMA ErrorOK ==
  ASSUME NEW w \in Seq(Frames), NEW l, NEW c, NEW gone, NEW code \in {"unauthenticated", "stream_unavailable"},
         WireOK(w, l, c, gone), Open(w)
  PROVE  /\ Append(w, Control("stream.error", code)) \in Seq(Frames)
         /\ WireOK(Append(w, Control("stream.error", code)), l, c, gone)
  <1> DEFINE e == Control("stream.error", code)
             v == <<e>>
  <1>1. e \in Frames /\ e.type = "stream.error" /\ e.what \notin Terminal
    BY DEF Control, Frames
  <1> HIDE DEF e
  <1>2. v \in Seq(Frames) /\ Len(v) = 1 /\ v[1] = e /\ Append(w, e) = w \o v
    BY <1>1
  <1>3. /\ Len(w) \in Nat /\ w \o v \in Seq(Frames) /\ Len(w \o v) = Len(w) + 1
        /\ (w \o v)[Len(w) + 1] = e
    <2>1. Len(w) \in Nat
      BY LenProperties
    <2>2. /\ w \o v \in Seq(Frames) /\ Len(w \o v) = Len(w) + 1
          /\ \A i \in 1..Len(w) + 1 : (w \o v)[i] = IF i <= Len(w) THEN w[i] ELSE v[i - Len(w)]
      BY <1>2, ConcatProperties
    <2>3. Len(w) + 1 \in 1..Len(w) + 1 /\ ~(Len(w) + 1 <= Len(w)) /\ (Len(w) + 1) - Len(w) = 1
      BY <2>1
    <2>4. (w \o v)[Len(w) + 1] = v[1]
      BY <2>2, <2>3
    <2>5. QED
      BY <1>2, <2>1, <2>2, <2>4
  <1>4. Sound(w \o v, l, c, gone, Len(w) + 1)
    BY <1>1, <1>3 DEF Sound, IsStatus
  <1>5. WireOK(w \o v, l, c, gone)
    <2>1. \A k \in 1..Len(v) : Sound(w \o v, l, c, gone, Len(w) + k)
      BY <1>2, <1>4
    <2>2. QED
      BY <1>2, <2>1, LongerWire
  <1>6. QED
    BY <1>2, <1>3, <1>5 DEF e

-----------------------------------------------------------------------------
(* Steps.                                                                  *)

LEMMA NoStreamOK == NoStream \in [pc : {"none", "row", "events"}, cursor : 0..3, tick : 0..(Polls - 1),
                                  status : Statuses, preview : Drafts, sent : {<< >>} \cup Drafts]
  <1>1. Polls \in Nat \ {0} /\ MaxRevision \in Nat
    BY StreamBounds DEF StreamBounds
  <1>2. 0 \in 0..(Polls - 1) /\ 0 \in 0..MaxRevision /\ 0 \in 0..3
    BY <1>1
  <1>3. \A r \in 0..MaxRevision : <<r, "none">> \in Drafts
    BY DEF Drafts
  <1>4. <<0, "none">> \in Drafts /\ << >> \in {<< >>} \cup Drafts
    BY <1>2, <1>3
  <1>5. QED
    BY <1>2, <1>4 DEF NoStream

(* The first state.                                                         *)
LEMMA InitInvariant == Init => Invariant
  <1> SUFFICES ASSUME Init PROVE Invariant
    OBVIOUS
  <1>1. MaxRevision \in Nat /\ MaxFaults \in Nat
    BY StreamBounds DEF StreamBounds
  <1>2. wire = << >> /\ wire \in Seq(Frames) /\ WireOK(wire, log, cursor, access = "deleted")
    BY EmptyWire DEF Init
  <1>3. log \in Seq(Statuses) /\ Len(log) = 1 /\ log[1] = "queued"
    <2>1. log = <<"queued">>
      BY DEF Init
    <2>2. "queued" \in Statuses
      OBVIOUS
    <2>3. QED
      BY <2>1, <2>2
  <1>4. timeline \in Seq(Statuses) /\ Len(timeline) = 0 /\ cursor = 0
    BY EmptySeq DEF Init
  <1>5. stream \in [pc : {"none", "row", "events"}, cursor : 0..3, tick : 0..(Polls - 1),
                    status : Statuses, preview : Drafts, sent : {<< >>} \cup Drafts]
    BY NoStreamOK DEF Init
  <1>6. TypeOK
    <2>1. 0 \in 0..MaxRevision /\ 0 \in 0..MaxFaults /\ 0 \in 0..3 /\ 0 \in Nat /\ 1 \in 1..3
      BY <1>1
    <2>2. /\ live \in BOOLEAN /\ revision \in 0..MaxRevision /\ text \in {"none", "draft"}
          /\ access \in {"ok", "deleted", "signed_out"}
      BY <2>1 DEF Init
    <2>3. /\ phase \in {"waiting", "open", "complete", "stopped"}
          /\ previewRevision \in Nat /\ draft \in {"none", "draft"} /\ faults \in 0..MaxFaults
      BY <2>1 DEF Init
    <2>4. QED
      BY <1>2, <1>3, <1>4, <1>5, <2>1, <2>2, <2>3 DEF TypeOK
  <1>7. LogOK(log) /\ ClientOK
    BY <1>3, <1>4 DEF LogOK, ClientOK
  <1>8. TextOK /\ StreamOK /\ CompleteOK /\ DraftOK
    BY DEF Init, NoStream, TextOK, StreamOK, CompleteOK, DraftOK
  <1>9. QED
    BY <1>2, <1>6, <1>7, <1>8 DEF Invariant

(* The log's last entry is its only end.                                     *)
LEMMA LogFacts ==
  ASSUME NEW l \in Seq(Statuses), Len(l) \in 1..3, LogOK(l)
  PROVE  /\ \A n \in 1..Len(l) : l[n] \in Terminal => n = Len(l)
         /\ l[Len(l)] = "running" => Len(l) = 2
         /\ l[Len(l)] = "queued" => Len(l) = 1
         /\ Len(l) >= 2 /\ l[2] = "running" /\ Len(l) # 2 => l[Len(l)] \in Terminal
  BY DEF LogOK

(* Log k is log l and the event e.                                           *)
Grown(l, k, e) ==
  /\ k \in Seq(Statuses) /\ Len(k) \in 1..3
  /\ Len(k) = Len(l) + 1 /\ \A i \in 1..Len(l) : k[i] = l[i]
  /\ k[Len(l) + 1] = e
  /\ LogOK(k)

(* A run that is queued starts or ends; one that executes ends.             *)
LEMMA LogAppend ==
  ASSUME NEW l \in Seq(Statuses), Len(l) \in 1..3, LogOK(l), l[Len(l)] \notin Terminal,
         NEW s \in Statuses, (l[Len(l)] = "queued" /\ s = "running") \/ s \in Terminal
  PROVE  Grown(l, Append(l, s), s)
  <1>1. Len(l) \in {1, 2}
    BY DEF LogOK
  <1>2. /\ Append(l, s) \in Seq(Statuses)
        /\ Len(Append(l, s)) = Len(l) + 1 /\ \A i \in 1..Len(l) : Append(l, s)[i] = l[i]
        /\ Append(l, s)[Len(l) + 1] = s
    OBVIOUS
  <1>3. CASE Len(l) = 1
    BY <1>2, <1>3 DEF LogOK, Grown
  <1>4. CASE Len(l) = 2
    BY <1>2, <1>4 DEF LogOK, Grown
  <1>5. QED
    BY <1>1, <1>2, <1>3, <1>4

(* Start and Finish write an event.                                          *)
LEMMA EventStep ==
  ASSUME Invariant, NEW s \in Statuses, access # "deleted", Status \notin Terminal,
         Grown(log, log', s), s \in Terminal \/ s = "running",
         live' \in BOOLEAN, s \in Terminal => text' = "none", s \notin Terminal => text' = text,
         UNCHANGED <<revision, access, stream, wire, clientVars, faults>>
  PROVE  Invariant'
  <1>1. TypeOK /\ LogOK(log) /\ TextOK /\ ClientOK /\ StreamOK /\ CompleteOK /\ DraftOK
        /\ WireOK(wire, log, cursor, access = "deleted")
    BY DEF Invariant
  <1>2. log \in Seq(Statuses) /\ Len(log) \in 1..3
    BY <1>1 DEF TypeOK
  <1>3. UNCHANGED <<revision, access, stream, wire, phase, cursor, timeline, previewRevision, draft, faults>>
    BY DEF clientVars
  <1>4. /\ log' \in Seq(Statuses) /\ Len(log') \in 1..3 /\ Len(log') = Len(log) + 1
        /\ \A i \in 1..Len(log) : log'[i] = log[i]
        /\ log'[Len(log) + 1] = s /\ LogOK(log')
    BY DEF Grown
  <1>5. TypeOK'
    BY <1>1, <1>3, <1>4 DEF TypeOK
  <1> HIDE DEF Terminal, Statuses
  <1>6. TextOK'
    BY <1>1, <1>2, <1>4 DEF TextOK, Status
  <1>7. ClientOK'
    <2>1. timeline \in Seq(Statuses) /\ Len(timeline) \in Nat
      BY <1>1, LenProperties DEF TypeOK
    <2>2. cursor = Len(timeline) /\ Len(timeline) <= Len(log) /\ \A i \in 1..Len(timeline) : timeline[i] = log[i]
      BY <1>1 DEF ClientOK
    <2>3. QED
      BY <1>2, <1>3, <1>4, <2>1, <2>2 DEF ClientOK
  <1>8. StreamOK'
    <2> SUFFICES ASSUME stream.pc # "none" PROVE StreamOK'
      BY <1>3 DEF StreamOK
    <2>1. phase = "open" /\ Open(wire) /\ stream.cursor <= Len(log) /\ Delivered(wire, cursor, stream.cursor, Len(wire) + 1)
      BY <1>1 DEF StreamOK
    <2>2. ASSUME stream.pc = "events"
          PROVE  stream.status \notin Terminal /\ (stream.preview[2] # "none" => Len(log') >= 2 /\ log'[2] = "running")
      BY <1>1, <1>2, <1>4, <2>2 DEF StreamOK
    <2>3. stream.cursor \in 0..3
      BY <1>1 DEF TypeOK
    <2>4. stream.cursor <= Len(log')
      BY <1>2, <1>4, <2>1, <2>3
    <2>5. QED
      BY <1>3, <2>1, <2>2, <2>4 DEF StreamOK
  <1>9. CompleteOK'
    BY <1>1, <1>3 DEF CompleteOK
  <1>10. DraftOK'
    <2>1. cursor = 2 => log'[2] = log[2]
      BY <1>1, <1>2, <1>4 DEF ClientOK
    <2>2. QED
      BY <1>1, <1>3, <2>1 DEF DraftOK, TerminalSeen
  <1>11. WireOK(wire, log', cursor, FALSE)
    <2>1. WireOK(wire, log, cursor, FALSE) /\ log[Len(log)] \notin Terminal
      BY <1>1 DEF Status
    <2>2. Len(log) \in Nat /\ Len(log') \in Nat /\ Len(log) <= Len(log')
      BY <1>2, <1>4
    <2>3. QED
      BY <1>4, <2>1, <2>2, LogGrows
  <1>12. QED
    BY <1>3, <1>4, <1>5, <1>6, <1>7, <1>8, <1>9, <1>10, <1>11 DEF Invariant

(* The run, its owner and time only make the log longer or take it away.    *)
LEMMA RunStep == ASSUME Invariant, Run PROVE Invariant'
  <1>1. TypeOK /\ LogOK(log) /\ TextOK /\ ClientOK /\ StreamOK /\ CompleteOK /\ DraftOK
        /\ WireOK(wire, log, cursor, access = "deleted")
    BY DEF Invariant
  <1>2. log \in Seq(Statuses) /\ Len(log) \in 1..3 /\ MaxRevision \in Nat
    BY <1>1, StreamBounds DEF TypeOK, StreamBounds
  <1>3. UNCHANGED <<stream, wire, clientVars, faults>>
    BY DEF Run
  <1>4. UNCHANGED <<stream, wire, phase, cursor, timeline, previewRevision, draft, faults>>
    BY <1>3 DEF clientVars
  <1>5. CASE Start
    <2>1. "running" \in Statuses /\ Status \notin Terminal /\ live' = TRUE
      BY <1>5 DEF Start
    <2>2. Grown(log, log', "running")
      BY <1>1, <1>2, <1>5, <2>1, LogAppend DEF Start, Status
    <2>3. QED
      BY <1>3, <1>5, <2>1, <2>2, EventStep DEF Start
  <1>6. ASSUME NEW s \in Terminal, Finish(s) PROVE Invariant'
    <2>1. Grown(log, log', s)
      BY <1>1, <1>2, <1>6, LogAppend DEF Finish, Status
    <2>2. QED
      BY <1>3, <1>6, <2>1, EventStep DEF Finish
  <1>7. ASSUME revision' \in 0..MaxRevision, live' \in BOOLEAN, text' \in {"none", "draft"},
               text' # "none" => Status = "running", UNCHANGED <<log, access>>
        PROVE  Invariant'
    <2>1. TypeOK'
      BY <1>1, <1>4, <1>7 DEF TypeOK
    <2>2. LogOK(log)' /\ TextOK' /\ ClientOK' /\ CompleteOK' /\ DraftOK'
      BY <1>1, <1>4, <1>7 DEF LogOK, TextOK, ClientOK, CompleteOK, DraftOK, Status, TerminalSeen
    <2>3. StreamOK' /\ WireOK(wire, log, cursor, access = "deleted")'
      BY <1>1, <1>4, <1>7 DEF StreamOK, Status
    <2>4. QED
      BY <2>1, <2>2, <2>3 DEF Invariant
  <1>8. CASE WritePreview
    <2>1. /\ Status = "running" /\ revision < MaxRevision /\ revision' = revision + 1
          /\ text' = "draft" /\ UNCHANGED <<log, live, access>>
      BY <1>8 DEF WritePreview
    <2>2. revision \in 0..MaxRevision /\ live \in BOOLEAN
      BY <1>1 DEF TypeOK
    <2>3. revision' \in 0..MaxRevision
      BY <1>2, <2>1, <2>2
    <2>4. QED
      BY <1>7, <2>1, <2>2, <2>3
  <1>9. CASE LeaseExpires
    BY <1>1, <1>7, <1>9 DEF LeaseExpires, TypeOK, TextOK
  <1>10. ASSUME NEW a \in {"deleted", "signed_out"}, LoseAccess(a) PROVE Invariant'
    <2>1. access = "ok" /\ access' = a /\ UNCHANGED <<log, live, revision, text>>
      BY <1>10 DEF LoseAccess
    <2>2. TypeOK'
      BY <1>1, <1>4, <2>1 DEF TypeOK
    <2>3. LogOK(log)' /\ TextOK' /\ ClientOK' /\ CompleteOK' /\ DraftOK'
      BY <1>1, <1>4, <2>1 DEF LogOK, TextOK, ClientOK, CompleteOK, DraftOK, Status, TerminalSeen
    <2>4. StreamOK'
      BY <1>1, <1>4, <2>1 DEF StreamOK, Status
    <2>5. WireOK(wire, log, cursor, access = "deleted")'
      <3>1. WireOK(wire, log, cursor, FALSE)
        BY <1>1, <2>1
      <3>2. ASSUME NEW more \in BOOLEAN PROVE WireOK(wire, log, cursor, more)
        <4>1. Len(log) \in Nat /\ Len(log) <= Len(log)
          BY <1>2
        <4>2. QED
          BY <3>1, <4>1, LogGrows
      <3>3. QED
        BY <1>4, <2>1, <3>2
    <2>6. QED
      BY <2>2, <2>3, <2>4, <2>5 DEF Invariant
  <1>11. QED
    BY <1>5, <1>6, <1>8, <1>9, <1>10 DEF Run

(* The browser's connection is over: nothing is on the wire.                  *)
LEMMA QuietStep ==
  ASSUME Invariant, UNCHANGED <<runVars, cursor, timeline>>, wire' = << >>,
         stream' \in [pc : {"none", "row", "events"}, cursor : 0..3, tick : 0..(Polls - 1),
                      status : Statuses, preview : Drafts, sent : {<< >>} \cup Drafts],
         stream'.pc # "none" => phase' = "open" /\ stream'.pc = "row" /\ stream'.cursor = cursor,
         phase' \in {"waiting", "open", "complete", "stopped"},
         phase' = "complete" => access = "deleted" \/ (cursor = Len(log) /\ Status \in Terminal),
         draft' \in {draft, "none"}, previewRevision' = previewRevision, faults' \in 0..MaxFaults
  PROVE  Invariant'
  <1>1. TypeOK /\ LogOK(log) /\ TextOK /\ ClientOK /\ DraftOK
    BY DEF Invariant
  <1>2. UNCHANGED <<log, live, revision, text, access, cursor, timeline>>
    BY DEF runVars
  <1>3. wire' \in Seq(Frames) /\ WireOK(wire', log, cursor, access = "deleted") /\ Len(wire') = 0
    BY EmptyWire, EmptySeq
  <1>4. TypeOK'
    BY <1>1, <1>2, <1>3 DEF TypeOK
  <1>5. LogOK(log)' /\ TextOK' /\ ClientOK' /\ DraftOK' /\ CompleteOK'
    BY <1>1, <1>2 DEF LogOK, TextOK, ClientOK, DraftOK, CompleteOK, Status, TerminalSeen
  <1>6. StreamOK'
    <2>1. Open(wire') /\ cursor \in Int /\ Delivered(wire', cursor, cursor, Len(wire') + 1)
      <3>1. cursor \in 0..3
        BY <1>1 DEF TypeOK
      <3>2. QED
        BY <1>3, <3>1 DEF Open, Delivered
    <2>2. cursor <= Len(log)
      BY <1>1 DEF ClientOK
    <2>3. QED
      BY <1>2, <2>1, <2>2 DEF StreamOK
  <1>7. QED
    BY <1>2, <1>3, <1>4, <1>5, <1>6 DEF Invariant

(* A request begins with an empty wire, or nothing begins.                  *)
LEMMA ConnectStep == ASSUME Invariant, Connect PROVE Invariant'
  <1>1. TypeOK /\ ClientOK /\ StreamOK /\ phase = "waiting" /\ wire' = << >>
        /\ UNCHANGED <<runVars, cursor, timeline, previewRevision>>
    BY DEF Invariant, Connect
  <1>2. stream.pc = "none"
    BY <1>1 DEF StreamOK
  <1>3. faults \in 0..MaxFaults /\ cursor \in 0..3 /\ MaxFaults \in Nat
    BY <1>1, StreamBounds DEF TypeOK, StreamBounds
  <1>4. stream \in [pc : {"none", "row", "events"}, cursor : 0..3, tick : 0..(Polls - 1),
                    status : Statuses, preview : Drafts, sent : {<< >>} \cup Drafts]
    BY <1>1 DEF TypeOK
  <1>5. CASE stream' = [NoStream EXCEPT !.pc = "row", !.cursor = cursor] /\ phase' = "open" /\ UNCHANGED <<draft, faults>>
    <2>1. /\ stream' \in [pc : {"none", "row", "events"}, cursor : 0..3, tick : 0..(Polls - 1),
                          status : Statuses, preview : Drafts, sent : {<< >>} \cup Drafts]
          /\ stream'.pc = "row" /\ stream'.cursor = cursor
      BY <1>3, <1>5, NoStreamOK
    <2>2. QED
      BY <1>1, <1>3, <1>5, <2>1, QuietStep
  <1>6. CASE phase' = "stopped" /\ draft' = "none" /\ UNCHANGED <<stream, faults>>
    BY <1>1, <1>2, <1>3, <1>4, <1>6, QuietStep
  <1>7. CASE faults < MaxFaults /\ faults' = faults + 1 /\ draft' = "none" /\ UNCHANGED <<phase, stream>>
    <2>1. faults' \in 0..MaxFaults
      BY <1>3, <1>7
    <2>2. QED
      BY <1>1, <1>2, <1>4, <1>7, <2>1, QuietStep
  <1>8. QED
    BY <1>5, <1>6, <1>7 DEF Connect

(* A broken connection leaves nothing on the wire.                          *)
LEMMA BreakStep == ASSUME Invariant, Break PROVE Invariant'
  <1>1. TypeOK /\ faults < MaxFaults /\ faults' = faults + 1 /\ Interrupted("waiting")
        /\ UNCHANGED <<runVars, cursor, timeline, previewRevision>>
    BY DEF Invariant, Break
  <1>2. faults \in 0..MaxFaults /\ MaxFaults \in Nat
    BY <1>1, StreamBounds DEF TypeOK, StreamBounds
  <1>3. faults' \in 0..MaxFaults
    BY <1>1, <1>2
  <1>4. stream' = NoStream /\ NoStream.pc = "none"
    BY <1>1 DEF Interrupted, NoStream
  <1>5. QED
    BY <1>1, <1>3, <1>4, NoStreamOK, QuietStep DEF Interrupted

(* The server's handler moves; the run and the browser do not.               *)
LEMMA ServerStep ==
  ASSUME Invariant, UNCHANGED <<runVars, clientVars, faults>>,
         wire' \in Seq(Frames), WireOK(wire', log, cursor, access = "deleted"),
         stream' \in [pc : {"none", "row", "events"}, cursor : 0..3, tick : 0..(Polls - 1),
                      status : Statuses, preview : Drafts, sent : {<< >>} \cup Drafts],
         StreamOK'
  PROVE  Invariant'
  <1>1. TypeOK /\ LogOK(log) /\ TextOK /\ ClientOK /\ CompleteOK /\ DraftOK
    BY DEF Invariant
  <1>2. UNCHANGED <<log, live, revision, text, access, phase, cursor, timeline, previewRevision, draft, faults>>
    BY DEF runVars, clientVars
  <1>3. TypeOK'
    BY <1>1, <1>2 DEF TypeOK
  <1>4. LogOK(log)' /\ TextOK' /\ ClientOK' /\ CompleteOK' /\ DraftOK'
    BY <1>1, <1>2 DEF LogOK, TextOK, ClientOK, CompleteOK, DraftOK, Status, TerminalSeen
  <1>5. QED
    BY <1>2, <1>3, <1>4 DEF Invariant

(* A handler refuses: its error is the last frame.                           *)
LEMMA RefuseStep ==
  ASSUME Invariant, stream.pc # "none", UNCHANGED <<runVars, clientVars, faults>>,
         NEW code \in {"unauthenticated", "stream_unavailable"}, Refuse(code)
  PROVE  Invariant'
  <1>1. wire \in Seq(Frames) /\ WireOK(wire, log, cursor, access = "deleted") /\ Open(wire)
    BY DEF Invariant, TypeOK, StreamOK
  <1>2. wire' \in Seq(Frames) /\ WireOK(wire', log, cursor, access = "deleted") /\ stream' = NoStream
    BY <1>1, ErrorOK DEF Refuse
  <1>3. StreamOK'
    BY <1>2 DEF StreamOK, NoStream
  <1>4. QED
    BY <1>2, <1>3, NoStreamOK, ServerStep

(* The row is what a page knows of the status and the draft.                *)
LEMMA ReadRowStep == ASSUME Invariant, ReadRow PROVE Invariant'
  <1>1. TypeOK /\ LogOK(log) /\ TextOK /\ StreamOK /\ WireOK(wire, log, cursor, access = "deleted")
        /\ stream.pc = "row" /\ UNCHANGED <<runVars, clientVars, faults>>
    BY DEF Invariant, ReadRow
  <1>2. CASE \E code \in {"unauthenticated", "stream_unavailable"} : Refuse(code)
    BY <1>1, <1>2, RefuseStep
  <1>3. CASE /\ stream' = [stream EXCEPT !.pc = "events", !.status = Row.status, !.preview = Row.preview]
             /\ UNCHANGED wire
    <2>1. UNCHANGED <<log, live, revision, text, access, phase, cursor>>
      BY <1>1 DEF runVars, clientVars
    <2>2. log \in Seq(Statuses) /\ Len(log) \in 1..3 /\ Status \in Statuses
      <3>1. log \in Seq(Statuses) /\ Len(log) \in 1..3
        BY <1>1 DEF TypeOK
      <3>2. QED
        BY <3>1, ElementOfSeq DEF Status
    <2>3. revision \in 0..MaxRevision /\ text \in {"none", "draft"}
      BY <1>1 DEF TypeOK
    <2>4. Row.status = Status /\ Row.preview \in Drafts /\ (Row.preview[2] # "none" => Status = "running")
      BY <2>3 DEF Row, Drafts
    <2>5. stream \in [pc : {"none", "row", "events"}, cursor : 0..3, tick : 0..(Polls - 1),
                      status : Statuses, preview : Drafts, sent : {<< >>} \cup Drafts]
      BY <1>1 DEF TypeOK
    <2> HIDE DEF Statuses
    <2>6. /\ stream' \in [pc : {"none", "row", "events"}, cursor : 0..3, tick : 0..(Polls - 1),
                          status : Statuses, preview : Drafts, sent : {<< >>} \cup Drafts]
          /\ stream'.pc = "events" /\ stream'.cursor = stream.cursor
          /\ stream'.status = Status /\ stream'.preview = Row.preview
      BY <1>3, <2>2, <2>4, <2>5
    <2>7. Status = "running" => Len(log) >= 2 /\ log[2] = "running"
      BY <1>1, <2>2, LogFacts DEF Status
    <2>8. StreamOK'
      <3>1. /\ phase = "open" /\ Open(wire)
            /\ stream.cursor <= Len(log) /\ Delivered(wire, cursor, stream.cursor, Len(wire) + 1)
        BY <1>1 DEF StreamOK
      <3>2. QED
        BY <1>3, <2>1, <2>4, <2>6, <2>7, <3>1 DEF StreamOK, Status
    <2>9. wire' \in Seq(Frames) /\ WireOK(wire', log, cursor, access = "deleted")
      BY <1>1, <1>3 DEF TypeOK
    <2>10. QED
      BY <1>1, <2>6, <2>8, <2>9, ServerStep
  <1>4. QED
    BY <1>2, <1>3 DEF ReadRow

(* What follows the events of a page: perhaps a draft, perhaps a last frame.   *)
DraftFrames(a, drawn) == Len(a) = 0 \/ (Len(a) = 1 /\ a[1].type = "answer.preview" /\ a[1].what = drawn)

LastFrames(b, ended) ==
  Len(b) = 0 \/ (/\ Len(b) = 1 /\ b[1].what = "none" /\ b[1].type \in {"stream.end", "stream.reconnect"}
                 /\ b[1].type = "stream.end" => ended)

Trailer(t, ended, drawn) ==
  \A k \in 1..Len(t) :
    \/ t[k].type = "answer.preview" /\ t[k].what = drawn
    \/ /\ k = Len(t) /\ t[k].what = "none" /\ t[k].type \in {"stream.end", "stream.reconnect"}
       /\ t[k].type = "stream.end" => ended

(* Both kinds of frames may be missing.                                     *)
LEMMA AfterEvents ==
  ASSUME NEW a \in Seq(Frames), NEW b \in Seq(Frames), NEW ended \in BOOLEAN, NEW drawn,
         DraftFrames(a, drawn), LastFrames(b, ended)
  PROVE  /\ a \o b \in Seq(Frames)
         /\ Trailer(a \o b, ended, drawn)
         /\ Len(b) = 0 => \A k \in 1..Len(a \o b) : (a \o b)[k].type = "answer.preview"
  <1> USE DEF DraftFrames, LastFrames, Trailer
  <1> DEFINE t == a \o b
  <1>1. /\ t \in Seq(Frames) /\ Len(t) = Len(a) + Len(b)
        /\ \A i \in 1..Len(a) + Len(b) : t[i] = IF i <= Len(a) THEN a[i] ELSE b[i - Len(a)]
    BY ConcatProperties
  <1> HIDE DEF t
  <1>2. ASSUME NEW k \in 1..Len(t)
        PROVE  /\ \/ t[k].type = "answer.preview" /\ t[k].what = drawn
                  \/ /\ k = Len(t) /\ t[k].what = "none" /\ t[k].type \in {"stream.end", "stream.reconnect"}
                     /\ t[k].type = "stream.end" => ended
               /\ Len(b) = 0 => t[k].type = "answer.preview"
    <2>1. CASE k <= Len(a)
      <3>1. t[k] = a[1] /\ Len(a) = 1
        BY <1>1, <2>1
      <3>2. QED
        BY <3>1
    <2>2. CASE k > Len(a)
      <3>1. t[k] = b[1] /\ Len(b) = 1 /\ k = Len(t)
        BY <1>1, <2>2
      <3>2. QED
        BY <3>1
    <2>3. QED
      BY <1>1, <2>1, <2>2
  <1>3. QED
    BY <1>1, <1>2 DEF t

(* The events of a page: p frames that continue the log after s.              *)
LEMMA EventFrames ==
  ASSUME log \in Seq(Statuses), stream.cursor \in Nat, stream.cursor <= Len(Events),
         NEW f, f = After(stream.cursor)
  PROVE  /\ f \in Seq(Frames) /\ Len(f) = Len(Events) - stream.cursor /\ Len(f) \in Nat
         /\ \A k \in 1..Len(f) :
              /\ IsStatus(f[k]) /\ f[k].seq = stream.cursor + k /\ f[k].what = log[stream.cursor + k]
              /\ access # "deleted"
  <1> DEFINE s == stream.cursor
             p == Len(Events) - s
  <1>1. Events \in Seq(Statuses) /\ Len(Events) \in Nat /\ (Len(Events) # 0 => access # "deleted" /\ Events = log)
    <2>1. << >> \in Seq(Statuses) /\ Len(<< >>) = 0
      BY EmptySeq
    <2>2. QED
      BY <2>1, LenProperties DEF Events
  <1>2. p \in Nat
    BY <1>1
  <1> HIDE DEF p
  <1>3. ASSUME NEW k \in 1..p
        PROVE  StatusFrame(s + k) \in Frames /\ s + k \in 1..Len(Events) /\ Events = log /\ access # "deleted"
    <2>1. s + k \in 1..Len(Events) /\ s + k \in Nat
      BY <1>1, <1>2 DEF p
    <2>2. Events[s + k] \in Statuses
      BY <1>1, <2>1, ElementOfSeq
    <2>3. Events = log /\ access # "deleted"
      BY <1>1, <2>1
    <2> HIDE DEF Statuses
    <2>4. QED
      BY <2>1, <2>2, <2>3 DEF StatusFrame, Frames
  <1>4. f = [k \in 1..p |-> StatusFrame(s + k)]
    BY DEF After, p
  <1>5. f \in [1..p -> Frames]
    BY <1>3, <1>4
  <1>6. f \in Seq(Frames)
    BY <1>2, <1>5, SeqDef
  <1>7. Len(f) = p
    <2>1. DOMAIN f = 1..Len(f) /\ Len(f) \in Nat /\ DOMAIN f = 1..p
      BY <1>5, <1>6, LenProperties
    <2>2. QED
      BY <1>2, <2>1
  <1>8. ASSUME NEW k \in 1..Len(f)
        PROVE  /\ IsStatus(f[k]) /\ f[k].seq = s + k /\ f[k].what = log[s + k]
               /\ access # "deleted"
    <2>1. k \in 1..p /\ f[k] = StatusFrame(s + k) /\ Events = log /\ access # "deleted"
      BY <1>3, <1>4, <1>7
    <2>2. QED
      BY <2>1 DEF StatusFrame, IsStatus
  <1>9. QED
    BY <1>2, <1>6, <1>7, <1>8 DEF p

(* The rest of a page.                                                      *)
LEMMA ReadEventsStep == ASSUME Invariant, ReadEvents PROVE Invariant'
  <1>1. TypeOK /\ LogOK(log) /\ TextOK /\ StreamOK /\ WireOK(wire, log, cursor, access = "deleted")
        /\ stream.pc = "events" /\ UNCHANGED <<runVars, clientVars, faults>>
    BY DEF Invariant, ReadEvents
  <1>2. PICK f, p, ended, shown, drawn, preview, last, close, t, v :
          /\ f = After(stream.cursor)
          /\ p = Len(f)
          /\ ended = Ends(stream.status, f)
          /\ shown = IF ended THEN <<stream.preview[1], "none">> ELSE stream.preview
          /\ drawn = shown[2]
          /\ preview = IF shown = stream.sent THEN <<>>
                       ELSE <<[type |-> "answer.preview", seq |-> shown[1], what |-> shown[2]]>>
          /\ last = (stream.tick + 1 = Polls)
          /\ close = IF ended THEN <<Control("stream.end", "none")>>
                     ELSE IF last THEN <<Control("stream.reconnect", "none")>> ELSE <<>>
          /\ t = preview \o close
          /\ v = f \o t
    OBVIOUS
  <1>3. \/ Refuse("stream_unavailable")
        \/ /\ stream.cursor <= Len(Events)
           /\ wire' = wire \o f \o preview \o close
           /\ stream' = IF ended \/ last THEN NoStream
                        ELSE [stream EXCEPT !.pc = "row", !.cursor = Len(Events), !.tick = @ + 1, !.sent = shown]
    BY <1>2 DEF ReadEvents
  <1>4. CASE Refuse("stream_unavailable")
    BY <1>1, <1>4, RefuseStep
  <1>5. CASE /\ stream.cursor <= Len(Events)
             /\ wire' = wire \o f \o preview \o close
             /\ stream' = IF ended \/ last THEN NoStream
                          ELSE [stream EXCEPT !.pc = "row", !.cursor = Len(Events), !.tick = @ + 1, !.sent = shown]
    <2> DEFINE s == stream.cursor
    <2>0. p = Len(f) /\ t = preview \o close /\ v = f \o t
      BY <1>2
    <2>1. /\ log \in Seq(Statuses) /\ Len(log) \in 1..3 /\ wire \in Seq(Frames)
          /\ stream \in [pc : {"none", "row", "events"}, cursor : 0..3, tick : 0..(Polls - 1),
                         status : Statuses, preview : Drafts, sent : {<< >>} \cup Drafts]
          /\ cursor \in Nat /\ MaxRevision \in Nat /\ Polls \in Nat \ {0}
      BY <1>1, StreamBounds DEF TypeOK, StreamBounds
    <2>2. s \in Nat /\ s \in 0..3 /\ stream.tick \in 0..(Polls - 1) /\ stream.preview \in Drafts
      BY <2>1
    <2>3. /\ f \in Seq(Frames) /\ p = Len(Events) - s /\ p \in Nat
          /\ \A k \in 1..p : IsStatus(f[k]) /\ f[k].seq = s + k /\ f[k].what = log[s + k] /\ access # "deleted"
      BY <1>2, <1>5, <2>1, <2>2, EventFrames
    <2>4. Len(Events) <= Len(log) /\ Len(Events) \in 0..3 /\ (access # "deleted" => Len(Events) = Len(log))
      BY <2>1, EmptySeq DEF Events
    <2>5. ended \in BOOLEAN /\ last \in BOOLEAN /\ (ended <=> stream.status \in Terminal \/ \E i \in 1..p : f[i].what \in Terminal)
      <3>1. DOMAIN f = 1..p
        BY <2>0, <2>3, LenProperties
      <3>2. QED
        BY <1>2, <3>1 DEF Ends
    <2>6. shown \in Drafts
      <3>1. \A d \in Drafts : <<d[1], "none">> \in Drafts
        BY DEF Drafts
      <3>2. QED
        BY <1>2, <2>2, <3>1
    <2>7. drawn \in {"none", "draft"} /\ shown[1] \in Nat
      BY <1>2, <2>1, <2>6 DEF Drafts
    <2>8. preview \in Seq(Frames) /\ DraftFrames(preview, drawn)
      <3>1. [type |-> "answer.preview", seq |-> shown[1], what |-> shown[2]] \in Frames
        BY <1>2, <2>7 DEF Frames
      <3>2. << >> \in Seq(Frames) /\ Len(<< >>) = 0
        BY EmptySeq
      <3>3. CASE shown = stream.sent
        BY <1>2, <3>2, <3>3 DEF DraftFrames
      <3>4. CASE shown # stream.sent
        <4>1. PICK x \in Frames : x.type = "answer.preview" /\ x.what = drawn /\ preview = <<x>>
          BY <1>2, <3>1, <3>4
        <4>2. QED
          BY <4>1 DEF DraftFrames
      <3>5. QED
        BY <3>3, <3>4
    <2>9. /\ close \in Seq(Frames) /\ LastFrames(close, ended)
          /\ ~ended /\ ~last => Len(close) = 0
      <3>1. \A y \in {"stream.end", "stream.reconnect"} :
               Control(y, "none") \in Frames /\ Control(y, "none").type = y /\ Control(y, "none").what = "none"
        BY DEF Control, Frames
      <3>2. << >> \in Seq(Frames) /\ Len(<< >>) = 0
        BY EmptySeq
      <3>3. CASE ended
        BY <1>2, <3>1, <3>3 DEF LastFrames
      <3>4. CASE ~ended /\ last
        BY <1>2, <3>1, <3>4 DEF LastFrames
      <3>5. CASE ~ended /\ ~last
        BY <1>2, <3>2, <3>5 DEF LastFrames
      <3>6. QED
        BY <2>5, <3>3, <3>4, <3>5
    <2>10. /\ t \in Seq(Frames)
           /\ \A k \in 1..Len(t) :
                \/ t[k].type = "answer.preview" /\ t[k].what = drawn
                \/ /\ k = Len(t) /\ t[k].what = "none" /\ t[k].type \in {"stream.end", "stream.reconnect"}
                   /\ t[k].type = "stream.end" => ended
           /\ ~ended /\ ~last => \A k \in 1..Len(t) : t[k].type = "answer.preview"
      <3>1. /\ preview \o close \in Seq(Frames) /\ Trailer(preview \o close, ended, drawn)
            /\ Len(close) = 0 => \A k \in 1..Len(preview \o close) : (preview \o close)[k].type = "answer.preview"
        BY ONLY <2>5, <2>8, <2>9, AfterEvents
      <3>2. QED
        BY <2>0, <2>9, <3>1 DEF Trailer
    <2>11. wire' = wire \o v /\ v \in Seq(Frames) /\ wire \o v \in Seq(Frames)
      <3>1. wire \o f \in Seq(Frames) /\ f \o t \in Seq(Frames)
        BY <2>1, <2>3, <2>10, ConcatProperties
      <3>2. wire \o f \o preview \o close = (wire \o f) \o t
        <4>1. wire \o f \in Seq(Frames) /\ preview \in Seq(Frames) /\ close \in Seq(Frames)
          BY <2>8, <2>9, <3>1
        <4>2. wire \o f \o preview \o close = (wire \o f) \o (preview \o close)
          BY ONLY <4>1, ConcatAssociative, SMTT(30)
        <4>3. QED
          BY ONLY <2>0, <4>2
      <3>3. (wire \o f) \o t = wire \o (f \o t) /\ v = f \o t
        <4>1. \A x, y, z \in Seq(Frames) : (x \o y) \o z = x \o (y \o z)
          BY ConcatAssociative
        <4>2. QED
          BY <2>0, <2>1, <2>3, <2>10, <4>1, ZenonT(30)
      <3>4. QED
        BY <1>5, <2>1, <3>1, <3>2, <3>3, ConcatProperties
    <2>12. /\ Len(v) = p + Len(t) /\ Len(t) \in Nat
           /\ \A k \in 1..p : v[k] = f[k]
           /\ \A k \in (p + 1)..Len(v) : v[k] = t[k - p] /\ k - p \in 1..Len(t)
      <3>1. Len(t) \in Nat
        BY <2>10, LenProperties
      <3>2. Len(v) = p + Len(t) /\ \A i \in 1..p + Len(t) : v[i] = IF i <= p THEN f[i] ELSE t[i - p]
        <4>1. /\ Len(f \o t) = Len(f) + Len(t)
              /\ \A i \in 1..Len(f) + Len(t) : (f \o t)[i] = IF i <= Len(f) THEN f[i] ELSE t[i - Len(f)]
          BY <2>3, <2>10, ConcatProperties
        <4>2. QED
          BY <2>0, <4>1
      <3>3. QED
        <4>1. p \in Nat
          BY <2>3
        <4>2. ASSUME NEW k \in 1..p PROVE v[k] = f[k]
          BY <3>1, <3>2, <4>1
        <4>3. ASSUME NEW k \in (p + 1)..Len(v) PROVE v[k] = t[k - p] /\ k - p \in 1..Len(t)
          BY <3>1, <3>2, <4>1
        <4>4. QED
          BY <3>1, <3>2, <4>2, <4>3
    <2>13. ended => access = "deleted" \/ log[Len(log)] \in Terminal
      <3>1. stream.status \in Terminal => log[Len(log)] \in Terminal
        BY <1>1 DEF StreamOK, Status
      <3>2. ASSUME NEW i \in 1..p, f[i].what \in Terminal PROVE log[Len(log)] \in Terminal
        <4>1. s + i \in 1..Len(log) /\ log[s + i] \in Terminal
          BY <2>2, <2>3, <2>4, <3>2, SMTT(30)
        <4>2. QED
          BY <1>1, <2>1, <4>1, LogFacts
      <3>3. QED
        BY <2>5, <3>1, <3>2
    <2>14. drawn # "none" => ~ended /\ Len(log) >= 2 /\ log[2] = "running"
      <3>1. ended => drawn = "none"
        BY <1>2
      <3>2. ~ended => drawn = stream.preview[2]
        BY <1>2
      <3>3. QED
        BY <1>1, <2>5, <3>1, <3>2 DEF StreamOK
    <2>15. Page(v, log, s, p, ended, drawn)
      <3>1. ASSUME NEW k \in 1..Len(v) PROVE PageFrame(v, log, s, p, ended, drawn, k)
        <4>1. CASE k <= p
          <5>1. k \in 1..p /\ v[k] = f[k] /\ p \in Nat
            BY <2>3, <2>12, <4>1
          <5>2. /\ IsStatus(v[k]) /\ v[k].seq = s + k /\ v[k].what = log[s + k]
                /\ log[s + k] \in Terminal => ended
            BY <2>3, <2>5, <5>1
          <5>3. QED
            BY <4>1, <5>1, <5>2 DEF PageFrame
        <4>2. CASE k > p
          <5>1. k \in (p + 1)..Len(v) /\ p \in Nat
            BY <2>3, <2>12, <4>2
          <5>2. v[k] = t[k - p] /\ k - p \in 1..Len(t) /\ (k - p = Len(t) => k = Len(v))
            BY <2>12, <5>1
          <5>3. \/ v[k].type = "answer.preview" /\ v[k].what = drawn
                \/ /\ k = Len(v) /\ v[k].what = "none" /\ v[k].type \in {"stream.end", "stream.reconnect"}
                   /\ v[k].type = "stream.end" => ended
            BY <2>10, <5>2
          <5>4. ~(k <= p)
            BY <5>1
          <5>5. QED
            BY <5>3, <5>4 DEF PageFrame
        <4>3. QED
          BY <2>3, <2>12, <4>1, <4>2
      <3>2. drawn \in {"none", "draft"}
        BY <2>7
      <3>3. QED
        BY <2>14, <3>1, <3>2 DEF Page
    <2>16. /\ WireOK(wire \o v, log, cursor, access = "deleted")
           /\ Delivered(wire \o v, cursor, s + p, Len(wire \o v) + 1)
           /\ ~ended /\ (\A k \in 1..Len(v) : v[k].type # "stream.reconnect") => Open(wire \o v)
      <3>1. Open(wire) /\ Delivered(wire, cursor, s, Len(wire) + 1)
        BY <1>1 DEF StreamOK
      <3>2. /\ Len(log) \in Nat /\ s + p <= Len(log) /\ p <= Len(v)
            /\ access # "deleted" => s + p = Len(log)
        BY <2>1, <2>2, <2>3, <2>4, <2>12, SMTT(30)
      <3>3. PICK gone \in BOOLEAN : gone <=> access = "deleted"
        OBVIOUS
      <3>4. /\ WireOK(wire, log, cursor, gone) /\ (~gone => s + p = Len(log))
            /\ ended => gone \/ log[Len(log)] \in Terminal
            /\ gone = (access = "deleted")
        BY <1>1, <2>13, <3>2, <3>3
      <3>5. /\ WireOK(wire \o v, log, cursor, gone)
            /\ Delivered(wire \o v, cursor, s + p, Len(wire \o v) + 1)
            /\ ~ended /\ (\A k \in 1..Len(v) : v[k].type # "stream.reconnect") => Open(wire \o v)
        <4>1. /\ wire \in Seq(Frames) /\ v \in Seq(Frames) /\ Len(log) \in Nat /\ cursor \in Nat
              /\ gone \in BOOLEAN /\ s \in Nat /\ p \in Nat /\ ended \in BOOLEAN
          BY <2>1, <2>2, <2>3, <2>5, <2>11, <3>2
        <4>2. p <= Len(v) /\ s + p <= Len(log) /\ (~gone => s + p = Len(log))
          BY <3>2, <3>4
        <4>3. Page(v, log, s, p, ended, drawn) /\ (ended => gone \/ log[Len(log)] \in Terminal)
          BY <2>15, <3>4
        <4>4. WireOK(wire, log, cursor, gone) /\ Open(wire) /\ Delivered(wire, cursor, s, Len(wire) + 1)
          BY <3>1, <3>4
        <4>5. QED
          BY ONLY <4>1, <4>2, <4>3, <4>4, PageOK, ZenonT(30)
      <3>6. QED
        BY <3>4, <3>5
    <2>17. ASSUME ~ended, ~last PROVE Open(wire \o v)
      <3>1. ASSUME NEW k \in 1..Len(v) PROVE v[k].type # "stream.reconnect"
        <4>1. CASE k <= p
          BY <2>3, <2>12, <4>1, SMTT(30) DEF IsStatus
        <4>2. CASE k > p
          <5>1. k \in (p + 1)..Len(v)
            BY <2>3, <2>12, <4>2
          <5>2. v[k] = t[k - p] /\ k - p \in 1..Len(t)
            BY <2>12, <5>1
          <5>3. QED
            BY <2>10, <2>17, <5>2
        <4>3. QED
          BY <2>3, <2>12, <4>1, <4>2
      <3>2. QED
        BY <2>16, <2>17, <3>1
    <2>18. /\ stream' \in [pc : {"none", "row", "events"}, cursor : 0..3, tick : 0..(Polls - 1),
                           status : Statuses, preview : Drafts, sent : {<< >>} \cup Drafts]
           /\ StreamOK'
      <3>1. CASE ended \/ last
        BY <1>5, <3>1, NoStreamOK DEF StreamOK, NoStream
      <3>2. CASE ~ended /\ ~last
        <4>1. stream.tick + 1 \in 0..(Polls - 1)
          <5>1. stream.tick + 1 # Polls
            BY <1>2, <3>2
          <5>2. QED
            BY <2>1, <2>2, <5>1
        <4>2. /\ stream' \in [pc : {"none", "row", "events"}, cursor : 0..3, tick : 0..(Polls - 1),
                              status : Statuses, preview : Drafts, sent : {<< >>} \cup Drafts]
              /\ stream'.pc = "row" /\ stream'.cursor = Len(Events)
          BY <1>5, <2>1, <2>4, <2>6, <3>2, <4>1
        <4>3. Open(wire') /\ Delivered(wire', cursor, Len(Events), Len(wire') + 1)
          <5>1. s + p = Len(Events)
            BY <2>2, <2>3, <2>4
          <5>2. QED
            BY <2>11, <2>16, <2>17, <3>2, <5>1
        <4>4. UNCHANGED <<log, cursor, phase>> /\ phase = "open"
          BY <1>1 DEF runVars, clientVars, StreamOK
        <4>5. QED
          BY <2>4, <4>2, <4>3, <4>4 DEF StreamOK
      <3>3. QED
        BY <2>5, <3>1, <3>2
    <2>19. QED
      BY <1>1, <2>11, <2>16, <2>18, ServerStep
  <1>6. QED
    BY <1>3, <1>4, <1>5

(* The browser reads the first frame f and keeps its connection: its cursor    *)
(* moves to d.                                                             *)
LEMMA FrameStep ==
  ASSUME Invariant, phase = "open", wire # << >>, NEW d \in Nat, d = cursor \/ d = cursor + 1,
         IsStatus(wire[1]) => wire[1].seq <= d,
         wire' = Tail(wire), cursor' = d, UNCHANGED <<runVars, phase, stream, faults>>,
         timeline' \in Seq(Statuses), ClientOK', DraftOK', draft' \in {"none", "draft"}, previewRevision' \in Nat
  PROVE  Invariant'
  <1>1. TypeOK /\ LogOK(log) /\ TextOK /\ StreamOK /\ WireOK(wire, log, cursor, access = "deleted")
    BY DEF Invariant
  <1>2. UNCHANGED <<log, live, revision, text, access, phase, stream, faults>>
    BY DEF runVars
  <1>3. wire \in Seq(Frames) /\ log \in Seq(Statuses) /\ Len(log) \in 1..3 /\ cursor \in Nat
    BY <1>1 DEF TypeOK
  <1>4. Tail(wire) \in Seq(Frames) /\ Len(Tail(wire)) = Len(wire) - 1 /\ Len(wire) \in Nat \ {0}
        /\ \A i \in 1..Len(Tail(wire)) : Tail(wire)[i] = wire[i + 1]
    BY <1>3, HeadTailProperties, EmptySeq
  <1>5. WireOK(Tail(wire), log, d, access = "deleted")
    <2>1. Len(log) \in Nat
      BY <1>3
    <2>2. QED
      BY <1>1, <1>3, <2>1, TailOK
  <1>6. d \in 0..3
    <2>1. timeline' \in Seq(Statuses) /\ Len(timeline') \in Nat
      BY LenProperties
    <2>2. d = Len(timeline') /\ Len(timeline') <= Len(log)
      BY <1>2 DEF ClientOK
    <2>3. PICK n \in 1..3 : d <= n
      BY <1>3, <2>2
    <2>4. d \in Nat
      OBVIOUS
    <2>5. QED
      BY ONLY <2>3, <2>4
  <1>7. TypeOK'
    BY <1>1, <1>2, <1>4, <1>6 DEF TypeOK
  <1>8. LogOK(log)' /\ TextOK' /\ CompleteOK'
    BY <1>1, <1>2 DEF LogOK, TextOK, CompleteOK, Status
  <1>9. StreamOK'
    <2> SUFFICES ASSUME stream.pc # "none" PROVE StreamOK'
      BY <1>2 DEF StreamOK
    <2>1. /\ Open(wire) /\ stream.cursor <= Len(log) /\ Delivered(wire, cursor, stream.cursor, Len(wire) + 1)
          /\ stream.pc = "events" =>
               /\ stream.status \in Terminal => Status \in Terminal
               /\ stream.preview[2] # "none" => Len(log) >= 2 /\ log[2] = "running"
      BY <1>1 DEF StreamOK
    <2>2. stream.cursor \in Int
      <3>1. stream.cursor \in 0..3
        BY <1>1 DEF TypeOK
      <3>2. QED
        BY <3>1
    <2>3. Delivered(Tail(wire), d, stream.cursor, Len(Tail(wire)) + 1)
      <3>1. Len(wire) + 1 \in 2..(Len(wire) + 1) /\ (Len(wire) + 1) - 1 = Len(Tail(wire)) + 1
        BY <1>4
      <3>2. Delivered(Tail(wire), d, stream.cursor, (Len(wire) + 1) - 1)
        BY <1>3, <2>1, <2>2, <3>1, TailDelivered
      <3>3. QED
        BY <3>1, <3>2
    <2>4. Open(Tail(wire))
      <3>1. ASSUME NEW i \in 1..Len(Tail(wire)) PROVE Tail(wire)[i] = wire[i + 1] /\ i + 1 \in 1..Len(wire)
        BY <1>4
      <3>2. QED
        BY <2>1, <3>1 DEF Open
    <2>5. QED
      BY <1>2, <2>1, <2>3, <2>4 DEF StreamOK, Status
  <1>10. QED
    BY <1>2, <1>5, <1>7, <1>8, <1>9 DEF Invariant

(* The browser reads: the first frame on a sound wire continues its timeline. *)
LEMMA ReadFrameStep == ASSUME Invariant, ReadFrame PROVE Invariant'
  <1> DEFINE f == wire[1]
  <1>1. TypeOK /\ LogOK(log) /\ ClientOK /\ DraftOK /\ WireOK(wire, log, cursor, access = "deleted")
        /\ phase = "open" /\ wire # << >> /\ UNCHANGED <<runVars, faults>> /\ f = Head(wire)
    BY DEF Invariant, ReadFrame
  <1>2. /\ wire \in Seq(Frames) /\ Len(wire) \in Nat \ {0} /\ f \in Frames
        /\ log \in Seq(Statuses) /\ Len(log) \in 1..3
        /\ timeline \in Seq(Statuses) /\ Len(timeline) \in Nat /\ DOMAIN timeline = 1..Len(timeline)
        /\ cursor \in Nat /\ cursor = Len(timeline) /\ cursor <= Len(log)
        /\ draft \in {"none", "draft"} /\ previewRevision \in Nat /\ faults \in 0..MaxFaults
    <2>1. wire \in Seq(Frames) /\ Len(wire) \in Nat \ {0}
      BY <1>1, EmptySeq DEF TypeOK
    <2>2. 1 \in 1..Len(wire)
      BY <2>1
    <2>3. f \in Frames
      BY <2>1, <2>2, ElementOfSeq
    <2>4. timeline \in Seq(Statuses) /\ Len(timeline) \in Nat /\ DOMAIN timeline = 1..Len(timeline)
      BY <1>1, LenProperties DEF TypeOK
    <2>5. QED
      BY <1>1, <2>1, <2>3, <2>4 DEF TypeOK, ClientOK
  <1>3. Sound(wire, log, cursor, access = "deleted", 1)
    <2>1. 1 \in 1..Len(wire)
      BY <1>2
    <2>2. QED
      BY <1>1, <2>1 DEF WireOK
  <1>4. UNCHANGED <<log, access>>
    BY <1>1 DEF runVars
  <1>5. \A n \in Int : Delivered(wire, cursor, n, 1) => n <= cursor
    <2>1. ASSUME NEW n \in Int, n > cursor PROVE ~Delivered(wire, cursor, n, 1)
      <3>1. n \in (cursor + 1)..n
        BY <1>2, <2>1
      <3>2. ~ \E j \in 1..(1 - 1) : IsStatus(wire[j]) /\ wire[j].seq = n
        OBVIOUS
      <3>3. QED
        BY <3>1, <3>2 DEF Delivered
    <2>2. QED
      BY <1>2, <2>1
  <1>6. \A i \in 1..cursor : timeline[i] = log[i]
    BY <1>1, <1>2 DEF ClientOK
  <1> HIDE DEF f
  <1>7. CASE f.type = "run.status" /\ ReadStatus(f) /\ UNCHANGED previewRevision
    <2>1. f.seq \in 1..Len(log) /\ f.what = log[f.seq] /\ f.seq <= cursor + 1
      <3>1. f.seq \in 1..Len(log) /\ f.what = log[f.seq] /\ Delivered(wire, cursor, f.seq - 1, 1)
        BY <1>3, <1>7 DEF Sound, IsStatus, f
      <3>2. f.seq - 1 \in Int
        BY <1>2, <3>1
      <3>3. f.seq - 1 <= cursor
        BY <1>5, <3>1, <3>2
      <3>4. QED
        BY <1>2, <3>1, <3>3
    <2>2. CASE f.seq <= cursor /\ wire' = Tail(wire) /\ UNCHANGED <<phase, cursor, timeline, draft, stream>>
      <3>1. ClientOK' /\ DraftOK'
        BY <1>1, <1>4, <2>2 DEF ClientOK, DraftOK, TerminalSeen
      <3>2. QED
        BY <1>1, <1>2, <1>7, <2>2, <3>1, FrameStep DEF f
    <2>3. CASE /\ f.seq = cursor + 1 /\ wire' = Tail(wire) /\ cursor' = f.seq
               /\ timeline' = Append(timeline, f.what)
               /\ draft' = IF f.what \in Terminal THEN "none" ELSE draft
               /\ UNCHANGED <<phase, stream>>
      <3>1. cursor + 1 \in 1..Len(log) /\ f.what = log[cursor + 1] /\ f.what \in Statuses /\ cursor' = cursor + 1
        <4>1. cursor + 1 \in 1..Len(log) /\ f.what = log[cursor + 1] /\ cursor' = cursor + 1
          BY <2>1, <2>3
        <4>2. QED
          BY <1>2, <4>1, ElementOfSeq
      <3> HIDE DEF Statuses, Terminal
      <3>2. /\ timeline' \in Seq(Statuses) /\ Len(timeline') = cursor + 1
            /\ \A i \in 1..cursor : timeline'[i] = timeline[i]
            /\ timeline'[cursor + 1] = f.what
            /\ DOMAIN timeline' = 1..(cursor + 1)
        BY <1>2, <2>3, <3>1
      <3>3. \A i \in 1..(cursor + 1) : timeline'[i] = log[i]
        <4>1. ASSUME NEW i \in 1..(cursor + 1) PROVE timeline'[i] = log[i]
          <5>1. CASE i = cursor + 1
            BY <3>1, <3>2, <5>1
          <5>2. CASE i # cursor + 1
            <6>1. i \in 1..cursor
              BY <1>2, <5>2
            <6>2. QED
              BY <1>6, <3>2, <6>1
          <5>3. QED
            BY <5>1, <5>2
        <4>2. QED
          BY <4>1
      <3>4. ClientOK'
        <4>1. cursor + 1 <= Len(log)
          BY <3>1
        <4>2. QED
          BY <1>4, <3>1, <3>2, <3>3, <4>1 DEF ClientOK
      <3>5. DraftOK'
        <4> SUFFICES ASSUME draft' # "none" PROVE ~TerminalSeen' /\ (access = "deleted" \/ (cursor' = 2 /\ log[2] = "running"))
          BY <1>4 DEF DraftOK
        <4>1. draft # "none" /\ f.what \notin Terminal
          BY <2>3
        <4>2. ~TerminalSeen /\ (access = "deleted" \/ (cursor = 2 /\ log[2] = "running"))
          BY <1>1, <4>1 DEF DraftOK
        <4>3. ~TerminalSeen'
          <5>1. \A i \in 1..cursor : timeline[i] \notin Terminal
            BY <1>2, <4>2 DEF TerminalSeen
          <5>2. ASSUME NEW i \in 1..(cursor + 1) PROVE timeline'[i] \notin Terminal
            <6>1. CASE i = cursor + 1
              BY <3>2, <4>1, <6>1
            <6>2. CASE i # cursor + 1
              <7>1. i \in 1..cursor
                BY <1>2, <6>2
              <7>2. QED
                BY <3>2, <5>1, <7>1
            <6>3. QED
              BY <6>1, <6>2
          <5>3. QED
            BY <3>2, <5>2 DEF TerminalSeen
        <4>4. ~(cursor = 2 /\ log[2] = "running")
          <5>1. ASSUME cursor = 2, log[2] = "running" PROVE FALSE
            <6>1. Len(log) = 3 /\ f.what = log[3]
              BY <1>2, <3>1, <5>1
            <6>2. log[3] \in Terminal
              BY <1>1, <6>1 DEF LogOK
            <6>3. QED
              BY <4>1, <6>1, <6>2
          <5>2. QED
            BY <5>1
        <4>5. QED
          BY <4>2, <4>3, <4>4
      <3>6. draft' \in {"none", "draft"} /\ previewRevision' \in Nat
        BY <1>2, <1>7, <2>3
      <3>7. cursor + 1 \in Nat /\ (IsStatus(wire[1]) => wire[1].seq <= cursor + 1)
        BY <1>2, <2>1 DEF f
      <3>8. QED
        BY <1>1, <2>3, <3>1, <3>2, <3>4, <3>5, <3>6, <3>7, FrameStep
    <2>4. CASE f.seq > cursor + 1
      BY <1>2, <2>1, <2>4
    <2>5. QED
      BY <1>7, <2>2, <2>3, <2>4 DEF ReadStatus
  <1>8. CASE f.type = "answer.preview" /\ ReadPreview(f)
    <2>1. wire' = Tail(wire) /\ UNCHANGED <<phase, cursor, timeline, stream>> /\ ~IsStatus(f)
      BY <1>8 DEF ReadPreview, IsStatus
    <2>2. ClientOK'
      BY <1>1, <1>4, <2>1 DEF ClientOK
    <2>3. draft' \in {"none", "draft"} /\ previewRevision' \in Nat
      <3>1. f.seq \in Nat /\ f.what \in Statuses \cup {"none", "draft", "unauthenticated", "stream_unavailable"}
        BY <1>2 DEF Frames
      <3>2. f.what \in {"none", "draft"}
        BY <1>3, <1>8 DEF Sound, f
      <3>3. QED
        BY <1>2, <1>8, <3>1, <3>2 DEF ReadPreview
    <2>4. DraftOK'
      <3>1. TerminalSeen' <=> TerminalSeen
        BY <2>1 DEF TerminalSeen
      <3>2. CASE draft' = draft
        BY <1>1, <1>4, <2>1, <3>1, <3>2 DEF DraftOK
      <3>3. CASE ~TerminalSeen /\ draft' = f.what
        <4> SUFFICES ASSUME f.what # "none", access # "deleted" PROVE cursor = 2 /\ log[2] = "running"
          BY <1>4, <2>1, <3>1, <3>3 DEF DraftOK
        <4>1. Len(log) >= 2 /\ log[2] = "running" /\ Delivered(wire, cursor, 2, 1)
          BY <1>3, <1>8 DEF Sound, f
        <4>2. 2 <= cursor
          BY <1>5, <4>1
        <4>3. cursor # 3
          <5>1. ASSUME cursor = 3 PROVE FALSE
            <6>1. Len(log) = 3
              BY <1>2, <5>1
            <6>2. log[3] \in Terminal
              BY <1>1, <6>1 DEF LogOK
            <6>3. 3 \in 1..cursor /\ 3 \in DOMAIN timeline /\ timeline[3] = log[3]
              BY <1>2, <1>6, <5>1
            <6>4. QED
              BY <3>3, <6>2, <6>3 DEF TerminalSeen
          <5>2. QED
            BY <5>1
        <4>4. PICK n \in 1..3 : cursor <= n
          BY <1>2
        <4>5. cursor \in Nat
          BY <1>2
        <4>6. cursor = 2
          BY ONLY <4>2, <4>3, <4>4, <4>5
        <4>7. QED
          BY <4>1, <4>6
      <3>4. QED
        BY <1>8, <3>2, <3>3 DEF ReadPreview
    <2>5. QED
      BY <1>1, <1>2, <2>1, <2>2, <2>3, <2>4, FrameStep DEF f
  <1>9. CASE f.type = "stream.reconnect" /\ ReadReconnect
    <2>1. /\ phase' = "waiting" /\ stream' = NoStream /\ wire' = << >> /\ NoStream.pc = "none"
          /\ UNCHANGED <<cursor, timeline, draft, previewRevision>>
      BY <1>9 DEF ReadReconnect, NoStream
    <2>2. QED
      BY <1>1, <1>2, <2>1, NoStreamOK, QuietStep
  <1>10. CASE /\ f.type \in {"stream.end", "stream.error"} /\ ReadControl(f)
              /\ UNCHANGED <<cursor, timeline, previewRevision>>
    <2>1. /\ phase' \in {"waiting", "complete", "stopped"} /\ (phase' = "complete" => f.type = "stream.end")
          /\ draft' = "none" /\ stream' = NoStream /\ wire' = << >> /\ NoStream.pc = "none"
      BY <1>10 DEF ReadControl, Interrupted, NoStream
    <2>2. f.type = "stream.end" => access = "deleted" \/ (cursor = Len(log) /\ Status \in Terminal)
      <3>1. f.type = "stream.end" => access = "deleted" \/ (log[Len(log)] \in Terminal /\ Delivered(wire, cursor, Len(log), 1))
        BY <1>3 DEF Sound, f
      <3>2. Len(log) \in Int /\ (Len(log) <= cursor => cursor = Len(log))
        BY <1>2
      <3>3. QED
        BY <1>5, <3>1, <3>2 DEF Status
    <2>3. QED
      BY <1>1, <1>2, <1>10, <2>1, <2>2, NoStreamOK, QuietStep
  <1>11. QED
    BY <1>1, <1>7, <1>8, <1>9, <1>10 DEF ReadFrame

-----------------------------------------------------------------------------
(* No step of the run, the server or the browser breaks the invariant.        *)
THEOREM InvariantHolds == Spec => []Invariant
  <1>1. ASSUME Invariant, [Next]_vars PROVE Invariant'
    <2>1. CASE Next
      BY <1>1, <2>1, RunStep, ConnectStep, ReadRowStep, ReadEventsStep, ReadFrameStep, BreakStep DEF Next
    <2>2. CASE UNCHANGED vars
      BY <1>1, <2>2, SMTT(30) DEF vars, runVars, clientVars, Invariant, TypeOK, LogOK, TextOK, ClientOK, StreamOK,
                        CompleteOK, DraftOK, Status, TerminalSeen
    <2>3. QED
      BY <1>1, <2>1, <2>2
  <1>2. QED
    BY <1>1, InitInvariant, PTL DEF Spec

(* The timeline is the beginning of the log, and no gap is ever met: nothing   *)
(* that a page or a connection loses is skipped.                             *)
THEOREM TimelineHasNoGap == Spec => []TimelineIsPrefix
  <1>1. ASSUME Invariant PROVE TimelineIsPrefix
    <2>1. /\ log \in Seq(Statuses) /\ timeline \in Seq(Statuses) /\ wire \in Seq(Frames)
          /\ ClientOK /\ WireOK(wire, log, cursor, access = "deleted")
      BY <1>1 DEF Invariant, TypeOK
    <2>2. Len(timeline) \in Nat /\ Len(log) \in Nat /\ DOMAIN wire = 1..Len(wire)
      BY <2>1, LenProperties
    <2>3. timeline = SubSeq(log, 1, Len(timeline))
      <3> DEFINE n == Len(timeline)
                 u == SubSeq(log, 1, n)
      <3>1. \A i \in 1..n : log[i] \in Statuses /\ timeline[i] = log[i]
        <4>1. ASSUME NEW i \in 1..n PROVE log[i] \in Statuses /\ timeline[i] = log[i]
          <5>1. i \in 1..Len(log) /\ timeline[i] = log[i]
            BY <2>1, <2>2 DEF ClientOK
          <5>2. QED
            BY <2>1, <5>1, ElementOfSeq
        <4>2. QED
          BY <4>1
      <3>2. u \in Seq(Statuses) /\ Len(u) = n /\ \A i \in 1..n : u[i] = log[i]
        <4>1. /\ u \in Seq(Statuses) /\ Len(u) = IF 1 <= n THEN n - 1 + 1 ELSE 0
              /\ \A i \in 1..(n - 1 + 1) : u[i] = log[1 + i - 1]
          BY <2>2, <3>1, SubSeqProperties
        <4> HIDE DEF u
        <4>2. QED
          BY <2>2, <4>1
      <3> HIDE DEF u
      <3>3. timeline = u
        BY <2>1, <3>1, <3>2, SeqEqual
      <3>4. QED
        BY <3>3 DEF u
    <2>4. ASSUME NEW i \in DOMAIN wire, wire[i].type = "run.status"
          PROVE  \A m \in (cursor + 1)..(wire[i].seq - 1) :
                   \E j \in 1..(i - 1) : wire[j].type = "run.status" /\ wire[j].seq = m
      BY <2>1, <2>2, <2>4 DEF WireOK, Sound, Delivered, IsStatus
    <2>5. QED
      BY <2>1, <2>3, <2>4 DEF TimelineIsPrefix, ClientOK
  <1>2. QED
    BY <1>1, InvariantHolds, PTL

(* "Timeline complete." stands over the whole log of an ended run.            *)
THEOREM CompleteMeansAll == Spec => []CompleteIsComplete
  <1>1. ASSUME Invariant PROVE CompleteIsComplete
    <2>1. log \in Seq(Statuses) /\ timeline \in Seq(Statuses) /\ ClientOK /\ CompleteOK
      BY <1>1 DEF Invariant, TypeOK
    <2>2. ASSUME cursor = Len(log) PROVE timeline = log
      <3>1. Len(timeline) = Len(log) /\ \A i \in 1..Len(timeline) : timeline[i] = log[i]
        BY <2>1, <2>2 DEF ClientOK
      <3>2. QED
        BY <2>1, <3>1, SeqEqual
    <2>3. QED
      BY <2>1, <2>2 DEF CompleteIsComplete, CompleteOK
  <1>2. QED
    BY <1>1, InvariantHolds, PTL

(* A draft is on the screen only between running and the end.                 *)
THEOREM DraftsStayInTime == Spec => []DraftOnlyWhileRunning
  <1>1. ASSUME Invariant PROVE DraftOnlyWhileRunning
    <2>1. log \in Seq(Statuses) /\ timeline \in Seq(Statuses) /\ wire \in Seq(Frames)
          /\ ClientOK /\ DraftOK /\ WireOK(wire, log, cursor, access = "deleted")
      BY <1>1 DEF Invariant, TypeOK
    <2>2. Len(timeline) \in Nat /\ DOMAIN wire = 1..Len(wire) /\ Len(wire) \in Nat
      BY <2>1, LenProperties
    <2>3. ASSUME cursor = 2, log[2] = "running" PROVE timeline # << >> /\ timeline[Len(timeline)] = "running"
      <3>1. Len(timeline) = 2 /\ timeline[2] = "running"
        BY <2>1, <2>3 DEF ClientOK
      <3>2. QED
        BY <3>1, EmptySeq
    <2>4. ASSUME NEW i \in DOMAIN wire, NEW j \in DOMAIN wire, i < j, wire[i].what \in Terminal,
                 wire[j].type = "answer.preview"
          PROVE  wire[j].what = "none"
      <3>1. j \in 1..Len(wire) /\ i \in 1..(j - 1)
        BY <2>2, <2>4
      <3>2. Sound(wire, log, cursor, access = "deleted", j)
        BY <2>1, <3>1 DEF WireOK
      <3>3. QED
        BY <2>4, <3>1, <3>2 DEF Sound
    <2>5. QED
      BY <2>1, <2>3, <2>4 DEF DraftOnlyWhileRunning, DraftOK
  <1>2. QED
    BY <1>1, InvariantHolds, PTL

=============================================================================
