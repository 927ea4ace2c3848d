--------------------------- MODULE RowLocksProofs ---------------------------
(***************************************************************************)
(* RowLocks for every number of transactions, repositories and rows: requests *)
(* that count under the lock of one row never exceed a limit together,       *)
(* and only the removal of a repository deadlocks, with the five operations   *)
(* that lock a row below it first.                                            *)
(***************************************************************************)
EXTENDS RowLocks, SequenceTheorems, FiniteSetTheorems, TLAPS

(* The three quotas: the rows that are counted, and the row whose lock makes    *)
(* the transactions that count them take turns.                              *)
Quotas ==
  {[table |-> "repositories", among |-> Repositories, limit |-> RepositoryLimit, row |-> User],
   [table |-> "import_jobs", among |-> Repositories, limit |-> ImportLimit, row |-> User]}
  \cup {[table |-> "conversations", among |-> {r}, limit |-> ConversationLimit,
         row |-> Repository(r)] : r \in Repositories}

Of(q, rows) == {x \in rows : x.table = q.table /\ x.repository \in q.among}

(* Statements: one that inserts a counted row, that counts, that locks.       *)
Adds(q, s) ==
  s.do = "row" /\ s.needs = {"absent"} /\ s.row.table = q.table /\ s.row.repository \in q.among
Counts(q, s) == s = Count(q.table, q.among, q.limit)
Locks(q, s) == s = Lock(q.row, {"present"})

Turn(q) == Hold(q.row, "update")

(* What a transaction has written to counted rows, and which it will insert.  *)
Added(t, q) == Of(q, {x \in DOMAIN wrote[t] : wrote[t][x] # "absent"})
Planned(t, q) == {s.row : s \in {x \in Range(todo[t]) : Adds(q, x)}}

-----------------------------------------------------------------------------
(* A statement that writes a row inserts it or holds its lock, and one that    *)
(* deletes it holds it for itself.                                          *)
StatementOK(s) ==
  \/ s.do = "count"
  \/ /\ s.do = "row"
     /\ \/ s.sets = "same"
        \/ s.sets \in Existing /\ s.needs = {"absent"}
        \/ s.sets \in Existing /\ "absent" \notin s.needs /\ \E l \in s.locks : l.row = s.row
        \/ s.sets = "absent" /\ "absent" \notin s.needs /\ Hold(s.row, "update") \in s.locks

Listed(p) == p \in Seq(Range(p))

Shaped(p) == Listed(p) /\ \A s \in Range(p) : StatementOK(s)

(* Every transaction is a list of such statements; what it holds and wrote is   *)
(* nothing before it begins.                                                *)
Typed ==
  /\ IsFiniteSet(DOMAIN table) /\ \A x \in DOMAIN table : table[x] \in Existing
  /\ kind = [t \in Slots |-> kind[t]] /\ todo = [t \in Slots |-> todo[t]]
  /\ held = [t \in Slots |-> held[t]] /\ wrote = [t \in Slots |-> wrote[t]]
  /\ \A t \in Slots :
       /\ Shaped(todo[t])
       /\ IsFiniteSet(DOMAIN wrote[t]) /\ \A x \in DOMAIN wrote[t] : wrote[t][x] \in States
       /\ Idle(t) => todo[t] = << >> /\ held[t] = {} /\ DOMAIN wrote[t] = {}

(* Two transactions never hold conflicting locks.                           *)
Exclusive ==
  \A t, u \in Slots : t # u =>
    \A l \in held[t], h \in held[u] : l.row = h.row => ~Conflict(l.mode, h.mode)

(* A row that a transaction has deleted is locked by it.                     *)
DropsLocked ==
  \A t \in Slots : \A x \in DOMAIN wrote[t] : wrote[t][x] = "absent" => Hold(x, "update") \in held[t]

(* A transaction that has counted holds its turn, and what it adds fits.      *)
Room(t, q) ==
  /\ Turn(q) \in held[t]
  /\ Cardinality(Of(q, DOMAIN table) \cup Added(t, q) \cup Planned(t, q)) <= q.limit

(* A transaction that is going to insert a row deletes nothing.             *)
Keeps(t) ==
  /\ \A x \in DOMAIN wrote[t] : wrote[t][x] # "absent"
  /\ \A s \in Range(todo[t]) : s.do = "row" => s.sets # "absent"

(* One that has not counted will take its turn and count before it inserts.  *)
WillCount(p, has, q) ==
  \A i \in DOMAIN p : Adds(q, p[i]) =>
    \E j \in 1..(i - 1) : Counts(q, p[j]) /\ (has \/ \E k \in 1..(j - 1) : Locks(q, p[k]))

OneAdds(p, q) == \A i, j \in DOMAIN p : Adds(q, p[i]) /\ Adds(q, p[j]) => i = j

Waiting(t, q) ==
  /\ \A x \in Added(t, q) : x \in DOMAIN table /\ \E h \in held[t] : h.row = x
  /\ WillCount(todo[t], Turn(q) \in held[t], q) /\ OneAdds(todo[t], q)
  /\ Planned(t, q) # {} => Keeps(t)

Guarded == \A t \in Slots, q \in Quotas : Room(t, q) \/ Waiting(t, q)

Within == \A q \in Quotas : Cardinality(Of(q, DOMAIN table)) <= q.limit

Invariant == Typed /\ Exclusive /\ DropsLocked /\ Guarded /\ Within

-----------------------------------------------------------------------------
(* Lists of statements.                                                      *)

(* A function on 1..n is a list.                                            *)
LEMMA FunctionListed ==
  ASSUME NEW n \in Nat, NEW p, p = [i \in 1..n |-> p[i]]
  PROVE  Listed(p) /\ Len(p) = n
  <1>1. p \in [1..n -> Range(p)]
    BY DEF Range
  <1>2. p \in Seq(Range(p))
    BY <1>1, SeqDef
  <1> QED
    BY <1>1, <1>2, LenProperties DEF Listed

(* The members of a list are at the places from 1 to its length.              *)
LEMMA ListedFacts ==
  ASSUME NEW p, Listed(p)
  PROVE  /\ Len(p) \in Nat /\ DOMAIN p = 1..Len(p) /\ Range(p) = {p[i] : i \in 1..Len(p)}
         /\ p # << >> => Len(p) >= 1
  <1>1. Len(p) \in Nat /\ DOMAIN p = 1..Len(p)
    BY LenProperties DEF Listed
  <1>2. p # << >> => Len(p) \in Nat \ {0}
    BY EmptySeq DEF Listed
  <1> QED
    BY <1>1, <1>2 DEF Range

LEMMA EmptyListed == Listed(<< >>) /\ Range(<< >>) = {} /\ Len(<< >>) = 0 /\ DOMAIN << >> = {}
  <1>1. << >> \in Seq(Range(<< >>)) /\ Len(<< >>) = 0
    BY EmptySeq
  <1>2. DOMAIN << >> = 1..0
    BY <1>1, LenProperties
  <1>3. 1..0 = {}
    OBVIOUS
  <1> QED
    BY <1>1, <1>2, <1>3 DEF Listed, Range

LEMMA OneListed == ASSUME NEW x PROVE Listed(<<x>>) /\ Range(<<x>>) = {x} /\ Len(<<x>>) = 1
  <1>1. <<x>> \in Seq({x}) /\ Len(<<x>>) = 1 /\ DOMAIN <<x>> = {1} /\ <<x>>[1] = x
    OBVIOUS
  <1>2. Range(<<x>>) = {x}
    BY <1>1 DEF Range
  <1> QED
    BY <1>1, <1>2 DEF Listed

LEMMA ConcatListed ==
  ASSUME NEW a, NEW b, Listed(a), Listed(b)
  PROVE  /\ Listed(a \o b) /\ Range(a \o b) = Range(a) \cup Range(b)
         /\ Len(a \o b) = Len(a) + Len(b)
         /\ \A i \in 1..Len(a \o b) : (a \o b)[i] = IF i <= Len(a) THEN a[i] ELSE b[i - Len(a)]
  <1> DEFINE S == Range(a) \cup Range(b)
  <1>1. a \in Seq(S) /\ b \in Seq(S)
    BY SeqMonotonic DEF Listed
  <1> HIDE DEF S
  <1>2. /\ a \o b \in Seq(S) /\ Len(a \o b) = Len(a) + Len(b)
        /\ \A i \in 1..Len(a \o b) : (a \o b)[i] = IF i <= Len(a) THEN a[i] ELSE b[i - Len(a)]
    BY <1>1, ConcatProperties
  <1>3. Range(a \o b) = Range(a) \cup Range(b)
    BY <1>1, RangeConcatenation
  <1> QED
    BY <1>2, <1>3 DEF Listed, S

(* One more member.                                                          *)
More(a, x) == a \o <<x>>

LEMMA MoreListed ==
  ASSUME NEW a, Listed(a), NEW x
  PROVE  /\ Listed(More(a, x)) /\ Len(More(a, x)) = Len(a) + 1 /\ More(a, x)[Len(a) + 1] = x
         /\ \A i \in 1..Len(a) : More(a, x)[i] = a[i]
  <1> DEFINE b == <<x>>
  <1>1. Listed(b) /\ Len(b) = 1 /\ b[1] = x
    BY OneListed
  <1>2. Len(a) \in Nat
    BY ListedFacts
  <1> HIDE DEF b
  <1>3. /\ Listed(a \o b) /\ Len(a \o b) = Len(a) + 1
        /\ \A i \in 1..(Len(a) + 1) : (a \o b)[i] = IF i <= Len(a) THEN a[i] ELSE b[i - Len(a)]
    <2>1. Listed(b)
      BY <1>1
    <2>2. /\ Listed(a \o b) /\ Len(a \o b) = Len(a) + Len(b)
          /\ \A i \in 1..Len(a \o b) : (a \o b)[i] = IF i <= Len(a) THEN a[i] ELSE b[i - Len(a)]
      BY <2>1, ConcatListed
    <2> QED
      BY <1>1, <2>2
  <1>4. (a \o b)[Len(a) + 1] = b[1]
    <2>1. Len(a) + 1 \in 1..(Len(a) + 1) /\ ~(Len(a) + 1 <= Len(a)) /\ (Len(a) + 1) - Len(a) = 1
      BY <1>2
    <2> QED
      BY <1>3, <2>1
  <1>5. \A i \in 1..Len(a) : (a \o b)[i] = a[i]
    BY <1>2, <1>3
  <1> QED
    BY <1>1, <1>3, <1>4, <1>5 DEF b, More

LEMMA TailListed ==
  ASSUME NEW p, Listed(p), p # << >>
  PROVE  /\ Head(p) = p[1] /\ p[1] \in Range(p)
         /\ Listed(Tail(p)) /\ Range(Tail(p)) \subseteq Range(p) /\ Len(Tail(p)) = Len(p) - 1
         /\ \A i \in 1..Len(Tail(p)) : Tail(p)[i] = p[i + 1]
  <1> DEFINE S == Range(p)
  <1>1. p \in Seq(S)
    BY DEF Listed
  <1>2. Len(p) \in Nat /\ Len(p) >= 1 /\ DOMAIN p = 1..Len(p)
    BY ListedFacts
  <1>3. /\ Tail(p) \in Seq(S) /\ Len(Tail(p)) = Len(p) - 1
        /\ \A i \in 1..Len(Tail(p)) : Tail(p)[i] = p[i + 1]
    BY <1>1, HeadTailProperties
  <1>4. Head(p) = p[1]
    BY <1>1, <1>2
  <1>5. p[1] \in Range(p)
    BY <1>2 DEF Range
  <1>6. Tail(p) \in Seq(Range(Tail(p)))
    BY <1>3, SeqOfRange
  <1>7. DOMAIN Tail(p) = 1..Len(Tail(p))
    BY <1>3, LenProperties
  <1>8. Range(Tail(p)) \subseteq Range(p)
    <2> SUFFICES ASSUME NEW i \in DOMAIN Tail(p) PROVE Tail(p)[i] \in Range(p)
      BY DEF Range
    <2>1. Tail(p)[i] = p[i + 1] /\ i + 1 \in DOMAIN p
      BY <1>2, <1>3, <1>7
    <2> QED
      BY <2>1 DEF Range
  <1> QED
    BY <1>3, <1>4, <1>5, <1>6, <1>8 DEF Listed

(* What the members of a list name is finite.                               *)
LEMMA RangeFinite == ASSUME NEW p, Listed(p) PROVE IsFiniteSet(Range(p))
  <1>1. Len(p) \in Nat /\ DOMAIN p = 1..Len(p) /\ p \in [1..Len(p) -> Range(p)]
    BY ListedFacts, LenProperties DEF Listed
  <1>2. p \in Surjection(1..Len(p), Range(p))
    BY <1>1 DEF Surjection, Range
  <1>3. IsFiniteSet(1..Len(p))
    BY <1>1, FS_Interval
  <1> QED
    BY <1>2, <1>3, FS_Surjection

-----------------------------------------------------------------------------
(* The statements of the operations.                                         *)

Counted3 == {"repositories", "import_jobs", "conversations"}

(* A statement that no quota is about, and a list of such statements.         *)
Plain(s) == StatementOK(s) /\ (s.do = "row" /\ s.needs = {"absent"} => s.row.table \notin Counted3)
PlainList(p) == Listed(p) /\ \A s \in Range(p) : Plain(s)

(* What a transaction may begin with.                                        *)
Programmed(p) ==
  /\ Shaped(p)
  /\ \A q \in Quotas :
       /\ WillCount(p, FALSE, q) /\ OneAdds(p, q)
       /\ (\E s \in Range(p) : Adds(q, s)) => \A s \in Range(p) : s.do = "row" => s.sets # "absent"

LEMMA QuotaTables == \A q \in Quotas : q.table \in Counted3
  BY DEF Quotas, Counted3

(* The sets of states are what the statements need them to be.                *)
LEMMA StateNames ==
  /\ Existing = {"present", "active", "completed", "stopped", "replaced"}
  /\ States = Existing \cup {"absent"} /\ "absent" \notin Existing /\ "same" \notin States
  /\ Active = {"active"} /\ Terminal = {"completed", "stopped"}
  BY DEF Existing, States, Active, Terminal

LEMMA ReadPlain ==
  ASSUME NEW row, NEW needs, "absent" \notin needs PROVE Plain(Read(row, needs))
  BY DEF Plain, StatementOK, Read, Statement

LEMMA LockPlain ==
  ASSUME NEW row, NEW needs, "absent" \notin needs PROVE Plain(Lock(row, needs))
  BY DEF Plain, StatementOK, Lock, Statement

LEMMA ChangePlain ==
  ASSUME NEW row, NEW needs, "absent" \notin needs, NEW sets \in Existing \cup {"same"}
  PROVE  Plain(Change(row, needs, sets)) /\ Change(row, needs, sets).sets # "absent"
  <1> DEFINE s == Change(row, needs, sets)
  <1>1. /\ s.do = "row" /\ s.needs = needs /\ s.sets = sets /\ s.row = row
        /\ s.locks = {Hold(row, "no_key_update")}
    BY DEF Change, Statement
  <1>h. Hold(row, "no_key_update").row = row
    BY DEF Hold
  <1> HIDE DEF s
  <1>2. \E l \in s.locks : l.row = s.row
    BY <1>1, <1>h
  <1>3. "absent" \notin s.needs /\ s.needs # {"absent"}
    BY <1>1
  <1>4. StatementOK(s)
    BY <1>1, <1>2, <1>3 DEF StatementOK
  <1>5. Plain(s) /\ s.sets # "absent"
    BY <1>1, <1>3, <1>4, StateNames DEF Plain
  <1> QED
    BY <1>5 DEF s

LEMMA ChangeUnlessPlain ==
  ASSUME NEW row, NEW needs, "absent" \notin needs, NEW ends, NEW sets \in Existing \cup {"same"}
  PROVE  Plain(ChangeUnless(row, needs, ends, sets))
  <1> DEFINE s == ChangeUnless(row, needs, ends, sets)
             c == Change(row, needs, sets)
  <1>1. /\ s.do = c.do /\ s.needs = c.needs /\ s.sets = c.sets /\ s.row = c.row /\ s.locks = c.locks
    BY DEF Change, ChangeUnless, Statement
  <1>2. Plain(c)
    BY ChangePlain
  <1> HIDE DEF s, c
  <1>3. Plain(s)
    BY <1>1, <1>2 DEF Plain, StatementOK
  <1> QED
    BY <1>3 DEF s

LEMMA DropPlain ==
  ASSUME NEW row PROVE Plain(Drop(row)) /\ Drop(row).do = "row" /\ "absent" \notin Drop(row).needs
  <1> DEFINE s == Drop(row)
  <1>1. /\ s.do = "row" /\ s.needs = Existing /\ s.sets = "absent" /\ s.row = row
        /\ s.locks = {Hold(row, "update")}
    BY DEF Drop, Statement
  <1> HIDE DEF s
  <1>2. Plain(s) /\ s.do = "row" /\ "absent" \notin s.needs
    BY <1>1, StateNames DEF Plain, StatementOK
  <1> QED
    BY <1>2 DEF s

(* The inserted row is all that an insertion writes.                          *)
LEMMA InsertFacts ==
  ASSUME NEW row, NEW state \in Existing
  PROVE  \E s : /\ Insert(row, state) = <<s>> /\ StatementOK(s) /\ s.do = "row" /\ s.row = row
                /\ s.needs = {"absent"} /\ s.sets = state
  <1> DEFINE s == Statement({Hold(x, "key_share") : x \in Range(References(row))}, row,
                            {"absent"}, States, state)
  <1>1. s.do = "row" /\ s.row = row /\ s.needs = {"absent"} /\ s.sets = state
    BY DEF Statement
  <1>2. Insert(row, state) = <<s>>
    BY DEF Insert
  <1> HIDE DEF s
  <1> QED
    BY <1>1, <1>2 DEF StatementOK

LEMMA InsertPlain ==
  ASSUME NEW row, row.table \notin Counted3, NEW state \in Existing
  PROVE  PlainList(Insert(row, state))
  <1>1. PICK s : /\ Insert(row, state) = <<s>> /\ StatementOK(s) /\ s.do = "row" /\ s.row = row
    BY InsertFacts
  <1>2. Plain(s)
    BY <1>1 DEF Plain
  <1> QED
    BY <1>1, <1>2, OneListed DEF PlainList

LEMMA OnePlain == ASSUME NEW s, Plain(s) PROVE PlainList(<<s>>)
  BY OneListed DEF PlainList

LEMMA ConcatPlain ==
  ASSUME NEW a, NEW b, PlainList(a), PlainList(b) PROVE PlainList(a \o b)
  BY ConcatListed DEF PlainList

(* A list of two or three statements is one after another.                    *)
LEMMA TwoPlain == ASSUME NEW a, NEW b, Plain(a), Plain(b) PROVE PlainList(<<a, b>>)
  <1>1. Listed(<<a, b>>) /\ Range(<<a, b>>) = {a, b}
    <2>1. <<a, b>> \in Seq({a, b}) /\ DOMAIN <<a, b>> = 1..2 /\ <<a, b>>[1] = a /\ <<a, b>>[2] = b
      OBVIOUS
    <2>2. Range(<<a, b>>) = {a, b}
      BY <2>1 DEF Range
    <2> QED
      BY <2>1, <2>2 DEF Listed
  <1> QED
    BY <1>1 DEF PlainList

LEMMA ThreePlain ==
  ASSUME NEW a, NEW b, NEW c, Plain(a), Plain(b), Plain(c) PROVE PlainList(<<a, b, c>>)
  <1>1. Listed(<<a, b, c>>) /\ Range(<<a, b, c>>) = {a, b, c}
    <2>1. /\ <<a, b, c>> \in Seq({a, b, c}) /\ DOMAIN <<a, b, c>> = 1..3
          /\ <<a, b, c>>[1] = a /\ <<a, b, c>>[2] = b /\ <<a, b, c>>[3] = c
      OBVIOUS
    <2>2. Range(<<a, b, c>>) = {a, b, c}
      BY <2>1 DEF Range
    <2> QED
      BY <2>1, <2>2 DEF Listed
  <1> QED
    BY <1>1 DEF PlainList

(* A list without counted rows is a program.                                 *)
LEMMA PlainProgrammed == ASSUME NEW p, PlainList(p) PROVE Programmed(p)
  <1>1. \A q \in Quotas, s \in Range(p) : ~Adds(q, s)
    BY QuotaTables DEF PlainList, Plain, Adds
  <1>2. \A i \in DOMAIN p : p[i] \in Range(p)
    BY DEF Range
  <1> QED
    BY <1>1, <1>2 DEF Programmed, PlainList, Plain, Shaped, WillCount, OneAdds

(* A finite set as a list.                                                   *)
LEMMA SetListed ==
  ASSUME NEW S, IsFiniteSet(S)
  PROVE  /\ Cardinality(S) \in Nat /\ DOMAIN SetToSeq(S) = 1..Cardinality(S)
         /\ Listed(SetToSeq(S))
  <1>1. Cardinality(S) \in Nat
    BY FS_CardinalityType
  <1>2. PICK f : f \in Bijection(1..Cardinality(S), S)
    BY FS_CardinalityType DEF ExistsBijection
  <1>3. f \in [1..Cardinality(S) -> S] /\ IsInjective(f)
    BY <1>2 DEF Bijection, Injection
  <1>4. SetToSeq(S) \in [1..Cardinality(S) -> S]
    BY <1>3 DEF SetToSeq
  <1> QED
    BY <1>1, <1>4, FunctionListed

(* The members of a set's list.                                              *)
LEMMA SetMembers ==
  ASSUME NEW S, IsFiniteSet(S)
  PROVE  \A i \in DOMAIN SetToSeq(S) : SetToSeq(S)[i] \in S
  <1>1. PICK f : f \in Bijection(1..Cardinality(S), S)
    BY FS_CardinalityType DEF ExistsBijection
  <1>2. f \in [1..Cardinality(S) -> S] /\ IsInjective(f)
    BY <1>1 DEF Bijection, Injection
  <1>3. SetToSeq(S) \in [1..Cardinality(S) -> S]
    BY <1>2 DEF SetToSeq
  <1> QED
    BY <1>3

(* The operations that insert no counted row.                                 *)
LEMMA RemovePlain ==
  ASSUME NEW r, NEW n
  PROVE  PlainList(RemoveRepository(r)) /\ PlainList(RemoveConversation(r, n))
  BY DropPlain, OnePlain DEF RemoveRepository, RemoveConversation

LEMMA PublishImportPlain == ASSUME NEW r, NEW n PROVE PlainList(PublishImport(r, n))
  <1>1. PlainList(<<Change(Job(r, n), Active, "completed")>>)
    BY ChangePlain, OnePlain, StateNames
  <1>2. PlainList(Insert(Row("repository_files", r, n), "present"))
    <2>1. Row("repository_files", r, n).table \notin Counted3
      BY DEF Row, Counted3
    <2> QED
      BY <2>1, InsertPlain, StateNames
  <1>3. PlainList(<<Change(Repository(r), {"present"}, "same")>>)
    BY ChangePlain, OnePlain
  <1> QED
    BY <1>1, <1>2, <1>3, ConcatPlain DEF PublishImport

LEMMA PublishIndexPlain == ASSUME NEW r, NEW n PROVE PlainList(PublishIndex(r, n))
  <1>1. PlainList(<<Change(Index(r, n), Active, "completed")>>)
    BY ChangePlain, OnePlain, StateNames
  <1>2. PlainList(Insert(Row("code_chunks", r, n), "present"))
    <2>1. Row("code_chunks", r, n).table \notin Counted3
      BY DEF Row, Counted3
    <2> QED
      BY <2>1, InsertPlain, StateNames
  <1> QED
    BY <1>1, <1>2, ConcatPlain DEF PublishIndex

(* The latest of a queue makes room for a new one.                            *)
LEMMA ReplacePlain ==
  ASSUME NEW r, NEW n
  PROVE  PlainList(Replace(Index, r, n)) /\ PlainList(Replace(Search, r, n))
  <1> DEFINE others == SetToSeq(Numbers \ {n})
             m == Cardinality(Numbers \ {n})
             Made(row) == ChangeUnless(row, Terminal, Active, "replaced")
             p == [i \in DOMAIN others |-> Made(Index(r, others[i]))]
             q == [i \in DOMAIN others |-> Made(Search(r, others[i]))]
  <1>1. IsFiniteSet(Numbers \ {n})
    <2>1. Copies \in Nat
      BY LockBounds
    <2>2. IsFiniteSet(Numbers)
      BY <2>1, FS_Interval DEF Numbers
    <2> QED
      BY <2>2, FS_Subset
  <1>2. m \in Nat /\ DOMAIN others = 1..m
    BY <1>1, SetListed
  <1>3. \A row : Plain(Made(row))
    BY ChangeUnlessPlain, StateNames
  <1>4. Replace(Index, r, n) = p /\ Replace(Search, r, n) = q
    BY DEF Replace
  <1> HIDE DEF Made, others, m
  <1>5. PlainList(p)
    <2>1. Listed(p)
      BY <1>2, FunctionListed
    <2>2. \A s \in Range(p) : Plain(s)
      BY <1>3 DEF Range
    <2> QED
      BY <2>1, <2>2 DEF PlainList
  <1>6. PlainList(q)
    <2>1. Listed(q)
      BY <1>2, FunctionListed
    <2>2. \A s \in Range(q) : Plain(s)
      BY <1>3 DEF Range
    <2> QED
      BY <2>1, <2>2 DEF PlainList
  <1> QED
    BY <1>4, <1>5, <1>6

LEMMA StartPlain ==
  ASSUME NEW r, NEW n
  PROVE  PlainList(StartIndex(r, n)) /\ PlainList(StartSearch(r, n)) /\ PlainList(ResumeSearch(r, n))
  <1>1. \A row : Plain(Lock(row, {"present"})) /\ Plain(Read(row, {"completed"}))
    BY LockPlain, ReadPlain
  <1>2. Plain(Change(Search(r, n), {"stopped"}, "active"))
    BY ChangePlain, StateNames
  <1>3. PlainList(Insert(Index(r, n), "active")) /\ PlainList(Insert(Search(r, n), "active"))
    <2>1. Index(r, n).table \notin Counted3 /\ Search(r, n).table \notin Counted3
      BY DEF Row, Index, Search, Counted3
    <2> QED
      BY <2>1, InsertPlain, StateNames
  <1>4. /\ PlainList(<<Lock(Repository(r), {"present"}), Read(Job(r, 1), {"completed"})>>)
        /\ PlainList(<<Lock(Repository(r), {"present"}), Read(Index(r, 1), {"completed"})>>)
    BY <1>1, TwoPlain
  <1>5. PlainList(StartIndex(r, n)) /\ PlainList(StartSearch(r, n))
    BY <1>3, <1>4, ReplacePlain, ConcatPlain DEF StartIndex, StartSearch
  <1>6. PlainList(ResumeSearch(r, n))
    BY <1>1, <1>2, ThreePlain DEF ResumeSearch
  <1> QED
    BY <1>5, <1>6

LEMMA CheckpointPlain == ASSUME NEW r, NEW n PROVE PlainList(Checkpoint(r, n))
  <1> DEFINE c == Row("code_chunks", r, 1)
             s == Statement({Hold(c, "key_share")}, c, Existing, States, "same")
  <1>1. Plain(Change(Search(r, n), Active, "same"))
    BY ChangePlain, StateNames
  <1>2. s.do = "row" /\ s.sets = "same" /\ s.needs = Existing
    BY DEF Statement
  <1>3. Checkpoint(r, n) = <<Change(Search(r, n), Active, "same"), s>>
    BY DEF Checkpoint
  <1> HIDE DEF s
  <1>4. Plain(s)
    BY <1>2, StateNames DEF Plain, StatementOK
  <1> QED
    BY <1>1, <1>3, <1>4, TwoPlain

LEMMA AnswerPlain ==
  ASSUME NEW r, NEW n
  PROVE  PlainList(Submit(r, n)) /\ PlainList(PublishAnswer(r, n)) /\ PlainList(BeginReceipt(r, n))
  <1>1. Plain(Lock(Conversation(r, n), {"present"})) /\ Plain(Lock(Run(r, n), Active))
    BY LockPlain, StateNames
  <1>2. /\ Plain(Change(Run(r, n), Active, "completed"))
        /\ Plain(Change(Conversation(r, n), {"present"}, "same"))
    BY ChangePlain, StateNames
  <1>3. PlainList(Insert(Run(r, n), "active"))
    <2>1. Run(r, n).table \notin Counted3
      BY DEF Row, Run, Counted3
    <2> QED
      BY <2>1, InsertPlain, StateNames
  <1>4. PlainList(Submit(r, n))
    BY <1>1, <1>3, OnePlain, ConcatPlain DEF Submit
  <1>5. PlainList(PublishAnswer(r, n)) /\ PlainList(BeginReceipt(r, n))
    BY <1>1, <1>2, OnePlain, ThreePlain DEF PublishAnswer, BeginReceipt
  <1> QED
    BY <1>4, <1>5

LEMMA StopPlain == ASSUME NEW row PROVE PlainList(Stop(row))
  BY ChangePlain, OnePlain, StateNames DEF Stop

LEMMA ExpirePlain ==
  ASSUME NEW S, IsFiniteSet(S), NEW rows \in SetToAllKPermutations(S)
  PROVE  PlainList(Expire(rows))
  <1> DEFINE Made(row) == ChangeUnless(row, Active, {}, "stopped")
             p == [i \in DOMAIN rows |-> Made(rows[i])]
  <1>1. PICK T \in SUBSET S : rows \in SetToSeqs(T)
    BY DEF SetToAllKPermutations
  <1>2. IsFiniteSet(T)
    BY FS_Subset
  <1>3. Cardinality(T) \in Nat /\ DOMAIN rows = 1..Cardinality(T)
    BY <1>1, <1>2, FS_CardinalityType DEF SetToSeqs
  <1>4. \A row : Plain(Made(row))
    BY ChangeUnlessPlain, StateNames
  <1>5. Expire(rows) = p
    BY DEF Expire
  <1> HIDE DEF Made
  <1>6. Listed(p) /\ \A s \in Range(p) : Plain(s)
    <2>1. Listed(p)
      BY <1>3, FunctionListed
    <2> QED
      BY <2>1, <1>4 DEF Range
  <1> QED
    BY <1>5, <1>6 DEF PlainList

(* The quotas by the table they count.                                       *)
LEMMA QuotaFacts ==
  ASSUME NEW q \in Quotas
  PROVE  /\ q.table = "repositories" =>
              q.among = Repositories /\ q.limit = RepositoryLimit /\ q.row = User
         /\ q.table = "import_jobs" =>
              q.among = Repositories /\ q.limit = ImportLimit /\ q.row = User
         /\ q.table = "conversations" =>
              \E r \in Repositories :
                q.among = {r} /\ q.limit = ConversationLimit /\ q.row = Repository(r)
         /\ q.table \in Counted3 /\ q.limit \in Nat
  BY LockBounds DEF Quotas, Counted3

(* A count is none of the statements about rows.                             *)
LEMMA CountFacts ==
  ASSUME NEW n, NEW rs, NEW limit
  PROVE  /\ StatementOK(Count(n, rs, limit)) /\ Count(n, rs, limit).do # "row"
         /\ \A q : ~Adds(q, Count(n, rs, limit))
  <1>1. Count(n, rs, limit).do = "count"
    BY DEF Count
  <1> QED
    BY <1>1 DEF StatementOK, Adds

LEMMA LockFacts ==
  ASSUME NEW row
  PROVE  /\ StatementOK(Lock(row, {"present"})) /\ Lock(row, {"present"}).sets = "same"
         /\ \A q : ~Adds(q, Lock(row, {"present"}))
  <1> DEFINE s == Lock(row, {"present"})
  <1>1. s.do = "row" /\ s.needs = {"present"} /\ s.sets = "same"
    BY DEF Lock, Statement
  <1> HIDE DEF s
  <1>2. s.needs # {"absent"}
    BY <1>1
  <1>3. StatementOK(s) /\ s.sets = "same" /\ \A q : ~Adds(q, s)
    BY <1>1, <1>2 DEF StatementOK, Adds
  <1> QED
    BY <1>3 DEF s

LEMMA QuotaLists ==
  ASSUME NEW a, NEW b
  PROVE  Listed(<<a, b>>) /\ Len(<<a, b>>) = 2 /\ <<a, b>>[1] = a /\ <<a, b>>[2] = b
  <1>1. <<a, b>> \in Seq({a, b}) /\ DOMAIN <<a, b>> = 1..2 /\ <<a, b>>[1] = a /\ <<a, b>>[2] = b
        /\ Len(<<a, b>>) = 2
    OBVIOUS
  <1>2. Range(<<a, b>>) = {a, b}
    BY <1>1 DEF Range
  <1> QED
    BY <1>1, <1>2 DEF Listed

(* Creating a repository takes the user's row, counts, and inserts.            *)
LEMMA CreateProgrammed == ASSUME NEW r, NEW n PROVE Programmed(CreateRepository(r, n))
  <1> DEFINE l == Lock(User, {"present"})
             cj == Count("import_jobs", Repositories, ImportLimit)
             cr == Count("repositories", Repositories, RepositoryLimit)
             p2 == <<l, cj>>
             p3 == More(p2, cr)
  <1>1. PICK ir : /\ Insert(Repository(r), "present") = <<ir>> /\ StatementOK(ir) /\ ir.do = "row"
                  /\ ir.row = Repository(r) /\ ir.needs = {"absent"} /\ ir.sets = "present"
    BY InsertFacts, StateNames
  <1>2. PICK ij : /\ Insert(Job(r, n), "active") = <<ij>> /\ StatementOK(ij) /\ ij.do = "row"
                  /\ ij.row = Job(r, n) /\ ij.needs = {"absent"} /\ ij.sets = "active"
    BY InsertFacts, StateNames
  <1> DEFINE p4 == More(p3, ir)
             p == More(p4, ij)
  <1>3. CreateRepository(r, n) = p
    BY <1>1, <1>2 DEF CreateRepository, Quota, More
  <1>4. Listed(p2) /\ Len(p2) = 2 /\ p2[1] = l /\ p2[2] = cj
    BY QuotaLists
  <1> HIDE DEF p2, l, cj, cr
  <1>6. Listed(p3) /\ Len(p3) = 3 /\ p3[1] = l /\ p3[2] = cj /\ p3[3] = cr
    <2>0. Listed(p2)
      BY <1>4
    <2>1. Listed(p3) /\ Len(p3) = Len(p2) + 1
      BY <2>0, MoreListed
    <2>2. p3[Len(p2) + 1] = cr
      BY <2>0, MoreListed
    <2>3. \A i \in 1..Len(p2) : p3[i] = p2[i]
      BY ONLY <2>0, MoreListed
    <2> QED
      BY <2>1, <2>2, <2>3, <1>4
  <1> HIDE DEF p3
  <1>7. Listed(p4) /\ Len(p4) = 4 /\ p4[1] = l /\ p4[2] = cj /\ p4[3] = cr /\ p4[4] = ir
    <2>0. Listed(p3)
      BY <1>6
    <2>1. Listed(p4) /\ Len(p4) = Len(p3) + 1
      BY <2>0, MoreListed
    <2>2. p4[Len(p3) + 1] = ir
      BY <2>0, MoreListed
    <2>3. \A i \in 1..Len(p3) : p4[i] = p3[i]
      BY ONLY <2>0, MoreListed
    <2> QED
      BY <2>1, <2>2, <2>3, <1>6
  <1> HIDE DEF p4
  <1>8. /\ Listed(p) /\ Len(p) = 5
        /\ p[1] = l /\ p[2] = cj /\ p[3] = cr /\ p[4] = ir /\ p[5] = ij
    <2>0. Listed(p4)
      BY <1>7
    <2>1. Listed(p) /\ Len(p) = Len(p4) + 1
      BY <2>0, MoreListed
    <2>2. p[Len(p4) + 1] = ij
      BY <2>0, MoreListed
    <2>3. \A i \in 1..Len(p4) : p[i] = p4[i]
      BY ONLY <2>0, MoreListed
    <2> QED
      BY <2>1, <2>2, <2>3, <1>7
  <1> HIDE DEF p
  <1>9. DOMAIN p = 1..5 /\ Range(p) = {l, cj, cr, ir, ij}
    <2>1. DOMAIN p = 1..5 /\ Range(p) = {p[i] : i \in 1..5}
      BY <1>8, ListedFacts
    <2>2. 1..5 = {1, 2, 3, 4, 5}
      OBVIOUS
    <2> QED
      BY <1>8, <2>1, <2>2
  <1>10. /\ StatementOK(l) /\ StatementOK(cj) /\ StatementOK(cr) /\ l.sets = "same"
         /\ cj.do # "row" /\ cr.do # "row" /\ \A q : ~Adds(q, l) /\ ~Adds(q, cj) /\ ~Adds(q, cr)
    BY LockFacts, CountFacts DEF l, cj, cr
  <1>11. Shaped(p)
    BY <1>1, <1>2, <1>8, <1>9, <1>10 DEF Shaped
  <1>12. ASSUME NEW q \in Quotas PROVE WillCount(p, FALSE, q) /\ OneAdds(p, q)
    <2>1. Repository(r).table = "repositories" /\ Job(r, n).table = "import_jobs"
      BY DEF Repository, Job, Row
    <2>2. \A i \in DOMAIN p : Adds(q, p[i]) => i \in {4, 5}
      BY <1>8, <1>9, <1>10
    <2>3. Adds(q, ir) => q.table = "repositories" /\ Counts(q, cr) /\ Locks(q, l)
      BY <1>1, <2>1, QuotaFacts DEF Adds, Counts, Locks, l, cr
    <2>4. Adds(q, ij) => q.table = "import_jobs" /\ Counts(q, cj) /\ Locks(q, l)
      BY <1>2, <2>1, QuotaFacts DEF Adds, Counts, Locks, l, cj
    <2>5. ASSUME NEW i \in DOMAIN p, Adds(q, p[i])
          PROVE  \E j \in 1..(i - 1) : Counts(q, p[j]) /\ \E k \in 1..(j - 1) : Locks(q, p[k])
      <3>1. CASE i = 4
        <4>1. Counts(q, p[3]) /\ Locks(q, p[1])
          BY <3>1, <2>5, <2>3, <1>8
        <4> QED
          BY <4>1, <3>1
      <3>2. CASE i = 5
        <4>1. Counts(q, p[2]) /\ Locks(q, p[1])
          BY <3>2, <2>5, <2>4, <1>8
        <4> QED
          BY <4>1, <3>2
      <3> QED
        BY <2>2, <2>5, <3>1, <3>2
    <2>6. WillCount(p, FALSE, q)
      BY <2>5 DEF WillCount
    <2>7. OneAdds(p, q)
      <3>1. ~(Adds(q, ir) /\ Adds(q, ij))
        BY <2>3, <2>4
      <3> QED
        BY <2>2, <3>1, <1>8 DEF OneAdds
    <2> QED
      BY <2>6, <2>7
  <1>13. \A s \in Range(p) : s.do = "row" => s.sets # "absent"
    BY <1>1, <1>2, <1>9, <1>10
  <1> QED
    BY <1>3, <1>11, <1>12, <1>13 DEF Programmed

(* Retrying an import takes the user's row, counts, and inserts.               *)
LEMMA RetryProgrammed ==
  ASSUME NEW r, NEW old, NEW n PROVE Programmed(RetryImport(r, old, n))
  <1> DEFINE l == Lock(User, {"present"})
             cj == Count("import_jobs", Repositories, ImportLimit)
             ch == Change(Job(r, old), {"stopped"}, "replaced")
             p2 == <<l, cj>>
             p3 == More(p2, ch)
  <1>2. PICK ij : /\ Insert(Job(r, n), "active") = <<ij>> /\ StatementOK(ij) /\ ij.do = "row"
                  /\ ij.row = Job(r, n) /\ ij.needs = {"absent"} /\ ij.sets = "active"
    BY InsertFacts, StateNames
  <1> DEFINE p == More(p3, ij)
  <1>3. RetryImport(r, old, n) = p
    BY <1>2 DEF RetryImport, Quota, More
  <1>4. Listed(p2) /\ Len(p2) = 2 /\ p2[1] = l /\ p2[2] = cj
    BY QuotaLists
  <1> HIDE DEF p2, l, cj, ch
  <1>6. Listed(p3) /\ Len(p3) = 3 /\ p3[1] = l /\ p3[2] = cj /\ p3[3] = ch
    <2>0. Listed(p2)
      BY <1>4
    <2>1. Listed(p3) /\ Len(p3) = Len(p2) + 1
      BY <2>0, MoreListed
    <2>2. p3[Len(p2) + 1] = ch
      BY <2>0, MoreListed
    <2>3. \A i \in 1..Len(p2) : p3[i] = p2[i]
      BY ONLY <2>0, MoreListed
    <2> QED
      BY <2>1, <2>2, <2>3, <1>4
  <1> HIDE DEF p3
  <1>7. Listed(p) /\ Len(p) = 4 /\ p[1] = l /\ p[2] = cj /\ p[3] = ch /\ p[4] = ij
    <2>0. Listed(p3)
      BY <1>6
    <2>1. Listed(p) /\ Len(p) = Len(p3) + 1
      BY <2>0, MoreListed
    <2>2. p[Len(p3) + 1] = ij
      BY <2>0, MoreListed
    <2>3. \A i \in 1..Len(p3) : p[i] = p3[i]
      BY ONLY <2>0, MoreListed
    <2> QED
      BY <2>1, <2>2, <2>3, <1>6
  <1> HIDE DEF p
  <1>8. DOMAIN p = 1..4 /\ Range(p) = {l, cj, ch, ij}
    <2>1. DOMAIN p = 1..4 /\ Range(p) = {p[i] : i \in 1..4}
      BY <1>7, ListedFacts
    <2>2. 1..4 = {1, 2, 3, 4}
      OBVIOUS
    <2> QED
      BY <1>7, <2>1, <2>2
  <1>9. /\ StatementOK(l) /\ StatementOK(cj) /\ l.sets = "same" /\ cj.do # "row"
        /\ \A q : ~Adds(q, l) /\ ~Adds(q, cj)
    BY LockFacts, CountFacts DEF l, cj
  <1>10. StatementOK(ch) /\ ch.sets # "absent" /\ \A q : ~Adds(q, ch)
    <2>1. ch.needs = {"stopped"}
      BY DEF Change, Statement, ch
    <2>2. Plain(ch) /\ ch.sets # "absent"
      BY ChangePlain, StateNames DEF ch
    <2> QED
      BY <2>1, <2>2 DEF Plain, Adds
  <1>11. Shaped(p)
    BY <1>2, <1>7, <1>8, <1>9, <1>10 DEF Shaped
  <1>12. ASSUME NEW q \in Quotas PROVE WillCount(p, FALSE, q) /\ OneAdds(p, q)
    <2>1. Job(r, n).table = "import_jobs"
      BY DEF Job, Row
    <2>2. \A i \in DOMAIN p : Adds(q, p[i]) => i = 4
      BY <1>7, <1>8, <1>9, <1>10
    <2>3. Adds(q, ij) => Counts(q, cj) /\ Locks(q, l)
      BY <1>2, <2>1, QuotaFacts DEF Adds, Counts, Locks, l, cj
    <2>4. ASSUME NEW i \in DOMAIN p, Adds(q, p[i])
          PROVE  \E j \in 1..(i - 1) : Counts(q, p[j]) /\ \E k \in 1..(j - 1) : Locks(q, p[k])
      <3>1. i = 4 /\ Counts(q, p[2]) /\ Locks(q, p[1])
        BY <2>2, <2>3, <2>4, <1>7
      <3> QED
        BY <3>1
    <2> QED
      BY <2>2, <2>4 DEF WillCount, OneAdds
  <1>13. \A s \in Range(p) : s.do = "row" => s.sets # "absent"
    BY <1>2, <1>8, <1>9, <1>10
  <1> QED
    BY <1>3, <1>11, <1>12, <1>13 DEF Programmed

(* Creating a conversation takes the repository's row, counts, and inserts.    *)
LEMMA ConversationProgrammed ==
  ASSUME NEW r \in Repositories, NEW n PROVE Programmed(CreateConversation(r, n))
  <1> DEFINE l == Lock(Repository(r), {"present"})
             cc == Count("conversations", {r}, ConversationLimit)
             p2 == <<l, cc>>
  <1>2. PICK ic : /\ Insert(Conversation(r, n), "present") = <<ic>> /\ StatementOK(ic)
                  /\ ic.do = "row" /\ ic.row = Conversation(r, n) /\ ic.needs = {"absent"}
                  /\ ic.sets = "present"
    BY InsertFacts, StateNames
  <1> DEFINE p == More(p2, ic)
  <1>3. CreateConversation(r, n) = p
    BY <1>2 DEF CreateConversation, More
  <1>4. Listed(p2) /\ Len(p2) = 2 /\ p2[1] = l /\ p2[2] = cc
    BY QuotaLists
  <1> HIDE DEF p2, l, cc
  <1>7. Listed(p) /\ Len(p) = 3 /\ p[1] = l /\ p[2] = cc /\ p[3] = ic
    <2>0. Listed(p2)
      BY <1>4
    <2>1. Listed(p) /\ Len(p) = Len(p2) + 1
      BY <2>0, MoreListed
    <2>2. p[Len(p2) + 1] = ic
      BY <2>0, MoreListed
    <2>3. \A i \in 1..Len(p2) : p[i] = p2[i]
      BY ONLY <2>0, MoreListed
    <2> QED
      BY <2>1, <2>2, <2>3, <1>4
  <1> HIDE DEF p
  <1>8. DOMAIN p = 1..3 /\ Range(p) = {l, cc, ic}
    <2>1. DOMAIN p = 1..3 /\ Range(p) = {p[i] : i \in 1..3}
      BY <1>7, ListedFacts
    <2>2. 1..3 = {1, 2, 3}
      OBVIOUS
    <2> QED
      BY <1>7, <2>1, <2>2
  <1>9. /\ StatementOK(l) /\ StatementOK(cc) /\ l.sets = "same" /\ cc.do # "row"
        /\ \A q : ~Adds(q, l) /\ ~Adds(q, cc)
    BY LockFacts, CountFacts DEF l, cc
  <1>11. Shaped(p)
    BY <1>2, <1>7, <1>8, <1>9 DEF Shaped
  <1>12. ASSUME NEW q \in Quotas PROVE WillCount(p, FALSE, q) /\ OneAdds(p, q)
    <2>1. Conversation(r, n).table = "conversations" /\ Conversation(r, n).repository = r
      BY DEF Conversation, Row
    <2>2. \A i \in DOMAIN p : Adds(q, p[i]) => i = 3
      BY <1>7, <1>8, <1>9
    <2>3. Adds(q, ic) => Counts(q, cc) /\ Locks(q, l)
      <3> SUFFICES ASSUME Adds(q, ic) PROVE Counts(q, cc) /\ Locks(q, l)
        OBVIOUS
      <3>1. q.table = "conversations" /\ r \in q.among
        BY <1>2, <2>1 DEF Adds
      <3>2. PICK x \in Repositories : q.among = {x} /\ q.limit = ConversationLimit /\ q.row = Repository(x)
        BY <3>1, QuotaFacts
      <3>3. x = r
        BY <3>1, <3>2
      <3> QED
        BY <3>1, <3>2, <3>3 DEF Counts, Locks, l, cc
    <2>4. ASSUME NEW i \in DOMAIN p, Adds(q, p[i])
          PROVE  \E j \in 1..(i - 1) : Counts(q, p[j]) /\ \E k \in 1..(j - 1) : Locks(q, p[k])
      <3>1. i = 3 /\ Counts(q, p[2]) /\ Locks(q, p[1])
        BY <2>2, <2>3, <2>4, <1>7
      <3> QED
        BY <3>1
    <2> QED
      BY <2>2, <2>4 DEF WillCount, OneAdds
  <1>13. \A s \in Range(p) : s.do = "row" => s.sets # "absent"
    BY <1>2, <1>8, <1>9
  <1> QED
    BY <1>3, <1>11, <1>12, <1>13 DEF Programmed

-----------------------------------------------------------------------------
(* What a deletion deletes next.                                             *)

(* At most two lists one after another.                                      *)
LEMMA FlattenTwo ==
  ASSUME NEW S, NEW seqs \in Seq(Seq(S)), Len(seqs) <= 2
  PROVE  FlattenSeq(seqs) \in Seq(S)
  <1> DEFINE n == Len(seqs)
             P(f) == f = [i \in 1..n |-> IF i = 1 THEN seqs[i] ELSE f[i - 1] \o seqs[i]]
             flat == CHOOSE f : P(f)
             g == [i \in 1..n |-> IF i = 1 THEN seqs[1] ELSE seqs[1] \o seqs[2]]
  <1>1. n \in Nat /\ DOMAIN seqs = 1..n /\ \A i \in 1..n : seqs[i] \in Seq(S)
    BY LenProperties, ElementOfSeq
  <1>2. CASE n = 0
    <2>1. FlattenSeq(seqs) = seqs
      BY <1>2 DEF FlattenSeq
    <2>2. seqs = << >>
      BY <1>2, EmptySeq
    <2> QED
      BY <2>1, <2>2, EmptySeq
  <1>3. CASE n # 0
    <2>1. FlattenSeq(seqs) = flat[n]
      BY <1>3 DEF FlattenSeq
    <2>2. \A i \in 1..n : i = 1 \/ i = 2
      BY <1>1
    <2>3. P(g)
      <3>1. ASSUME NEW i \in 1..n
            PROVE  (IF i = 1 THEN seqs[i] ELSE g[i - 1] \o seqs[i])
                   = (IF i = 1 THEN seqs[1] ELSE seqs[1] \o seqs[2])
        <4>1. CASE i = 1
          BY <4>1
        <4>2. CASE i = 2
          <5>1. 1 \in 1..n /\ g[1] = seqs[1]
            BY <4>2, <1>1
          <5> HIDE DEF g
          <5>2. i # 1 /\ g[i - 1] = seqs[1] /\ seqs[i] = seqs[2]
            BY <5>1, <4>2
          <5> QED
            BY <5>2, Zenon
        <4> QED
          BY <2>2, <4>1, <4>2
      <3> QED
        BY <3>1
    <2> HIDE DEF g
    <2>4. P(flat)
      BY <2>3, Zenon
    <2> HIDE DEF flat
    <2>5. \A i \in 1..n : flat[i] = IF i = 1 THEN seqs[i] ELSE flat[i - 1] \o seqs[i]
      BY <2>4
    <2>6. 1 \in 1..n /\ flat[1] = seqs[1]
      BY <1>1, <1>3, <2>5
    <2>7. flat[n] \in Seq(S)
      <3>1. CASE n = 1
        BY <3>1, <2>6, <1>1
      <3>2. CASE n = 2
        <4>1. flat[2] = flat[1] \o seqs[2]
          <5>1. 2 \in 1..n
            BY <3>2
          <5>2. flat[2] = IF 2 = 1 THEN seqs[2] ELSE flat[2 - 1] \o seqs[2]
            BY <5>1, <2>5
          <5> QED
            BY <5>2
        <4>2. seqs[1] \in Seq(S) /\ seqs[2] \in Seq(S)
          BY <1>1, <3>2
        <4>3. seqs[1] \o seqs[2] \in Seq(S)
          BY <4>2, ConcatProperties
        <4> QED
          BY <4>1, <4>3, <2>6, <3>2
      <3> QED
        BY <1>1, <1>3, <3>1, <3>2
    <2> QED
      BY <2>1, <2>7
  <1> QED
    BY <1>2, <1>3

LEMMA Referring ==
  ASSUME NEW name
  PROVE  ReferredFrom(name) \in Seq(Below) /\ Len(ReferredFrom(name)) <= 2
  <1>1. << >> \in Seq(Below) /\ Len(<< >>) = 0
    BY EmptySeq
  <1>2. \A a, b \in Below : <<a, b>> \in Seq(Below) /\ Len(<<a, b>>) = 2
    OBVIOUS
  <1>3. \A a \in Below : <<a>> \in Seq(Below) /\ Len(<<a>>) = 1
    OBVIOUS
  <1>4. {"import_jobs", "conversations", "repository_files", "repository_indexes",
         "code_chunks", "search_indexes", "answer_runs"} \subseteq Below
    BY DEF Below
  <1>5. \/ ReferredFrom(name) = << >>
        \/ \E a \in Below : ReferredFrom(name) = <<a>>
        \/ \E a, b \in Below : ReferredFrom(name) = <<a, b>>
    BY <1>4, Zenon DEF ReferredFrom
  <1>6. CASE ReferredFrom(name) = << >>
    BY <1>1, <1>6
  <1>7. CASE \E a \in Below : ReferredFrom(name) = <<a>>
    BY <1>3, <1>7
  <1>8. CASE \E a, b \in Below : ReferredFrom(name) = <<a, b>>
    BY <1>2, <1>8
  <1> QED
    BY <1>5, <1>6, <1>7, <1>8

(* Every statement of a cascade is a deletion of a row that refers to the one deleted. *)
LEMMA CascadeDrops ==
  ASSUME NEW t, NEW row
  PROVE  /\ Listed(Cascade(t, row))
         /\ \A s \in Range(Cascade(t, row)) : \E name \in Below, n \in Numbers :
              LET x == Row(name, row.repository, n)
              IN s = Drop(x) /\ row \in Range(References(x))
  <1> DEFINE Refers(name, n) == row \in Range(References(Row(name, row.repository, n)))
             Dropped(name, n) == Drop(Row(name, row.repository, n))
             S == UNION {{Dropped(name, n) : n \in {m \in Numbers : Refers(name, m)}} : name \in Below}
             Child(name) == {n \in Numbers :
                               LET c == Row(name, row.repository, n)
                               IN row \in Range(References(c)) /\ View(t, c) # "absent"}
             ns(name) == SetToSeq(Child(name))
             D(name) == [i \in DOMAIN ns(name) |-> Drop(Row(name, row.repository, ns(name)[i]))]
             R == ReferredFrom(row.table)
             seqs == [i \in DOMAIN R |-> D(R[i])]
  <1>1. Cascade(t, row) = FlattenSeq(seqs)
    BY DEF Cascade
  <1>2. ASSUME NEW name \in Below PROVE D(name) \in Seq(S)
    <2>1. IsFiniteSet(Numbers)
      BY LockBounds, FS_Interval DEF Numbers
    <2>2. IsFiniteSet(Child(name)) /\ \A n \in Child(name) : n \in Numbers /\ Refers(name, n)
      BY <2>1, FS_Subset
    <2>3. D(name) = [i \in DOMAIN ns(name) |-> Dropped(name, ns(name)[i])]
      OBVIOUS
    <2>4. \A n \in Numbers : Refers(name, n) => Dropped(name, n) \in S
      OBVIOUS
    <2> HIDE DEF Child, Refers, Dropped, S, D
    <2>5. /\ Cardinality(Child(name)) \in Nat /\ DOMAIN ns(name) = 1..Cardinality(Child(name))
          /\ \A i \in DOMAIN ns(name) : ns(name)[i] \in Child(name)
      BY <2>2, SetListed, SetMembers
    <2> HIDE DEF ns
    <2>6. D(name) \in [1..Cardinality(Child(name)) -> S]
      BY <2>2, <2>3, <2>4, <2>5
    <2> QED
      BY <2>5, <2>6, SeqDef
  <1> HIDE DEF D, S
  <1>3. R \in Seq(Below) /\ Len(R) \in Nat /\ Len(R) <= 2 /\ DOMAIN R = 1..Len(R)
        /\ \A i \in 1..Len(R) : R[i] \in Below
    BY Referring, LenProperties, ElementOfSeq
  <1> HIDE DEF R
  <1>4. seqs \in [1..Len(R) -> Seq(S)]
    BY <1>2, <1>3
  <1>5. seqs \in Seq(Seq(S)) /\ Len(seqs) = Len(R)
    BY <1>3, <1>4, SeqDef, LenProperties
  <1> HIDE DEF seqs
  <1>6. FlattenSeq(seqs) \in Seq(S)
    BY <1>3, <1>5, FlattenTwo
  <1>7. Listed(Cascade(t, row)) /\ Range(Cascade(t, row)) \subseteq S
    <2>1. Cascade(t, row) \in Seq(S)
      BY <1>1, <1>6
    <2>2. Listed(Cascade(t, row))
      BY <2>1, SeqOfRange DEF Listed
    <2>3. Range(Cascade(t, row)) \subseteq S
      BY <2>1, LenProperties, ElementOfSeq DEF Range
    <2> QED
      BY <2>2, <2>3
  <1>8. ASSUME NEW s \in S
        PROVE  \E name \in Below, n \in Numbers : s = Dropped(name, n) /\ Refers(name, n)
    BY <1>8 DEF S
  <1> QED
    BY <1>7, <1>8

-----------------------------------------------------------------------------
(* One statement is done: what it deletes goes before what is left.            *)

(* Who counts before it inserts still does, unless it counts now.              *)
LEMMA CountLater ==
  ASSUME NEW p, Listed(p), p # << >>, NEW c, Listed(c), NEW q, NEW has \in BOOLEAN, NEW has2 \in BOOLEAN,
         \A s \in Range(c) : ~Adds(q, s),
         WillCount(p, has, q), has => has2, Locks(q, Head(p)) => has2,
         has => ~Counts(q, Head(p))
  PROVE  WillCount(c \o Tail(p), has2, q)
  <1> DEFINE r == c \o Tail(p)
  <1>1. /\ Head(p) = p[1] /\ Listed(Tail(p)) /\ Len(Tail(p)) = Len(p) - 1
        /\ \A i \in 1..Len(Tail(p)) : Tail(p)[i] = p[i + 1]
    BY TailListed
  <1>2. Len(p) \in Nat /\ DOMAIN p = 1..Len(p) /\ Len(c) \in Nat /\ DOMAIN c = 1..Len(c)
    BY ListedFacts
  <1>3. /\ Listed(r) /\ Len(r) = Len(c) + Len(p) - 1
        /\ \A i \in 1..Len(r) : r[i] = IF i <= Len(c) THEN c[i] ELSE Tail(p)[i - Len(c)]
    BY <1>1, <1>2, ConcatListed
  <1> HIDE DEF r
  <1>4. DOMAIN r = 1..Len(r)
    BY <1>3, ListedFacts
  <1>5. \A i \in 1..Len(c) : c[i] \in Range(c)
    BY <1>2 DEF Range
  <1>6. \A k \in 2..Len(p) : Len(c) + k - 1 \in 1..Len(r) /\ r[Len(c) + k - 1] = p[k]
    <2> SUFFICES ASSUME NEW k \in 2..Len(p)
                 PROVE  Len(c) + k - 1 \in 1..Len(r) /\ r[Len(c) + k - 1] = p[k]
      OBVIOUS
    <2>1. Len(c) + k - 1 \in 1..Len(r) /\ ~(Len(c) + k - 1 <= Len(c))
      BY <1>2, <1>3
    <2>2. r[Len(c) + k - 1] = Tail(p)[k - 1]
      <3>1. (Len(c) + k - 1) - Len(c) = k - 1
        BY <1>2
      <3> QED
        BY <2>1, <3>1, <1>3
    <2>3. k - 1 \in 1..Len(Tail(p)) /\ (k - 1) + 1 = k
      BY <1>1, <1>2
    <2> QED
      BY <2>1, <2>2, <2>3, <1>1
  <1>7. ASSUME NEW i \in DOMAIN r, Adds(q, r[i])
        PROVE  \E j \in 1..(i - 1) : Counts(q, r[j]) /\ (has2 \/ \E k \in 1..(j - 1) : Locks(q, r[k]))
    <2> DEFINE m == i - Len(c) + 1
    <2>1. i > Len(c)
      BY <1>2, <1>3, <1>4, <1>5, <1>7
    <2>2. m \in 2..Len(p) /\ Len(c) + m - 1 = i
      BY <2>1, <1>2, <1>3, <1>4
    <2>3. r[i] = p[m]
      BY <2>2, <1>6
    <2>4. PICK j \in 1..(m - 1) : Counts(q, p[j]) /\ (has \/ \E k \in 1..(j - 1) : Locks(q, p[k]))
      <3>1. m \in DOMAIN p
        BY <2>2, <1>2
      <3> HIDE DEF m
      <3> QED
        BY <3>1, <2>3, <1>7 DEF WillCount
    <2>5. j # 1
      <3> SUFFICES ASSUME j = 1 PROVE FALSE
        OBVIOUS
      <3>1. ~has
        BY <2>4, <1>1
      <3>2. \A k \in 1..(j - 1) : FALSE
        OBVIOUS
      <3> QED
        BY <2>4, <3>1, <3>2
    <2> DEFINE jj == Len(c) + j - 1
    <2>6. j \in 2..Len(p) /\ jj \in 1..(i - 1)
      BY <2>2, <2>4, <2>5, <1>2
    <2>7. Counts(q, r[jj])
      BY <2>4, <2>6, <1>6
    <2>8. has2 \/ \E k \in 1..(jj - 1) : Locks(q, r[k])
      <3>1. CASE has
        BY <3>1
      <3>2. CASE ~has
        <4>1. PICK k \in 1..(j - 1) : Locks(q, p[k])
          BY <2>4, <3>2
        <4>2. CASE k = 1
          BY <4>1, <4>2, <1>1
        <4>3. CASE k # 1
          <5>1. k \in 2..Len(p) /\ Len(c) + k - 1 \in 1..(jj - 1)
            BY <4>3, <2>6, <1>2
          <5>2. Locks(q, r[Len(c) + k - 1])
            BY <5>1, <4>1, <1>6
          <5> QED
            BY <5>1, <5>2
        <4> QED
          BY <4>2, <4>3
      <3> QED
        BY <3>1, <3>2
    <2> QED
      BY <2>6, <2>7, <2>8
  <1> QED
    BY <1>7 DEF WillCount, r

(* Who inserts one counted row inserts no more than one later.                 *)
LEMMA OneLater ==
  ASSUME NEW p, Listed(p), p # << >>, NEW c, Listed(c), NEW q,
         \A s \in Range(c) : ~Adds(q, s), OneAdds(p, q)
  PROVE  OneAdds(c \o Tail(p), q)
  <1> DEFINE r == c \o Tail(p)
  <1>1. /\ Listed(Tail(p)) /\ Len(Tail(p)) = Len(p) - 1
        /\ \A i \in 1..Len(Tail(p)) : Tail(p)[i] = p[i + 1]
    BY TailListed
  <1>2. Len(p) \in Nat /\ DOMAIN p = 1..Len(p) /\ Len(c) \in Nat /\ DOMAIN c = 1..Len(c)
    BY ListedFacts
  <1>3. /\ Listed(r) /\ Len(r) = Len(c) + Len(p) - 1
        /\ \A i \in 1..Len(r) : r[i] = IF i <= Len(c) THEN c[i] ELSE Tail(p)[i - Len(c)]
    BY <1>1, <1>2, ConcatListed
  <1> HIDE DEF r
  <1>4. DOMAIN r = 1..Len(r)
    BY <1>3, ListedFacts
  <1>5. \A i \in 1..Len(c) : c[i] \in Range(c)
    BY <1>2 DEF Range
  <1>6. ASSUME NEW i \in DOMAIN r, Adds(q, r[i])
        PROVE  i - Len(c) + 1 \in DOMAIN p /\ Adds(q, p[i - Len(c) + 1])
    <2>1. i > Len(c)
      BY <1>2, <1>3, <1>4, <1>5, <1>6
    <2>2. r[i] = Tail(p)[i - Len(c)]
      <3>1. i \in 1..Len(r) /\ ~(i <= Len(c))
        BY <2>1, <1>2, <1>4
      <3> QED
        BY <3>1, <1>3
    <2>3. i - Len(c) \in 1..Len(Tail(p))
      BY <2>1, <1>1, <1>2, <1>3, <1>4
    <2>4. Tail(p)[i - Len(c)] = p[i - Len(c) + 1]
      BY <2>3, <1>1
    <2>5. i - Len(c) + 1 \in DOMAIN p
      BY <2>3, <1>1, <1>2
    <2> QED
      BY <2>2, <2>4, <2>5, <1>6
  <1>7. ASSUME NEW i \in DOMAIN r, NEW j \in DOMAIN r, Adds(q, r[i]), Adds(q, r[j])
        PROVE  i = j
    <2>1. i - Len(c) + 1 = j - Len(c) + 1
      BY <1>6, <1>7 DEF OneAdds
    <2> QED
      BY <2>1, <1>2, <1>4
  <1> QED
    BY <1>7 DEF OneAdds, r

(* What is left to do is among what was, or follows from a deletion.           *)
LEMMA Later ==
  ASSUME NEW p, Shaped(p), p # << >>, NEW c, Shaped(c)
  PROVE  Shaped(c \o Tail(p)) /\ Range(c \o Tail(p)) \subseteq Range(c) \cup Range(p)
  BY TailListed, ConcatListed DEF Shaped

LEMMA TailAlone == ASSUME NEW p, Listed(p), p # << >> PROVE Tail(p) = << >> \o Tail(p)
  BY TailListed, ConcatEmptySeq DEF Listed

-----------------------------------------------------------------------------
(* Steps.                                                                    *)

(* What a step leaves alone of a transaction stays as it was guarded.          *)
LEMMA Unmoved ==
  ASSUME NEW u \in Slots, NEW q \in Quotas, Room(u, q) \/ Waiting(u, q),
         UNCHANGED table, held'[u] = held[u], wrote'[u] = wrote[u], todo'[u] = todo[u]
  PROVE  Room(u, q)' \/ Waiting(u, q)'
  <1>1. Added(u, q)' = Added(u, q) /\ Planned(u, q)' = Planned(u, q)
    BY DEF Added, Planned
  <1>2. Of(q, DOMAIN table)' = Of(q, DOMAIN table)
    OBVIOUS
  <1>3. CASE Room(u, q)
    BY <1>1, <1>2, <1>3 DEF Room
  <1>4. CASE Waiting(u, q)
    <2>1. Keeps(u) => Keeps(u)'
      BY DEF Keeps
    <2> QED
      BY <1>1, <1>4, <2>1 DEF Waiting
  <1> QED
    BY <1>3, <1>4

(* A transaction ends; what it wrote may be in the table.                     *)
LEMMA Ended ==
  ASSUME Invariant, NEW t \in Slots, End(t),
         IsFiniteSet(DOMAIN table'), \A x \in DOMAIN table' : table'[x] \in Existing
  PROVE  /\ Typed' /\ Exclusive' /\ DropsLocked' /\ \A q \in Quotas : Waiting(t, q)'
         /\ \A u \in Slots : u # t =>
              held'[u] = held[u] /\ wrote'[u] = wrote[u] /\ todo'[u] = todo[u] /\ kind'[u] = kind[u]
  <1>1. /\ kind' = [u \in Slots |-> IF u = t THEN "none" ELSE kind[u]]
        /\ todo' = [u \in Slots |-> IF u = t THEN << >> ELSE todo[u]]
        /\ held' = [u \in Slots |-> IF u = t THEN {} ELSE held[u]]
        /\ wrote' = [u \in Slots |-> IF u = t THEN << >> ELSE wrote[u]]
    BY DEF End, Invariant, Typed
  <1>2. \A u \in Slots : u # t =>
          held'[u] = held[u] /\ wrote'[u] = wrote[u] /\ todo'[u] = todo[u] /\ kind'[u] = kind[u]
    BY <1>1
  <1>3. held'[t] = {} /\ wrote'[t] = << >> /\ todo'[t] = << >> /\ kind'[t] = "none"
    BY <1>1
  <1>4. /\ DOMAIN << >> = {} /\ Range(<< >>) = {} /\ IsFiniteSet({}) /\ Shaped(<< >>)
    BY EmptyListed, FS_EmptySet DEF Shaped
  <1>5. Typed'
    <2>2. ASSUME NEW u \in Slots
          PROVE  /\ Shaped(todo'[u])
                 /\ IsFiniteSet(DOMAIN wrote'[u]) /\ \A x \in DOMAIN wrote'[u] : wrote'[u][x] \in States
                 /\ Idle(u)' => todo'[u] = << >> /\ held'[u] = {} /\ DOMAIN wrote'[u] = {}
      <3>1. CASE u = t
        BY <1>3, <1>4, <3>1
      <3>2. CASE u # t
        BY <1>2, <3>2 DEF Invariant, Typed, Idle
      <3> QED
        BY <3>1, <3>2
    <2>3. /\ kind' = [u \in Slots |-> kind'[u]] /\ todo' = [u \in Slots |-> todo'[u]]
          /\ held' = [u \in Slots |-> held'[u]] /\ wrote' = [u \in Slots |-> wrote'[u]]
      BY <1>1
    <2> QED
      BY <2>2, <2>3 DEF Typed
  <1>6. Exclusive'
    <2> SUFFICES ASSUME NEW u \in Slots, NEW v \in Slots, u # v, NEW l \in held'[u], NEW h \in held'[v],
                        l.row = h.row
                 PROVE  ~Conflict(l.mode, h.mode)
      BY DEF Exclusive
    <2>1. u # t /\ v # t
      BY <1>3
    <2> QED
      BY <2>1, <1>2 DEF Invariant, Exclusive
  <1>7. DropsLocked'
    <2> SUFFICES ASSUME NEW u \in Slots, NEW x \in DOMAIN wrote'[u], wrote'[u][x] = "absent"
                 PROVE  Hold(x, "update") \in held'[u]
      BY DEF DropsLocked
    <2>1. u # t
      BY <1>3, <1>4
    <2> QED
      BY <2>1, <1>2 DEF Invariant, DropsLocked
  <1>8. ASSUME NEW q \in Quotas PROVE Waiting(t, q)'
    <2>1. Added(t, q)' = {} /\ Planned(t, q)' = {}
      BY <1>3, <1>4 DEF Added, Planned, Of
    <2>2. WillCount(todo'[t], (Turn(q) \in held[t])', q) /\ OneAdds(todo'[t], q)
      BY <1>3, <1>4 DEF WillCount, OneAdds
    <2> QED
      BY <2>1, <2>2 DEF Waiting
  <1> QED
    BY <1>2, <1>5, <1>6, <1>7, <1>8

(* Nothing of a transaction that is rolled back is left.                      *)
LEMMA EndStep ==
  ASSUME Invariant, NEW t \in Slots, End(t), UNCHANGED table
  PROVE  Invariant'
  <1>1. IsFiniteSet(DOMAIN table') /\ \A x \in DOMAIN table' : table'[x] \in Existing
    BY DEF Invariant, Typed
  <1>2. /\ Typed' /\ Exclusive' /\ DropsLocked' /\ \A q \in Quotas : Waiting(t, q)'
        /\ \A u \in Slots : u # t =>
             held'[u] = held[u] /\ wrote'[u] = wrote[u] /\ todo'[u] = todo[u] /\ kind'[u] = kind[u]
    BY <1>1, Ended
  <1>3. Guarded'
    <2> SUFFICES ASSUME NEW u \in Slots, NEW q \in Quotas PROVE Room(u, q)' \/ Waiting(u, q)'
      BY DEF Guarded
    <2>1. CASE u = t
      BY <1>2, <2>1
    <2>2. CASE u # t
      BY <1>2, <2>2, Unmoved DEF Invariant, Guarded
    <2> QED
      BY <2>1, <2>2
  <1>4. Within'
    BY DEF Invariant, Within
  <1> QED
    BY <1>2, <1>3, <1>4 DEF Invariant

(* A transaction begins with its operation's statements.                      *)
LEMMA StartStep ==
  ASSUME Invariant, NEW t \in Slots, Idle(t), NEW name, name # "none", NEW p, Programmed(p),
         Start(t, name, p)
  PROVE  Invariant'
  <1>1. /\ kind' = [u \in Slots |-> IF u = t THEN name ELSE kind[u]]
        /\ todo' = [u \in Slots |-> IF u = t THEN p ELSE todo[u]]
        /\ held' = held /\ wrote' = wrote /\ table' = table
    BY DEF Start, Invariant, Typed
  <1>2. \A u \in Slots : u # t =>
          held'[u] = held[u] /\ wrote'[u] = wrote[u] /\ todo'[u] = todo[u] /\ kind'[u] = kind[u]
    BY <1>1
  <1>3. held'[t] = {} /\ DOMAIN wrote'[t] = {} /\ todo'[t] = p /\ kind'[t] = name
    BY <1>1 DEF Invariant, Typed
  <1>5. Typed'
    <2>1. IsFiniteSet(DOMAIN table') /\ \A x \in DOMAIN table' : table'[x] \in Existing
      BY <1>1 DEF Invariant, Typed
    <2>2. ASSUME NEW u \in Slots
          PROVE  /\ Shaped(todo'[u])
                 /\ IsFiniteSet(DOMAIN wrote'[u]) /\ \A x \in DOMAIN wrote'[u] : wrote'[u][x] \in States
                 /\ Idle(u)' => todo'[u] = << >> /\ held'[u] = {} /\ DOMAIN wrote'[u] = {}
      <3>1. CASE u = t
        <4>1. ~Idle(t)'
          BY <1>3 DEF Idle
        <4>2. IsFiniteSet(DOMAIN wrote'[t]) /\ \A x \in DOMAIN wrote'[t] : wrote'[t][x] \in States
          BY <1>3, FS_EmptySet
        <4> QED
          BY <1>3, <3>1, <4>1, <4>2 DEF Programmed
      <3>2. CASE u # t
        BY <1>2, <3>2 DEF Invariant, Typed, Idle
      <3> QED
        BY <3>1, <3>2
    <2>3. /\ kind' = [u \in Slots |-> kind'[u]] /\ todo' = [u \in Slots |-> todo'[u]]
          /\ held' = [u \in Slots |-> held'[u]] /\ wrote' = [u \in Slots |-> wrote'[u]]
      BY <1>1 DEF Invariant, Typed
    <2> QED
      BY <2>1, <2>2, <2>3 DEF Typed
  <1>6. Exclusive' /\ DropsLocked'
    BY <1>1 DEF Invariant, Exclusive, DropsLocked
  <1>8. Guarded'
    <2> SUFFICES ASSUME NEW u \in Slots, NEW q \in Quotas PROVE Room(u, q)' \/ Waiting(u, q)'
      BY DEF Guarded
    <2>1. CASE u = t
      <3>1. Added(t, q)' = {}
        BY <1>3 DEF Added, Of
      <3>2. ~(Turn(q) \in held[t])'
        BY <1>3
      <3>3. WillCount(todo'[t], (Turn(q) \in held[t])', q) /\ OneAdds(todo'[t], q)
        <4>1. WillCount(p, FALSE, q) /\ OneAdds(p, q)
          BY DEF Programmed
        <4> QED
          BY <1>3, <3>2, <4>1 DEF WillCount
      <3>4. Planned(t, q)' # {} => Keeps(t)'
        <4>1. Planned(t, q)' # {} => \E s \in Range(p) : Adds(q, s)
          BY <1>3 DEF Planned
        <4>2. (\E s \in Range(p) : Adds(q, s)) => \A s \in Range(p) : s.do = "row" => s.sets # "absent"
          BY DEF Programmed
        <4> QED
          BY <1>3, <4>1, <4>2 DEF Keeps
      <3> QED
        BY <2>1, <3>1, <3>3, <3>4 DEF Waiting
    <2>2. CASE u # t
      BY <1>1, <1>2, <2>2, Unmoved DEF Invariant, Guarded
    <2> QED
      BY <2>1, <2>2
  <1>9. Within'
    BY <1>1 DEF Invariant, Within
  <1> QED
    BY <1>5, <1>6, <1>8, <1>9 DEF Invariant

(* The quotas of a transaction whose head statement is done.                  *)
LEMMA PlannedLater ==
  ASSUME NEW q, NEW p, Listed(p), p # << >>, NEW c, Listed(c), \A s \in Range(c) : ~Adds(q, s)
  PROVE  {s.row : s \in {x \in Range(c \o Tail(p)) : Adds(q, x)}}
           \subseteq {s.row : s \in {x \in Range(p) : Adds(q, x)}}
  <1>1. Range(c \o Tail(p)) \subseteq Range(c) \cup Range(p)
    BY TailListed, ConcatListed
  <1> QED
    BY <1>1

(* Counted rows are finitely many.                                           *)
LEMMA CountedFinite ==
  ASSUME Typed, NEW t \in Slots, NEW q
  PROVE  IsFiniteSet(Of(q, DOMAIN table) \cup Added(t, q) \cup Planned(t, q))
  <1>1. IsFiniteSet(Of(q, DOMAIN table)) /\ IsFiniteSet(Added(t, q))
    <2>1. IsFiniteSet(DOMAIN table) /\ IsFiniteSet(DOMAIN wrote[t])
      BY DEF Typed
    <2>2. Of(q, DOMAIN table) \subseteq DOMAIN table /\ Added(t, q) \subseteq DOMAIN wrote[t]
      BY DEF Of, Added
    <2> QED
      BY <2>1, <2>2, FS_Subset
  <1>2. IsFiniteSet(Planned(t, q))
    <2> DEFINE A == {x \in Range(todo[t]) : Adds(q, x)}
               f == [s \in A |-> s.row]
    <2>1. IsFiniteSet(A)
      <3>1. IsFiniteSet(Range(todo[t]))
        BY RangeFinite DEF Typed, Shaped
      <3> QED
        BY <3>1, FS_Subset
    <2>2. f \in Surjection(A, Planned(t, q))
      BY DEF Surjection, Planned
    <2> QED
      BY <2>1, <2>2, FS_Surjection
  <1> QED
    BY <1>1, <1>2, FS_Union

(* A list that is empty belongs to no open statement.                         *)
LEMMA NotIdle == ASSUME Typed, NEW t \in Slots, todo[t] # << >> PROVE ~Idle(t)
  BY DEF Typed

(* A statement is left out, or a count is passed; nothing is written.          *)
LEMMA AdvanceStep ==
  ASSUME Invariant, NEW t \in Slots, todo[t] # << >>,
         todo' = [todo EXCEPT ![t] = Tail(@)], UNCHANGED <<table, kind, held, wrote>>,
         \A q \in Quotas : Waiting(t, q) =>
           \/ ~Locks(q, Head(todo[t])) /\ (Turn(q) \in held[t] => ~Counts(q, Head(todo[t])))
           \/ Counts(q, Head(todo[t])) /\ Counted(t, Head(todo[t])) < q.limit
  PROVE  Invariant'
  <1> DEFINE p == todo[t]
  <1>1. /\ todo'[t] = Tail(p) /\ \A u \in Slots : u # t => todo'[u] = todo[u]
        /\ todo' = [u \in Slots |-> todo'[u]]
    BY DEF Invariant, Typed
  <1>2. Shaped(p) /\ Listed(p) /\ p # << >>
    BY DEF Invariant, Typed, Shaped
  <1>3. Shaped(<< >>) /\ Listed(<< >>) /\ Range(<< >>) = {}
    BY EmptyListed DEF Shaped
  <1> HIDE DEF p
  <1>4. Tail(p) = << >> \o Tail(p)
    BY <1>2, TailAlone
  <1>5. Shaped(Tail(p)) /\ Range(Tail(p)) \subseteq Range(p)
    BY <1>2, <1>3, <1>4, Later
  <1>6. Typed'
    <2>1. ASSUME NEW u \in Slots
          PROVE  Shaped(todo'[u]) /\ (Idle(u)' => todo'[u] = << >>)
      <3>1. CASE u = t
        BY <1>1, <1>5, <3>1, NotIdle DEF Invariant, Idle
      <3>2. CASE u # t
        BY <1>1, <3>2 DEF Invariant, Typed, Idle
      <3> QED
        BY <3>1, <3>2
    <2> QED
      BY <1>1, <2>1 DEF Invariant, Typed, Idle
  <1>7. Exclusive' /\ DropsLocked' /\ Within'
    BY DEF Invariant, Exclusive, DropsLocked, Within
  <1>8. Guarded'
    <2> SUFFICES ASSUME NEW u \in Slots, NEW q \in Quotas PROVE Room(u, q)' \/ Waiting(u, q)'
      BY DEF Guarded
    <2>1. CASE u # t
      BY <1>1, <2>1, Unmoved DEF Invariant, Guarded
    <2>2. CASE u = t
      <3>1. Added(t, q)' = Added(t, q) /\ Of(q, DOMAIN table)' = Of(q, DOMAIN table)
        BY DEF Added
      <3>2. Planned(t, q)' \subseteq Planned(t, q)
        <4>1. {s.row : s \in {x \in Range(Tail(p)) : Adds(q, x)}}
                \subseteq {s.row : s \in {x \in Range(p) : Adds(q, x)}}
          BY <1>2, <1>3, <1>4, PlannedLater
        <4> QED
          BY <4>1, <1>1 DEF Planned, p
      <3> DEFINE all == Of(q, DOMAIN table) \cup Added(t, q) \cup Planned(t, q)
      <3>3. IsFiniteSet(all) /\ all' \subseteq all
        BY <3>1, <3>2, CountedFinite DEF Invariant
      <3>4. Cardinality(all) <= q.limit /\ Turn(q) \in held[t] => Room(t, q)'
        <4> SUFFICES ASSUME Cardinality(all) <= q.limit, Turn(q) \in held[t] PROVE Room(t, q)'
          OBVIOUS
        <4>1. Cardinality(all') <= Cardinality(all)
          BY <3>3, FS_Subset
        <4>2. Cardinality(all') \in Nat /\ Cardinality(all) \in Nat /\ q.limit \in Nat
          BY <3>3, FS_Subset, FS_CardinalityType, QuotaFacts
        <4>3. Cardinality(all') <= q.limit
          BY <4>1, <4>2
        <4> QED
          BY <4>3 DEF Room
      <3>5. CASE Room(t, q)
        BY <3>4, <3>5, <2>2 DEF Room
      <3>6. CASE Waiting(t, q) /\ ~Locks(q, Head(p)) /\ (Turn(q) \in held[t] => ~Counts(q, Head(p)))
        <4> DEFINE has == Turn(q) \in held[t]
        <4>1. WillCount(p, has, q) /\ OneAdds(p, q)
          BY <3>6 DEF Waiting, p
        <4>2. WillCount(Tail(p), has, q)
          <5>1. has \in BOOLEAN /\ (has => ~Counts(q, Head(p))) /\ ~Locks(q, Head(p))
            BY <3>6
          <5> HIDE DEF has
          <5>2. WillCount(<< >> \o Tail(p), has, q)
            BY <1>2, <1>3, <4>1, <5>1, CountLater
          <5> QED
            BY <5>2, <1>4
        <4>3. OneAdds(Tail(p), q)
          BY <1>2, <1>3, <1>4, <4>1, OneLater
        <4>4. Keeps(t) => Keeps(t)'
          BY <1>1, <1>5 DEF Keeps, p
        <4>5. Planned(t, q)' # {} => Keeps(t)'
          BY <3>2, <3>6, <4>4 DEF Waiting
        <4>6. Waiting(t, q)'
          BY <1>1, <3>1, <3>6, <4>2, <4>3, <4>5 DEF Waiting
        <4> QED
          BY <2>2, <4>6
      <3>7. CASE Waiting(t, q) /\ Counts(q, Head(p)) /\ Counted(t, Head(p)) < q.limit
        <4>1. WillCount(p, Turn(q) \in held[t], q) /\ OneAdds(p, q) /\ (Planned(t, q) # {} => Keeps(t))
          BY <3>7 DEF Waiting, p
        <4>2. CASE Turn(q) \in held[t] /\ Planned(t, q) # {}
          <5> DEFINE now == Of(q, DOMAIN table) \cup Added(t, q)
          <5>1. Keeps(t)
            BY <4>1, <4>2
          <5>2. Counted(t, Head(p)) = Cardinality(now)
            <6>1. Head(p).table = q.table /\ Head(p).among = q.among
              BY <3>7 DEF Counts, Count
            <6>2. \A x \in DOMAIN table \cup DOMAIN wrote[t] : View(t, x) # "absent"
              <7>1. \A x \in DOMAIN wrote[t] : View(t, x) # "absent"
                BY <5>1 DEF Keeps, View
              <7>2. \A x \in DOMAIN table : x \notin DOMAIN wrote[t] => View(t, x) # "absent"
                BY StateNames DEF View, Known, Invariant, Typed
              <7> QED
                BY <7>1, <7>2
            <6>3. \A x \in DOMAIN wrote[t] : wrote[t][x] # "absent"
              BY <5>1 DEF Keeps
            <6>4. {x \in DOMAIN table \cup DOMAIN wrote[t] :
                     x.table = Head(p).table /\ x.repository \in Head(p).among /\ View(t, x) # "absent"}
                  = now
              BY <6>1, <6>2, <6>3 DEF Of, Added
            <6> QED
              BY <6>4 DEF Counted
          <5>3. PICK s \in Range(p) : Adds(q, s)
            BY <4>2 DEF Planned, p
          <5>4. Planned(t, q) = {s.row}
            <6>1. \A x \in Range(p) : Adds(q, x) => x = s
              BY <4>1, <5>3 DEF OneAdds, Range
            <6> QED
              BY <5>3, <6>1 DEF Planned, p
          <5>5. IsFiniteSet(now)
            <6>1. now \subseteq all
              OBVIOUS
            <6> QED
              BY <3>3, <6>1, FS_Subset
          <5> HIDE DEF now
          <5>6. Cardinality(now) < q.limit
            BY <3>7, <5>2
          <5>7. all = now \cup {s.row}
            BY <5>4 DEF now
          <5> HIDE DEF all
          <5>8. Cardinality(all) <= Cardinality(now) + 1
            <6>1. Cardinality(now) \in Nat
              BY <5>5, FS_CardinalityType
            <6>2. \A x : Cardinality(now \cup {x})
                           = IF x \in now THEN Cardinality(now) ELSE Cardinality(now) + 1
              BY ONLY <5>5, FS_AddElement
            <6>3. \A x : Cardinality(now \cup {x}) <= Cardinality(now) + 1
              BY <6>1, <6>2
            <6> QED
              BY <5>7, <6>3
          <5>9. Cardinality(all) <= q.limit
            <6>1. Cardinality(now) \in Nat /\ Cardinality(all) \in Nat /\ q.limit \in Nat
              BY <3>3, <5>5, FS_CardinalityType, QuotaFacts
            <6> QED
              BY <5>6, <5>8, <6>1
          <5> QED
            BY <2>2, <3>4, <4>2, <5>9
        <4>3. CASE ~(Turn(q) \in held[t])
          <5>1. ~Locks(q, Head(p))
            <6>1. Head(p).do = "count"
              BY <3>7 DEF Counts, Count
            <6>2. Lock(q.row, {"present"}).do = "row"
              BY DEF Lock, Statement
            <6> QED
              BY <6>1, <6>2 DEF Locks
          <5> QED
            BY <3>6, <3>7, <4>3, <5>1
        <4>4. CASE Planned(t, q) = {}
          <5>1. \A x \in Range(p) : ~Adds(q, x)
            BY <4>4 DEF Planned, p
          <5>2. \A i \in DOMAIN Tail(p) : Tail(p)[i] \in Range(p)
            BY <1>5 DEF Range
          <5>3. WillCount(Tail(p), Turn(q) \in held[t], q) /\ OneAdds(Tail(p), q)
            BY <5>1, <5>2 DEF WillCount, OneAdds
          <5>4. Planned(t, q)' = {}
            BY <3>2, <4>4
          <5>5. Waiting(t, q)'
            BY <1>1, <3>1, <3>7, <5>3, <5>4 DEF Waiting
          <5> QED
            BY <2>2, <5>5
        <4> QED
          BY <4>2, <4>3, <4>4
      <3> QED
        BY <3>5, <3>6, <3>7 DEF Invariant, Guarded, p
    <2> QED
      BY <2>1, <2>2
  <1> QED
    BY <1>6, <1>7, <1>8 DEF Invariant

LEMMA SkipStep == ASSUME Invariant, NEW t \in Slots, Skip(t) PROVE Invariant'
  <1> DEFINE s == Head(todo[t])
  <1>1. /\ todo[t] # << >> /\ s.do = "row" /\ View(t, s.row) \notin s.ends
        /\ todo' = [todo EXCEPT ![t] = Tail(@)] /\ UNCHANGED <<table, kind, held, wrote>>
    BY DEF Skip
  <1>2. View(t, s.row) \in States
    BY StateNames DEF View, Known, Invariant, Typed
  <1>3. ASSUME NEW q \in Quotas PROVE ~Locks(q, s) /\ ~Counts(q, s)
    <2>1. Lock(q.row, {"present"}).ends = States
      BY DEF Lock, Statement
    <2>2. Count(q.table, q.among, q.limit).do = "count"
      BY DEF Count
    <2> QED
      BY <1>1, <1>2, <2>1, <2>2 DEF Locks, Counts
  <1> QED
    BY <1>1, <1>3, AdvanceStep

LEMMA CheckStep == ASSUME Invariant, NEW t \in Slots, Check(t) PROVE Invariant'
  <1> DEFINE s == Head(todo[t])
  <1>1. /\ todo[t] # << >> /\ s.do = "count" /\ Counted(t, s) < s.limit
        /\ todo' = [todo EXCEPT ![t] = Tail(@)] /\ UNCHANGED <<table, kind, held, wrote>>
    BY DEF Check
  <1>2. ASSUME NEW q \in Quotas
        PROVE  \/ ~Locks(q, s) /\ (Turn(q) \in held[t] => ~Counts(q, s))
               \/ Counts(q, s) /\ Counted(t, s) < q.limit
    <2>1. Lock(q.row, {"present"}).do = "row"
      BY DEF Lock, Statement
    <2>2. ~Locks(q, s)
      BY <1>1, <2>1 DEF Locks
    <2>3. Counts(q, s) => s.limit = q.limit
      BY DEF Counts, Count
    <2> QED
      BY <1>1, <2>2, <2>3
  <1> QED
    BY <1>1, <1>2, AdvanceStep

(* A row that a transaction sees is committed or written by it.               *)
LEMMA Seen ==
  ASSUME NEW t, NEW x, View(t, x) # "absent"
  PROVE  (x \in DOMAIN wrote[t] /\ wrote[t][x] # "absent") \/ x \in DOMAIN table
  BY DEF View, Known

(* A statement is carried out.                                               *)
LEMMA ExecuteStep == ASSUME Invariant, NEW t \in Slots, Execute(t) PROVE Invariant'
  <1> DEFINE p == todo[t]
             s == Head(p)
             c == IF s.sets = "absent" THEN Cascade(t, s.row) ELSE << >>
  <1>1. /\ p # << >> /\ s.do = "row" /\ View(t, s.row) \in s.needs /\ WaitsFor(t) = {}
        /\ held'[t] = held[t] \cup s.locks /\ todo'[t] = c \o Tail(p)
        /\ wrote'[t] = IF s.sets = "same" THEN wrote[t] ELSE Over([x \in {s.row} |-> s.sets], wrote[t])
        /\ \A u \in Slots : u # t => held'[u] = held[u] /\ wrote'[u] = wrote[u] /\ todo'[u] = todo[u]
        /\ held' = [u \in Slots |-> held'[u]] /\ todo' = [u \in Slots |-> todo'[u]]
        /\ wrote' = [u \in Slots |-> wrote'[u]] /\ table' = table /\ kind' = kind
    BY DEF Execute, Fits, Invariant, Typed
  <1>2. Shaped(p) /\ Listed(p)
    BY DEF Invariant, Typed, Shaped
  <1>3. s = p[1] /\ s \in Range(p) /\ StatementOK(s) /\ 1 \in DOMAIN p
    <2>0. p # << >> /\ Listed(p)
      BY <1>1, <1>2
    <2>1. s = p[1] /\ s \in Range(p)
      BY ONLY <2>0, TailListed DEF s
    <2>2. 1 \in DOMAIN p
      <3>1. Len(p) >= 1 /\ Len(p) \in Nat /\ DOMAIN p = 1..Len(p)
        BY ONLY <2>0, ListedFacts
      <3> QED
        BY <3>1
    <2> QED
      BY <1>2, <2>1, <2>2 DEF Shaped
  <1>4. Shaped(c) /\ \A q, x : x \in Range(c) => ~Adds(q, x)
    <2>1. CASE s.sets = "absent"
      <3>1. Listed(c) /\ \A x \in Range(c) : \E row : x = Drop(row)
        BY <2>1, CascadeDrops
      <3>2. \A row : StatementOK(Drop(row)) /\ "absent" \notin Drop(row).needs
        BY DropPlain DEF Plain
      <3> HIDE DEF c
      <3> QED
        BY <3>1, <3>2 DEF Shaped, Adds
    <2>2. CASE s.sets # "absent"
      <3>1. c = << >>
        BY <2>2
      <3> HIDE DEF c
      <3> QED
        BY <3>1, EmptyListed DEF Shaped
    <2> QED
      BY <2>1, <2>2
  <1>5. s.sets # "absent" => Range(c) = {}
    BY EmptyListed
  <1> HIDE DEF p, s, c
  <1>6. Shaped(todo'[t]) /\ Range(todo'[t]) \subseteq Range(c) \cup Range(p)
    BY <1>1, <1>2, <1>4, Later
  <1>7. /\ DOMAIN wrote'[t] = DOMAIN wrote[t] \cup (IF s.sets = "same" THEN {} ELSE {s.row})
        /\ \A x \in DOMAIN wrote'[t] :
             \/ s.sets # "same" /\ x = s.row /\ wrote'[t][x] = s.sets
             \/ x \in DOMAIN wrote[t] /\ wrote'[t][x] = wrote[t][x]
        /\ s.sets # "same" => wrote'[t][s.row] = s.sets
    <2>1. CASE s.sets = "same"
      BY <1>1, <2>1
    <2>2. CASE s.sets # "same"
      <3>1. wrote'[t] = Over([x \in {s.row} |-> s.sets], wrote[t])
        BY <1>1, <2>2
      <3>2. /\ DOMAIN wrote'[t] = {s.row} \cup DOMAIN wrote[t] /\ wrote'[t][s.row] = s.sets
            /\ \A x \in DOMAIN wrote[t] : x # s.row => wrote'[t][x] = wrote[t][x]
        <4> DEFINE all == wrote'[t]
        <4>1. all = Over([x \in {s.row} |-> s.sets], wrote[t])
          BY <3>1
        <4> HIDE DEF all
        <4>2. /\ DOMAIN all = {s.row} \cup DOMAIN wrote[t] /\ all[s.row] = s.sets
              /\ \A x \in DOMAIN wrote[t] : x # s.row => all[x] = wrote[t][x]
          BY ONLY <4>1 DEF Over
        <4> QED
          BY <4>2 DEF all
      <3> QED
        BY <2>2, <3>2
    <2> QED
      BY <2>1, <2>2
  <1>8. Typed'
    <2>1. s.sets # "same" => s.sets \in States
      BY <1>1, <1>3, StateNames DEF StatementOK
    <2>2. IsFiniteSet(DOMAIN wrote'[t])
      <3>1. IsFiniteSet(DOMAIN wrote[t]) /\ IsFiniteSet({}) /\ IsFiniteSet({s.row})
        BY FS_EmptySet, FS_Singleton DEF Invariant, Typed
      <3> QED
        BY <3>1, <1>7, FS_Union
    <2>3. \A x \in DOMAIN wrote'[t] : wrote'[t][x] \in States
      BY <1>7, <2>1 DEF Invariant, Typed
    <2>4. ~Idle(t)
      BY <1>1, NotIdle DEF Invariant, p
    <2>5. ASSUME NEW u \in Slots
          PROVE  /\ Shaped(todo'[u])
                 /\ IsFiniteSet(DOMAIN wrote'[u]) /\ \A x \in DOMAIN wrote'[u] : wrote'[u][x] \in States
                 /\ Idle(u)' => todo'[u] = << >> /\ held'[u] = {} /\ DOMAIN wrote'[u] = {}
      <3>1. CASE u = t
        BY <1>1, <1>6, <2>2, <2>3, <2>4, <3>1 DEF Idle
      <3>2. CASE u # t
        BY <1>1, <3>2 DEF Invariant, Typed, Idle
      <3> QED
        BY <3>1, <3>2
    <2> QED
      BY <1>1, <2>5 DEF Invariant, Typed
  <1>9. Exclusive'
    <2>1. ASSUME NEW u \in Slots, u # t, NEW l \in s.locks, NEW h \in held[u], l.row = h.row
          PROVE  ~Conflict(l.mode, h.mode)
      <3>1. p # << >> /\ Head(p).do = "row"
        BY <1>1 DEF s
      <3>2. Fits(t, Head(p))
        BY DEF Execute, p
      <3>3. WaitsFor(t) = {v \in Slots \ {t} : \E a \in Head(p).locks : \E b \in held[v] :
                                           a.row = b.row /\ Conflict(a.mode, b.mode)}
        BY <3>1, <3>2 DEF WaitsFor, p
      <3> QED
        BY <1>1, <2>1, <3>3 DEF s
    <2> SUFFICES ASSUME NEW u \in Slots, NEW v \in Slots, u # v, NEW l \in held'[u], NEW h \in held'[v],
                        l.row = h.row
                 PROVE  ~Conflict(l.mode, h.mode)
      BY DEF Exclusive
    <2>2. CASE l \in held[u] /\ h \in held[v]
      BY <2>2 DEF Invariant, Exclusive
    <2>3. CASE l \notin held[u]
      <3>1. u = t /\ l \in s.locks /\ h \in held[v]
        BY <1>1, <2>3
      <3> QED
        BY <2>1, <3>1
    <2>4. CASE h \notin held[v]
      <3>1. v = t /\ h \in s.locks /\ l \in held[u]
        BY <1>1, <2>4
      <3>2. ~Conflict(h.mode, l.mode)
        BY <2>1, <3>1
      <3>3. {h.mode, l.mode} = {l.mode, h.mode}
        OBVIOUS
      <3> QED
        BY <3>2, <3>3 DEF Conflict
    <2> QED
      BY <2>2, <2>3, <2>4
  <1>10. DropsLocked'
    <2> SUFFICES ASSUME NEW u \in Slots, NEW x \in DOMAIN wrote'[u], wrote'[u][x] = "absent"
                 PROVE  Hold(x, "update") \in held'[u]
      BY DEF DropsLocked
    <2>1. CASE u # t
      BY <1>1, <2>1 DEF Invariant, DropsLocked
    <2>2. CASE u = t /\ x \in DOMAIN wrote[t] /\ wrote'[t][x] = wrote[t][x]
      BY <1>1, <2>2 DEF Invariant, DropsLocked
    <2>3. CASE u = t /\ x = s.row /\ wrote'[t][x] = s.sets
      <3>1. s.sets = "absent"
        BY <2>3
      <3>2. Hold(s.row, "update") \in s.locks
        BY <1>1, <1>3, <3>1, StateNames DEF StatementOK
      <3> QED
        BY <1>1, <2>3, <3>2
    <2> QED
      BY <1>7, <2>1, <2>2, <2>3
  <1>11. Within'
    BY <1>1 DEF Invariant, Within
  <1>12. Guarded'
    <2> SUFFICES ASSUME NEW u \in Slots, NEW q \in Quotas PROVE Room(u, q)' \/ Waiting(u, q)'
      BY DEF Guarded
    <2>1. CASE u # t
      BY <1>1, <2>1, Unmoved DEF Invariant, Guarded
    <2>2. CASE u = t
      <3>1. Planned(t, q)' \subseteq Planned(t, q)
        <4>1. {x.row : x \in {y \in Range(c \o Tail(p)) : Adds(q, y)}}
                \subseteq {x.row : x \in {y \in Range(p) : Adds(q, y)}}
          BY <1>1, <1>2, <1>4, PlannedLater DEF Shaped
        <4> QED
          BY <4>1, <1>1 DEF Planned, p
      <3>2. Of(q, DOMAIN table)' = Of(q, DOMAIN table)
        BY <1>1
      <3>3. ASSUME NEW x \in Added(t, q)', x \notin Added(t, q)
            PROVE  /\ x = s.row /\ s.sets \in Existing
                   /\ Adds(q, s) \/ (x \in DOMAIN table /\ \E l \in s.locks : l.row = x)
        <4>1. x \in DOMAIN wrote'[t] /\ wrote'[t][x] # "absent" /\ x.table = q.table /\ x.repository \in q.among
          BY DEF Added, Of
        <4>2. ~(x \in DOMAIN wrote[t] /\ wrote[t][x] # "absent")
          BY <3>3, <4>1 DEF Added, Of
        <4>3. s.sets # "same" /\ x = s.row /\ s.sets # "absent"
          BY <1>7, <4>1, <4>2
        <4>4. CASE s.needs = {"absent"} /\ s.sets \in Existing
          <5>1. s.row.table = q.table /\ s.row.repository \in q.among
            BY <4>1, <4>3
          <5>2. Adds(q, s)
            BY <1>1, <4>4, <5>1 DEF Adds
          <5> QED
            BY <4>3, <4>4, <5>2
        <4>5. CASE s.sets \in Existing /\ "absent" \notin s.needs /\ \E l \in s.locks : l.row = s.row
          <5>1. View(t, s.row) # "absent"
            BY <1>1, <4>5
          <5>2. x \in DOMAIN table
            BY <5>1, <4>2, <4>3, Seen
          <5> QED
            BY <4>3, <4>5, <5>2
        <4> QED
          BY <1>1, <1>3, <4>3, <4>4, <4>5 DEF StatementOK
      <3> DEFINE all == Of(q, DOMAIN table) \cup Added(t, q) \cup Planned(t, q)
      <3>4. all' \subseteq all
        <4>1. ASSUME NEW x \in Added(t, q)' PROVE x \in all
          <5>1. CASE x \in Added(t, q)
            BY <5>1
          <5>2. CASE x \notin Added(t, q) /\ Adds(q, s)
            <6>1. x = s.row
              BY <3>3, <5>2
            <6>2. s.row \in Planned(t, q)
              BY <1>3, <5>2 DEF Planned, p
            <6> QED
              BY <6>1, <6>2
          <5>3. CASE x \notin Added(t, q) /\ ~Adds(q, s)
            <6>1. x \in DOMAIN table
              BY <3>3, <5>3
            <6>2. x.table = q.table /\ x.repository \in q.among
              BY DEF Added, Of
            <6> QED
              BY <6>1, <6>2 DEF Of
          <5> QED
            BY <5>1, <5>2, <5>3
        <4> QED
          BY <3>1, <3>2, <4>1
      <3>5. CASE Room(t, q)
        <4>1. IsFiniteSet(all)
          BY CountedFinite DEF Invariant
        <4> HIDE DEF all
        <4>2. Cardinality(all') <= Cardinality(all)
          BY <3>4, <4>1, FS_Subset
        <4>3. Cardinality(all') \in Nat /\ Cardinality(all) \in Nat /\ q.limit \in Nat
          BY <3>4, <4>1, FS_Subset, FS_CardinalityType, QuotaFacts
        <4>4. Cardinality(all) <= q.limit /\ Turn(q) \in held[t]
          BY <3>5 DEF Room, all
        <4>5. Cardinality(all') <= q.limit
          BY <4>2, <4>3, <4>4
        <4>6. Turn(q) \in held'[t]
          BY <1>1, <4>4
        <4> QED
          BY <2>2, <4>5, <4>6 DEF Room, all
      <3>6. CASE Waiting(t, q)
        <4>1. WillCount(p, Turn(q) \in held[t], q) /\ OneAdds(p, q)
          BY <3>6 DEF Waiting, p
        <4>2. ~Adds(q, s)
          <5>1. \A j \in 1..(1 - 1) : FALSE
            OBVIOUS
          <5> QED
            BY <1>3, <4>1, <5>1 DEF WillCount
        <4> DEFINE has == Turn(q) \in held[t]
                   has2 == Turn(q) \in held'[t]
        <4>3. WillCount(c \o Tail(p), has2, q)
          <5>1. has => has2
            BY <1>1
          <5>2. Locks(q, Head(p)) => has2
            <6>1. Lock(q.row, {"present"}).locks = {Turn(q)}
              BY DEF Lock, Statement, Turn
            <6> QED
              BY <1>1, <6>1 DEF Locks, s
          <5>3. ~Counts(q, Head(p))
            <6>1. Count(q.table, q.among, q.limit).do = "count"
              BY DEF Count
            <6> QED
              BY <1>1, <6>1 DEF Counts, s
          <5>4. has \in BOOLEAN /\ has2 \in BOOLEAN
            OBVIOUS
          <5>5. WillCount(p, has, q) /\ Listed(c) /\ \A x \in Range(c) : ~Adds(q, x)
            BY <4>1, <1>4 DEF Shaped
          <5> HIDE DEF has, has2
          <5> QED
            BY <1>1, <1>2, <5>1, <5>2, <5>3, <5>4, <5>5, CountLater
        <4>4. OneAdds(c \o Tail(p), q)
          BY <1>1, <1>2, <1>4, <4>1, OneLater DEF Shaped
        <4>5. ASSUME Planned(t, q)' # {} PROVE Keeps(t)'
          <5>1. Keeps(t)
            BY <3>1, <3>6, <4>5 DEF Waiting
          <5>2. s.sets # "absent"
            BY <5>1, <1>1, <1>3 DEF Keeps, p
          <5>3. Range(todo'[t]) \subseteq Range(p)
            BY <1>5, <1>6, <5>2
          <5>4. \A x \in DOMAIN wrote'[t] : wrote'[t][x] # "absent"
            BY <1>7, <5>1, <5>2 DEF Keeps
          <5> QED
            BY <5>1, <5>3, <5>4 DEF Keeps, p
        <4>6. ASSUME NEW x \in Added(t, q)' PROVE x \in DOMAIN table /\ \E h \in held'[t] : h.row = x
          <5>1. CASE x \in Added(t, q)
            BY <1>1, <3>6, <5>1 DEF Waiting
          <5>2. CASE x \notin Added(t, q)
            BY <1>1, <3>3, <4>2, <5>2
          <5> QED
            BY <5>1, <5>2
        <4>7. Waiting(t, q)'
          BY <1>1, <4>3, <4>4, <4>5, <4>6 DEF Waiting
        <4> QED
          BY <2>2, <4>7
      <3> QED
        BY <3>5, <3>6 DEF Invariant, Guarded
    <2> QED
      BY <2>1, <2>2
  <1> QED
    BY <1>8, <1>9, <1>10, <1>11, <1>12 DEF Invariant

(* What a transaction wrote becomes visible.                                  *)
LEMMA CommitStep == ASSUME Invariant, NEW t \in Slots, Commit(t) PROVE Invariant'
  <1>1. /\ \A x : x \in DOMAIN table' <=>
                    \/ x \in DOMAIN wrote[t] /\ wrote[t][x] # "absent"
                    \/ x \notin DOMAIN wrote[t] /\ x \in DOMAIN table
        /\ \A x \in DOMAIN table' : table'[x] \in Existing
    <2> DEFINE rows == Over(wrote[t], table)
    <2>1. table' = [x \in {y \in DOMAIN rows : rows[y] # "absent"} |-> rows[x]]
      BY DEF Commit, Kept
    <2>2. /\ DOMAIN rows = DOMAIN wrote[t] \cup DOMAIN table
          /\ \A x \in DOMAIN wrote[t] : rows[x] = wrote[t][x] /\ wrote[t][x] \in States
          /\ \A x \in DOMAIN table : x \notin DOMAIN wrote[t] => rows[x] = table[x] /\ table[x] \in Existing
      BY DEF Over, Invariant, Typed
    <2> HIDE DEF rows
    <2>3. DOMAIN table' = {y \in DOMAIN rows : rows[y] # "absent"}
          /\ \A x \in DOMAIN table' : table'[x] = rows[x]
      BY <2>1
    <2> QED
      BY <2>2, <2>3, StateNames
  <1>2. IsFiniteSet(DOMAIN table')
    <2>1. IsFiniteSet(DOMAIN wrote[t] \cup DOMAIN table)
      BY FS_Union DEF Invariant, Typed
    <2>2. DOMAIN table' \subseteq DOMAIN wrote[t] \cup DOMAIN table
      BY <1>1
    <2> QED
      BY <2>1, <2>2, FS_Subset
  <1>3. /\ Typed' /\ Exclusive' /\ DropsLocked' /\ \A q \in Quotas : Waiting(t, q)'
        /\ \A u \in Slots : u # t =>
             held'[u] = held[u] /\ wrote'[u] = wrote[u] /\ todo'[u] = todo[u] /\ kind'[u] = kind[u]
    BY <1>1, <1>2, Ended DEF Commit
  <1>4. \A q : Of(q, DOMAIN table') \subseteq Of(q, DOMAIN table) \cup Added(t, q)
    BY <1>1 DEF Of, Added
  <1>5. \A q : Waiting(t, q) => Of(q, DOMAIN table') \subseteq Of(q, DOMAIN table)
    BY <1>4 DEF Waiting, Added, Of
  <1>6. Within'
    <2> SUFFICES ASSUME NEW q \in Quotas PROVE Cardinality(Of(q, DOMAIN table')) <= q.limit
      BY DEF Within
    <2> DEFINE all == Of(q, DOMAIN table) \cup Added(t, q) \cup Planned(t, q)
               now == Of(q, DOMAIN table)
               next == Of(q, DOMAIN table')
    <2>1. IsFiniteSet(all) /\ IsFiniteSet(now) /\ q.limit \in Nat
      <3>1. IsFiniteSet(all) /\ now \subseteq all
        BY CountedFinite DEF Invariant
      <3> QED
        BY <3>1, FS_Subset, QuotaFacts
    <2>2. \E S : IsFiniteSet(S) /\ next \subseteq S /\ Cardinality(S) <= q.limit
      <3>1. CASE Room(t, q)
        BY <1>4, <2>1, <3>1 DEF Room
      <3>2. CASE Waiting(t, q)
        BY <1>5, <2>1, <3>2 DEF Invariant, Within
      <3> QED
        BY <3>1, <3>2 DEF Invariant, Guarded
    <2> HIDE DEF next
    <2>3. PICK S : IsFiniteSet(S) /\ next \subseteq S /\ Cardinality(S) <= q.limit
      BY <2>2
    <2>4. Cardinality(next) <= Cardinality(S) /\ Cardinality(next) \in Nat /\ Cardinality(S) \in Nat
      BY <2>3, FS_Subset, FS_CardinalityType
    <2>5. Cardinality(next) <= q.limit
      BY <2>1, <2>3, <2>4
    <2> QED
      BY <2>5 DEF next
  <1>7. Guarded'
    <2> SUFFICES ASSUME NEW u \in Slots, NEW q \in Quotas PROVE Room(u, q)' \/ Waiting(u, q)'
      BY DEF Guarded
    <2>1. CASE u = t
      BY <1>3, <2>1
    <2>2. CASE u # t /\ Room(u, q)
      <3>1. ~Room(t, q)
        <4>1. Conflict("update", "update")
          BY DEF Conflict
        <4>2. Turn(q).mode = "update"
          BY DEF Turn, Hold
        <4>3. Turn(q) \in held[u]
          BY <2>2 DEF Room
        <4>4. Turn(q) \notin held[t]
          BY <2>2, <4>1, <4>2, <4>3 DEF Invariant, Exclusive
        <4> QED
          BY <4>4 DEF Room
      <3>2. Waiting(t, q)
        BY <3>1 DEF Invariant, Guarded
      <3> DEFINE all == Of(q, DOMAIN table) \cup Added(u, q) \cup Planned(u, q)
      <3>3. all' \subseteq all
        <4>1. Added(u, q)' = Added(u, q) /\ Planned(u, q)' = Planned(u, q)
          BY <1>3, <2>2 DEF Added, Planned
        <4> QED
          BY <1>5, <3>2, <4>1
      <3>4. IsFiniteSet(all)
        BY CountedFinite DEF Invariant
      <3> HIDE DEF all
      <3>5. Cardinality(all') <= Cardinality(all)
        BY <3>3, <3>4, FS_Subset
      <3>6. Cardinality(all') \in Nat /\ Cardinality(all) \in Nat /\ q.limit \in Nat
        BY <3>3, <3>4, FS_Subset, FS_CardinalityType, QuotaFacts
      <3>7. Cardinality(all) <= q.limit
        BY <2>2 DEF Room, all
      <3>8. Cardinality(all') <= q.limit
        BY <3>5, <3>6, <3>7
      <3> QED
        BY <1>3, <2>2, <3>8 DEF Room, all
    <2>3. CASE u # t /\ Waiting(u, q)
      <3>1. Added(u, q)' = Added(u, q) /\ Planned(u, q)' = Planned(u, q)
        BY <1>3, <2>3 DEF Added, Planned
      <3>2. Keeps(u)' = Keeps(u)
        BY <1>3, <2>3 DEF Keeps
      <3>3. ASSUME NEW x \in Added(u, q) PROVE x \in DOMAIN table' /\ \E h \in held'[u] : h.row = x
        <4>1. PICK h \in held[u] : x \in DOMAIN table /\ h.row = x
          BY <2>3 DEF Waiting
        <4>2. ASSUME x \in DOMAIN wrote[t], wrote[t][x] = "absent" PROVE FALSE
          <5>1. Hold(x, "update") \in held[t]
            BY <4>2 DEF Invariant, DropsLocked
          <5>2. Hold(x, "update").row = x /\ Hold(x, "update").mode = "update"
            BY DEF Hold
          <5>3. Conflict("update", h.mode)
            BY DEF Conflict
          <5> QED
            BY <2>3, <4>1, <5>1, <5>2, <5>3 DEF Invariant, Exclusive
        <4> QED
          BY <1>1, <1>3, <2>3, <4>1, <4>2
      <3>4. Waiting(u, q)'
        BY <1>3, <2>3, <3>1, <3>2, <3>3 DEF Waiting
      <3> QED
        BY <3>4
    <2> QED
      BY <2>1, <2>2, <2>3 DEF Invariant, Guarded
  <1> QED
    BY <1>3, <1>6, <1>7 DEF Invariant

LEMMA RequestStep == ASSUME Invariant, NEW t \in Slots, Request(t) PROVE Invariant'
  <1>1. Idle(t)
    BY DEF Request, Free
  <1>2. \E name, p : name # "none" /\ Programmed(p) /\ Start(t, name, p)
    <2>1. PICK r \in Repositories, n \in Numbers :
            \/ Start(t, "create", CreateRepository(r, n))
            \/ Start(t, "remove", RemoveRepository(r))
            \/ \E old \in Numbers : Start(t, "retry", RetryImport(r, old, n))
            \/ Start(t, "start_index", StartIndex(r, n))
            \/ Start(t, "start_search", StartSearch(r, n))
            \/ Start(t, "start_search", ResumeSearch(r, n))
            \/ Start(t, "create_conversation", CreateConversation(r, n))
            \/ Start(t, "remove_conversation", RemoveConversation(r, n))
            \/ Start(t, "submit", Submit(r, n))
      BY ZenonT(30) DEF Request
    <2>2. CASE Start(t, "create", CreateRepository(r, n))
      <3>1. Programmed(CreateRepository(r, n)) /\ "create" # "none"
        BY CreateProgrammed
      <3> QED
        BY <2>2, <3>1
    <2>3. CASE Start(t, "remove", RemoveRepository(r))
      <3>1. Programmed(RemoveRepository(r)) /\ "remove" # "none"
        BY RemovePlain, PlainProgrammed
      <3> QED
        BY <2>3, <3>1
    <2>4. CASE \E old \in Numbers : Start(t, "retry", RetryImport(r, old, n))
      <3>1. PICK old \in Numbers : Start(t, "retry", RetryImport(r, old, n))
        BY <2>4
      <3>2. Programmed(RetryImport(r, old, n)) /\ "retry" # "none"
        BY RetryProgrammed
      <3> QED
        BY <3>1, <3>2
    <2>5. CASE Start(t, "start_index", StartIndex(r, n))
      <3>1. Programmed(StartIndex(r, n)) /\ "start_index" # "none"
        BY StartPlain, PlainProgrammed
      <3> QED
        BY <2>5, <3>1
    <2>6. CASE \/ Start(t, "start_search", StartSearch(r, n))
               \/ Start(t, "start_search", ResumeSearch(r, n))
      <3>1. Programmed(StartSearch(r, n)) /\ Programmed(ResumeSearch(r, n)) /\ "start_search" # "none"
        BY StartPlain, PlainProgrammed
      <3> QED
        BY <2>6, <3>1
    <2>7. CASE Start(t, "create_conversation", CreateConversation(r, n))
      <3>1. Programmed(CreateConversation(r, n)) /\ "create_conversation" # "none"
        BY ConversationProgrammed
      <3> QED
        BY <2>7, <3>1
    <2>8. CASE Start(t, "remove_conversation", RemoveConversation(r, n))
      <3>1. Programmed(RemoveConversation(r, n)) /\ "remove_conversation" # "none"
        BY RemovePlain, PlainProgrammed
      <3> QED
        BY <2>8, <3>1
    <2>9. CASE Start(t, "submit", Submit(r, n))
      <3>1. Programmed(Submit(r, n)) /\ "submit" # "none"
        BY AnswerPlain, PlainProgrammed
      <3> QED
        BY <2>9, <3>1
    <2> QED
      BY <2>1, <2>2, <2>3, <2>4, <2>5, <2>6, <2>7, <2>8, <2>9
  <1> QED
    BY <1>1, <1>2, StartStep

LEMMA WorkStep == ASSUME Invariant, NEW t \in Slots, Work(t) PROVE Invariant'
  <1>1. Idle(t)
    BY DEF Work, Free
  <1>2. \E name, p : name # "none" /\ Programmed(p) /\ Start(t, name, p)
    <2>1. \/ \E r \in Repositories, n \in Numbers :
               \/ Start(t, "publish_import", PublishImport(r, n))
               \/ Start(t, "publish_index", PublishIndex(r, n))
               \/ Start(t, "checkpoint", Checkpoint(r, n))
               \/ Start(t, "publish_answer", PublishAnswer(r, n))
               \/ Start(t, "receipt", BeginReceipt(r, n))
          \/ \E row : Start(t, "stop", Stop(row))
          \/ \E name : \E rows \in SetToAllKPermutations(
                 {row \in DOMAIN table : row.table = name /\ table[row] = "active"}) :
               Start(t, "expire", Expire(rows))
      BY Zenon DEF Work
    <2>2. CASE \E r \in Repositories, n \in Numbers :
                 \/ Start(t, "publish_import", PublishImport(r, n))
                 \/ Start(t, "publish_index", PublishIndex(r, n))
                 \/ Start(t, "checkpoint", Checkpoint(r, n))
                 \/ Start(t, "publish_answer", PublishAnswer(r, n))
                 \/ Start(t, "receipt", BeginReceipt(r, n))
      <3>1. PICK r \in Repositories, n \in Numbers :
                 \/ Start(t, "publish_import", PublishImport(r, n))
                 \/ Start(t, "publish_index", PublishIndex(r, n))
                 \/ Start(t, "checkpoint", Checkpoint(r, n))
                 \/ Start(t, "publish_answer", PublishAnswer(r, n))
                 \/ Start(t, "receipt", BeginReceipt(r, n))
        BY <2>2
      <3>2. /\ Programmed(PublishImport(r, n)) /\ Programmed(PublishIndex(r, n))
            /\ Programmed(Checkpoint(r, n)) /\ Programmed(PublishAnswer(r, n))
            /\ Programmed(BeginReceipt(r, n))
        BY PublishImportPlain, PublishIndexPlain, CheckpointPlain, AnswerPlain, PlainProgrammed
      <3>3. /\ "publish_import" # "none" /\ "publish_index" # "none" /\ "checkpoint" # "none"
            /\ "publish_answer" # "none" /\ "receipt" # "none"
        OBVIOUS
      <3> QED
        BY <3>1, <3>2, <3>3
    <2>3. CASE \E row : Start(t, "stop", Stop(row))
      <3>1. PICK row : Start(t, "stop", Stop(row))
        BY <2>3
      <3>2. Programmed(Stop(row)) /\ "stop" # "none"
        BY StopPlain, PlainProgrammed
      <3> QED
        BY <3>1, <3>2
    <2>4. CASE \E name : \E rows \in SetToAllKPermutations(
                   {row \in DOMAIN table : row.table = name /\ table[row] = "active"}) :
                 Start(t, "expire", Expire(rows))
      <3>1. PICK name : \E rows \in SetToAllKPermutations(
                   {row \in DOMAIN table : row.table = name /\ table[row] = "active"}) :
                 Start(t, "expire", Expire(rows))
        BY <2>4
      <3> DEFINE running == {row \in DOMAIN table : row.table = name /\ table[row] = "active"}
      <3>2. IsFiniteSet(running)
        BY FS_Subset DEF Invariant, Typed
      <3>3. PICK rows \in SetToAllKPermutations(running) : Start(t, "expire", Expire(rows))
        BY <3>1
      <3> HIDE DEF running
      <3>4. Programmed(Expire(rows)) /\ "expire" # "none"
        BY <3>2, ExpirePlain, PlainProgrammed
      <3> QED
        BY <3>3, <3>4
    <2> QED
      BY <2>1, <2>2, <2>3, <2>4
  <1> QED
    BY <1>1, <1>2, StartStep

-----------------------------------------------------------------------------
(* The rows there are when the first transaction begins.                      *)

(* Besides its conversations and their runs a repository has at most one row of each table. *)
Single == {User, Repository(1), Job(1, 1), Row("repository_files", 1, 1), Index(1, 1),
           Row("code_chunks", 1, 1), Search(1, 1)}

LEMMA InitRows ==
  ASSUME table \in Tables
  PROVE  \E d \in 0..ConversationLimit :
           /\ DOMAIN table \subseteq Single \cup {Row("conversations", 1, n) : n \in 1..d}
                                            \cup {Row("answer_runs", 1, n) : n \in 1..d}
           /\ \A x \in DOMAIN table : table[x] \in Existing
  <1>1. \/ table = [x \in {User} |-> "present"]
        \/ \E stage \in Stages :
             \E search \in After(stage.index, {"absent", "active", "stopped"}),
                dialogue \in 0..ConversationLimit, run \in After(stage.index, {"absent", "active"}) :
               table = Kept([x \in Rows |-> Reached(x, stage, search, dialogue, run)])
    BY DEF Tables
  <1>2. CASE table = [x \in {User} |-> "present"]
    <2>1. DOMAIN table = {User} /\ table[User] = "present"
      BY <1>2
    <2>2. 0 \in 0..ConversationLimit
      BY LockBounds
    <2> QED
      BY <2>1, <2>2, StateNames DEF Single
  <1>3. CASE \E stage \in Stages :
               \E search \in After(stage.index, {"absent", "active", "stopped"}),
                  dialogue \in 0..ConversationLimit, run \in After(stage.index, {"absent", "active"}) :
                 table = Kept([x \in Rows |-> Reached(x, stage, search, dialogue, run)])
    <2>1. PICK stage \in Stages :
            \E search \in After(stage.index, {"absent", "active", "stopped"}),
               d \in 0..ConversationLimit, run \in After(stage.index, {"absent", "active"}) :
              table = Kept([x \in Rows |-> Reached(x, stage, search, d, run)])
      BY <1>3
    <2>2. PICK search \in After(stage.index, {"absent", "active", "stopped"}),
               d \in 0..ConversationLimit, run \in After(stage.index, {"absent", "active"}) :
              table = Kept([x \in Rows |-> Reached(x, stage, search, d, run)])
      BY <2>1
    <2>3. stage.import \in States /\ stage.index \in States /\ search \in States /\ run \in States
      BY StateNames DEF Stages, After
    <2>4. \A s : Stored(s) \in States
      BY StateNames DEF Stored
    <2>5. \A x \in DOMAIN table : x \in Rows /\ table[x] = Reached(x, stage, search, d, run) /\ table[x] # "absent"
      <3> DEFINE rows == [x \in Rows |-> Reached(x, stage, search, d, run)]
      <3>1. \A x \in Rows : rows[x] = Reached(x, stage, search, d, run)
        OBVIOUS
      <3> HIDE DEF rows
      <3>2. table = [x \in {y \in Rows : rows[y] # "absent"} |-> rows[x]]
        BY <2>2 DEF rows, Kept
      <3>3. DOMAIN table = {y \in Rows : rows[y] # "absent"} /\ \A x \in DOMAIN table : table[x] = rows[x]
        BY <3>2
      <3> QED
        BY <3>1, <3>3
    <2>6. ASSUME NEW x
          PROVE  /\ Reached(x, stage, search, d, run) \in States
                 /\ Reached(x, stage, search, d, run) # "absent" =>
                      \/ x \in Single
                      \/ x.repository = 1 /\ x.table \in {"conversations", "answer_runs"} /\ x.number <= d
      <3>1. "present" \in States /\ "absent" \in States
        BY StateNames
      <3> QED
        BY <2>3, <2>4, <3>1 DEF Single, Reached
    <2>7. ASSUME NEW x \in DOMAIN table
          PROVE  /\ table[x] \in Existing
                 /\ x \in Single \cup {Row("conversations", 1, n) : n \in 1..d}
                                 \cup {Row("answer_runs", 1, n) : n \in 1..d}
      <3>1. x \in Rows /\ table[x] \in Existing
        BY <2>5, <2>6, StateNames
      <3>2. \/ x \in Single
            \/ x.repository = 1 /\ x.table \in {"conversations", "answer_runs"} /\ x.number <= d
        BY <2>5, <2>6
      <3>3. CASE x \in Single
        BY <3>1, <3>3
      <3>4. CASE x.repository = 1 /\ x.table \in {"conversations", "answer_runs"} /\ x.number <= d
        <4>1. x # User /\ \A r : x # Repository(r)
          <5>1. User.table = "users" /\ \A r : Repository(r).table = "repositories"
            BY DEF User, Repository, Row
          <5> QED
            BY <3>4, <5>1
        <4>2. PICK name \in Below, r \in Repositories, n \in Numbers : x = Row(name, r, n)
          BY <3>1, <4>1 DEF Rows
        <4>3. x.table = name /\ x.repository = r /\ x.number = n
          BY <4>2 DEF Row
        <4>4. n \in 1..d
          BY <3>4, <4>3, LockBounds DEF Numbers
        <4>5. x = Row("conversations", 1, n) \/ x = Row("answer_runs", 1, n)
          BY <3>4, <4>2, <4>3
        <4> QED
          BY <3>1, <4>4, <4>5
      <3> QED
        BY <3>2, <3>3, <3>4
    <2> QED
      BY <2>7
  <1> QED
    BY <1>1, <1>2, <1>3

LEMMA InitHolds == Init => Invariant
  <1> SUFFICES ASSUME Init PROVE Invariant
    OBVIOUS
  <1>1. PICK d \in 0..ConversationLimit :
          /\ DOMAIN table \subseteq Single \cup {Row("conversations", 1, n) : n \in 1..d}
                                           \cup {Row("answer_runs", 1, n) : n \in 1..d}
          /\ \A x \in DOMAIN table : table[x] \in Existing
    BY InitRows DEF Init
  <1> DEFINE C == {Row("conversations", 1, n) : n \in 1..d}
             A == {Row("answer_runs", 1, n) : n \in 1..d}
  <1>2. d \in Nat /\ d <= ConversationLimit
    BY LockBounds
  <1>3. IsFiniteSet(1..d) /\ Cardinality(1..d) = d
    BY <1>2, FS_Interval
  <1>4. IsFiniteSet(C) /\ Cardinality(C) <= d
    <2> DEFINE f == [n \in 1..d |-> Row("conversations", 1, n)]
    <2>1. f \in Surjection(1..d, C)
      BY DEF Surjection
    <2> HIDE DEF f, C
    <2> QED
      BY <1>3, <2>1, FS_Surjection
  <1>5. IsFiniteSet(A)
    <2> DEFINE f == [n \in 1..d |-> Row("answer_runs", 1, n)]
    <2>1. f \in Surjection(1..d, A)
      BY DEF Surjection
    <2> HIDE DEF f, A
    <2> QED
      BY <1>3, <2>1, FS_Surjection
  <1>6. /\ User.table = "users" /\ Repository(1).table = "repositories" /\ Job(1, 1).table = "import_jobs"
        /\ \A x \in Single \ {User, Repository(1), Job(1, 1)} : x.table \notin Counted3
        /\ (\A x \in C : x.table = "conversations") /\ \A x \in A : x.table = "answer_runs"
    BY DEF Single, User, Repository, Job, Index, Search, Row, Counted3
  <1>7. IsFiniteSet(DOMAIN table)
    <2>1. IsFiniteSet(Single)
      <3>1. \A S, x : IsFiniteSet(S) => IsFiniteSet(S \cup {x})
        BY FS_AddElement
      <3>2. \A x : IsFiniteSet({x})
        BY FS_Singleton
      <3>3. \A x, y, z : IsFiniteSet({x} \cup {y} \cup {z})
        BY <3>1, <3>2
      <3>4. IsFiniteSet(({User} \cup {Repository(1)} \cup {Job(1, 1)})
                        \cup ({Row("repository_files", 1, 1)} \cup {Index(1, 1)}
                              \cup {Row("code_chunks", 1, 1)}))
        BY <3>3, FS_Union
      <3> DEFINE most == ({User} \cup {Repository(1)} \cup {Job(1, 1)})
                        \cup ({Row("repository_files", 1, 1)} \cup {Index(1, 1)}
                              \cup {Row("code_chunks", 1, 1)})
      <3>5. Single = most \cup {Search(1, 1)}
        BY DEF Single
      <3> HIDE DEF most
      <3>6. IsFiniteSet(most)
        BY <3>4 DEF most
      <3> QED
        BY <3>1, <3>5, <3>6
    <2>2. IsFiniteSet(Single \cup C \cup A)
      BY <1>4, <1>5, <2>1, FS_Union
    <2> QED
      BY <1>1, <2>2, FS_Subset
  <1>8. ASSUME NEW q \in Quotas PROVE Cardinality(Of(q, DOMAIN table)) <= q.limit
    <2> DEFINE now == Of(q, DOMAIN table)
    <2>1. \E S : IsFiniteSet(S) /\ now \subseteq S /\ Cardinality(S) <= q.limit
      <3>1. \A x : IsFiniteSet({x}) /\ Cardinality({x}) = 1
        BY FS_Singleton
      <3>2. RepositoryLimit >= 1 /\ ImportLimit >= 1 /\ ConversationLimit \in Nat
        BY LockBounds
      <3>3. \A x \in now : x.table = q.table /\ x \in Single \cup C \cup A
        BY <1>1 DEF Of
      <3> HIDE DEF now, C, A
      <3>4. CASE q.table = "repositories"
        <4>1. now \subseteq {Repository(1)}
          BY <1>6, <3>3, <3>4 DEF Counted3
        <4>2. q.limit = RepositoryLimit
          BY <3>4, QuotaFacts
        <4> QED
          BY <3>1, <3>2, <4>1, <4>2
      <3>5. CASE q.table = "import_jobs"
        <4>1. now \subseteq {Job(1, 1)}
          BY <1>6, <3>3, <3>5 DEF Counted3
        <4>2. q.limit = ImportLimit
          BY <3>5, QuotaFacts
        <4> QED
          BY <3>1, <3>2, <4>1, <4>2
      <3>6. CASE q.table = "conversations"
        <4>1. now \subseteq C
          BY <1>6, <3>3, <3>6 DEF Counted3
        <4>2. q.limit = ConversationLimit
          BY <3>6, QuotaFacts
        <4>3. Cardinality(C) <= ConversationLimit
          BY <1>2, <1>4, <3>2, FS_CardinalityType
        <4> QED
          BY <1>4, <4>1, <4>2, <4>3
      <3> QED
        BY <3>4, <3>5, <3>6, QuotaTables DEF Counted3
    <2> HIDE DEF now
    <2>2. PICK S : IsFiniteSet(S) /\ now \subseteq S /\ Cardinality(S) <= q.limit
      BY <2>1
    <2>3. Cardinality(now) <= Cardinality(S) /\ Cardinality(now) \in Nat /\ Cardinality(S) \in Nat
      BY <2>2, FS_Subset, FS_CardinalityType
    <2>4. Cardinality(now) <= q.limit
      BY <2>2, <2>3, QuotaFacts
    <2> QED
      BY <2>4 DEF now
  <1>9. \A t \in Slots : todo[t] = << >> /\ held[t] = {} /\ DOMAIN wrote[t] = {}
    BY EmptyListed DEF Init
  <1>10. Typed
    <2>1. Shaped(<< >>) /\ IsFiniteSet({})
      BY EmptyListed, FS_EmptySet DEF Shaped
    <2> QED
      BY <1>1, <1>7, <1>9, <2>1 DEF Init, Typed
  <1>11. Exclusive /\ DropsLocked
    BY <1>9 DEF Exclusive, DropsLocked
  <1>12. Guarded
    <2> SUFFICES ASSUME NEW t \in Slots, NEW q \in Quotas PROVE Waiting(t, q)
      BY DEF Guarded
    <2>1. Added(t, q) = {} /\ Planned(t, q) = {}
      BY <1>9, EmptyListed DEF Added, Planned, Of
    <2>2. WillCount(todo[t], Turn(q) \in held[t], q) /\ OneAdds(todo[t], q)
      BY <1>9, EmptyListed DEF WillCount, OneAdds
    <2> QED
      BY <2>1, <2>2 DEF Waiting
  <1> QED
    BY <1>8, <1>10, <1>11, <1>12 DEF Invariant, Within

-----------------------------------------------------------------------------
LEMMA StepHolds == Invariant /\ [Next]_vars => Invariant'
  <1> SUFFICES ASSUME Invariant, [Next]_vars PROVE Invariant'
    OBVIOUS
  <1>1. ASSUME NEW t \in Slots, Request(t) PROVE Invariant'
    BY <1>1, RequestStep
  <1>2. ASSUME NEW t \in Slots, Work(t) PROVE Invariant'
    BY <1>2, WorkStep
  <1>3. ASSUME NEW t \in Slots, Execute(t) PROVE Invariant'
    BY <1>3, ExecuteStep
  <1>4. ASSUME NEW t \in Slots, Skip(t) PROVE Invariant'
    BY <1>4, SkipStep
  <1>5. ASSUME NEW t \in Slots, Check(t) PROVE Invariant'
    BY <1>5, CheckStep
  <1>6. ASSUME NEW t \in Slots, Refuse(t) PROVE Invariant'
    BY <1>6, EndStep DEF Refuse
  <1>7. ASSUME NEW t \in Slots, Commit(t) PROVE Invariant'
    BY <1>7, CommitStep
  <1>8. ASSUME NEW t \in Slots, GiveUp(t) PROVE Invariant'
    BY <1>8, EndStep DEF GiveUp
  <1>9. CASE UNCHANGED vars
    <2> USE <1>9 DEF vars
    <2>1. Typed' /\ Exclusive' /\ DropsLocked' /\ Within'
      BY DEF Invariant, Typed, Idle, Exclusive, DropsLocked, Within
    <2>2. Guarded'
      BY Unmoved DEF Invariant, Guarded
    <2> QED
      BY <2>1, <2>2 DEF Invariant
  <1> QED
    BY <1>1, <1>2, <1>3, <1>4, <1>5, <1>6, <1>7, <1>8, <1>9 DEF Next

(* The transactions that are open hold no conflicting locks, one that has counted holds *)
(* its turn and what it adds fits, and one that has not will: together with what that    *)
(* needs of the statements left to do this is inductive.                                *)
THEOREM LocksGuardQuotas == Spec => []Invariant
  BY InitHolds, StepHolds, PTL DEF Spec

(* However many requests create and retry imports and open conversations at the same    *)
(* time, whatever is removed and rolled back between their statements, no user has more  *)
(* repositories or imports and no repository more conversations than their limits: the   *)
(* lock of the user's or the repository's row makes the counts take turns                *)
(* (services/repository.py:45-76, services/conversations.py:40-60).                      *)
THEOREM QuotasAlwaysHold == Spec => []QuotasHold
  <1>1. Invariant => QuotasHold
    <2> SUFFICES ASSUME Within PROVE QuotasHold
      BY DEF Invariant
    <2>1. \A n, rs, limit, row :
            [table |-> n, among |-> rs, limit |-> limit, row |-> row] \in Quotas =>
              Cardinality({x \in DOMAIN table : x.table = n /\ x.repository \in rs}) <= limit
      BY DEF Within, Of
    <2>2. /\ [table |-> "repositories", among |-> Repositories, limit |-> RepositoryLimit,
              row |-> User] \in Quotas
          /\ [table |-> "import_jobs", among |-> Repositories, limit |-> ImportLimit,
              row |-> User] \in Quotas
          /\ \A r \in Repositories :
               [table |-> "conversations", among |-> {r}, limit |-> ConversationLimit,
                row |-> Repository(r)] \in Quotas
      BY DEF Quotas
    <2> QED
      BY <2>1, <2>2 DEF QuotasHold
  <1> QED
    BY <1>1, LocksGuardQuotas, PTL

-----------------------------------------------------------------------------
(* Orders of locks. A queue's rows are jobs and runs; who reports on one needs it *)
(* active, and who puts another in its place needs it ended.                   *)
Queues == {"import_jobs", "repository_indexes", "search_indexes", "answer_runs"}
Reporting ==
  {"publish_import", "publish_index", "checkpoint", "publish_answer", "receipt", "stop", "expire"}
Replacing == {"retry", "start_index", "start_search"}
Removing == {"remove", "remove_conversation"}

Shared(x) == Hold(x, "key_share")
Altered(x) == Hold(x, "no_key_update")
Whole(x) == Hold(x, "update")

Strong(l) == l.mode \in {"update", "no_key_update"}

(* What a statement of an operation may lock, need and write.                 *)
Sane(k, s) ==
  /\ s.do = "row"
  /\ \A l \in s.locks : Strong(l) /\ l.row.table \in Queues =>
       /\ l.row = s.row
       /\ (k \in Reporting => s.needs = Active) /\ (k \in Replacing => s.needs \subseteq Terminal)
  /\ k \in Reporting => s.sets # "active"
  /\ k \in Replacing => s.sets \notin Terminal
  /\ s.sets \notin {"same", "active"} /\ s.row.table \in Queues =>
       \E l \in s.locks : l.row = s.row /\ Strong(l)
  /\ s.sets = "absent" => k \in Removing /\ s.locks = {Whole(s.row)}

(* Statements all of whose locks are in a set, and which take one of them first, *)
(* or none at all.                                                           *)
Stays(k, p, ls) ==
  /\ Listed(p)
  /\ \A s \in Range(p) : s.do = "count" \/ (Sane(k, s) /\ s.locks \subseteq ls)

Opens(p, l) ==
  p # << >> => /\ p[1].do = "row" /\ l \in p[1].locks
               /\ p[1].ends = States \/ Tail(p) = << >>

(* The locks each operation may take, and the one that it takes first.        *)
Way(k, ls, l) ==
  \/ k = "stop" /\ ls = {l} /\ \E x : x.table \in Queues /\ l = Altered(x)
  \/ k = "expire" /\ \E rows : (\A x \in rows : x.table \in Queues) /\ ls = {Altered(x) : x \in rows}
  \/ \E r \in Repositories, n \in Numbers :
    \/ /\ k = "create" /\ l = Whole(User)
       /\ ls = {Whole(User), Shared(User), Shared(Repository(r))}
    \/ /\ k = "retry" /\ l = Whole(User)
       /\ ls = {Whole(User), Shared(Repository(r))} \cup {Altered(Job(r, m)) : m \in Numbers}
    \/ /\ k = "publish_import" /\ l = Altered(Job(r, n))
       /\ ls = {Altered(Job(r, n)), Shared(Job(r, n)), Altered(Repository(r))}
    \/ /\ k = "start_index" /\ l = Whole(Repository(r))
       /\ ls = {Whole(Repository(r)), Shared(Job(r, 1))} \cup {Altered(Index(r, m)) : m \in Numbers}
    \/ /\ k = "publish_index" /\ l = Altered(Index(r, n))
       /\ ls = {Altered(Index(r, n)), Shared(Index(r, n)), Shared(Row("repository_files", r, 1))}
    \/ /\ k = "start_search" /\ l = Whole(Repository(r))
       /\ ls = {Whole(Repository(r)), Shared(Index(r, 1))} \cup {Altered(Search(r, m)) : m \in Numbers}
    \/ /\ k = "checkpoint" /\ l = Altered(Search(r, n))
       /\ ls = {Altered(Search(r, n)), Shared(Row("code_chunks", r, 1))}
    \/ /\ k = "create_conversation" /\ l = Whole(Repository(r))
       /\ ls = {Whole(Repository(r)), Shared(Repository(r))}
    \/ /\ k = "submit" /\ l = Whole(Conversation(r, n))
       /\ ls = {Whole(Conversation(r, n)), Shared(Conversation(r, n))}
    \/ /\ k = "publish_answer" /\ l = Whole(Conversation(r, n))
       /\ ls = {Whole(Conversation(r, n)), Altered(Run(r, n)), Altered(Conversation(r, n))}
    \/ /\ k = "receipt" /\ l = Whole(Run(r, n)) /\ ls = {l}
    \/ /\ k = "remove" /\ l = Whole(Repository(r))
       /\ ls = {l} \cup {Whole(Row(name, r, m)) : name \in Below, m \in Numbers}
    \/ /\ k = "remove_conversation" /\ l = Whole(Conversation(r, n))
       /\ ls = {l, Whole(Run(r, n))}

Orderly(k, p) ==
  \E ls, l : Way(k, ls, l) /\ Stays(k, p, ls) /\ (k = "expire" \/ Opens(p, l))

-----------------------------------------------------------------------------
(* The fields of the statements.                                             *)
LEMMA LockFields ==
  ASSUME NEW x, NEW needs
  PROVE  LET s == Lock(x, needs)
         IN /\ s.do = "row" /\ s.row = x /\ s.needs = needs /\ s.sets = "same" /\ s.ends = States
            /\ s.locks = {Hold(x, "update")}
  BY DEF Lock, Statement

LEMMA ReadFields ==
  ASSUME NEW x, NEW needs
  PROVE  LET s == Read(x, needs)
         IN /\ s.do = "row" /\ s.row = x /\ s.needs = needs /\ s.sets = "same" /\ s.ends = States
            /\ s.locks = {}
  BY DEF Read, Statement

LEMMA DropFields ==
  ASSUME NEW x
  PROVE  LET s == Drop(x)
         IN /\ s.do = "row" /\ s.row = x /\ s.needs = Existing /\ s.sets = "absent" /\ s.ends = {}
            /\ s.locks = {Hold(x, "update")}
  BY DEF Drop, Statement

LEMMA CountField == ASSUME NEW n, NEW rs, NEW limit PROVE Count(n, rs, limit).do = "count"
  BY DEF Count

(* An insertion is one statement, which locks what its row refers to.           *)
LEMMA InsertFields ==
  ASSUME NEW x, NEW state
  PROVE  \E s : /\ Insert(x, state) = <<s>> /\ s.do = "row" /\ s.row = x /\ s.needs = {"absent"}
                /\ s.sets = state /\ s.locks = {Hold(y, "key_share") : y \in Range(References(x))}
  <1> DEFINE s == Statement({Hold(y, "key_share") : y \in Range(References(x))}, x,
                            {"absent"}, States, state)
  <1>1. /\ s.do = "row" /\ s.row = x /\ s.needs = {"absent"} /\ s.sets = state
        /\ s.locks = {Hold(y, "key_share") : y \in Range(References(x))}
    BY DEF Statement
  <1>2. Insert(x, state) = <<s>>
    BY DEF Insert
  <1> HIDE DEF s
  <1> QED
    BY <1>1, <1>2

(* The rows that a row refers to.                                            *)
LEMMA ReferencesAre ==
  ASSUME NEW r, NEW n
  PROVE  /\ Range(References(Repository(r))) = {User}
         /\ Range(References(Job(r, n))) = {Repository(r)}
         /\ Range(References(Conversation(r, n))) = {Repository(r)}
         /\ Range(References(Row("repository_files", r, n))) = {Job(r, n)}
         /\ Range(References(Index(r, n))) = {Job(r, 1)}
         /\ Range(References(Row("code_chunks", r, n))) = {Index(r, n), Row("repository_files", r, 1)}
         /\ Range(References(Search(r, n))) = {Index(r, 1)}
         /\ Range(References(Run(r, n))) = {Conversation(r, n)}
  <1>1. \A x : Range(<<x>>) = {x}
    BY OneListed
  <1>2. \A x, y : Range(<<x, y>>) = {x, y}
    <2> SUFFICES ASSUME NEW x, NEW y PROVE Range(<<x, y>>) = {x, y}
      OBVIOUS
    <2>1. DOMAIN <<x, y>> = 1..2 /\ <<x, y>>[1] = x /\ <<x, y>>[2] = y
      OBVIOUS
    <2> QED
      BY <2>1 DEF Range
  <1>3. References(Repository(r)) = <<User>>
    BY DEF References, Repository, Row
  <1>4. References(Job(r, n)) = <<Repository(r)>> /\ References(Conversation(r, n)) = <<Repository(r)>>
    BY DEF References, Job, Conversation, Row
  <1>5. References(Row("repository_files", r, n)) = <<Job(r, n)>>
    BY DEF References, Job, Row
  <1>6. References(Index(r, n)) = <<Job(r, 1)>> /\ References(Search(r, n)) = <<Index(r, 1)>>
    BY DEF References, Job, Index, Search, Row
  <1>7. References(Row("code_chunks", r, n)) = <<Index(r, n), Row("repository_files", r, 1)>>
    BY DEF References, Index, Row
  <1>8. References(Run(r, n)) = <<Conversation(r, n)>>
    BY DEF References, Run, Conversation, Row
  <1> QED
    BY <1>1, <1>2, <1>3, <1>4, <1>5, <1>6, <1>7, <1>8

(* The fields of the rows.                                                   *)
LEMMA RowFields ==
  ASSUME NEW r, NEW n
  PROVE  /\ User.table = "users"
         /\ Repository(r).table = "repositories" /\ Repository(r).repository = r
         /\ Job(r, n).table = "import_jobs" /\ Job(r, n).repository = r /\ Job(r, n).number = n
         /\ Index(r, n).table = "repository_indexes" /\ Index(r, n).repository = r
         /\ Search(r, n).table = "search_indexes" /\ Search(r, n).repository = r
         /\ Conversation(r, n).table = "conversations" /\ Conversation(r, n).repository = r
         /\ Conversation(r, n).number = n
         /\ Run(r, n).table = "answer_runs" /\ Run(r, n).repository = r /\ Run(r, n).number = n
         /\ \A name : Row(name, r, n).table = name /\ Row(name, r, n).repository = r
                      /\ Row(name, r, n).number = n
  BY DEF User, Repository, Job, Index, Search, Conversation, Run, Row

(* The fields of the locks.                                                  *)
LEMMA ModeFields ==
  ASSUME NEW x
  PROVE  /\ Shared(x).row = x /\ Shared(x).mode = "key_share" /\ ~Strong(Shared(x))
         /\ Altered(x).row = x /\ Altered(x).mode = "no_key_update" /\ Strong(Altered(x))
         /\ Whole(x).row = x /\ Whole(x).mode = "update" /\ Strong(Whole(x))
  BY DEF Shared, Altered, Whole, Hold, Strong

-----------------------------------------------------------------------------
(* The statements that operations are made of are sane.                       *)
LEMMA SaneLock ==
  ASSUME NEW k, NEW x, NEW needs,
         x.table \in Queues => (k \in Reporting => needs = Active) /\ (k \in Replacing => needs \subseteq Terminal)
  PROVE  Sane(k, Lock(x, needs)) /\ Lock(x, needs).locks = {Whole(x)}
  <1> DEFINE s == Lock(x, needs)
  <1>1. /\ s.do = "row" /\ s.row = x /\ s.needs = needs /\ s.sets = "same"
        /\ s.locks = {Whole(x)}
    BY LockFields DEF Whole
  <1>2. Whole(x).row = x
    BY ModeFields
  <1> HIDE DEF s
  <1>3. Sane(k, s)
    BY <1>1, <1>2, StateNames DEF Sane
  <1> QED
    BY <1>1, <1>3 DEF s

(* A read locks nothing.                                                     *)
LEMMA SaneRead == ASSUME NEW k, NEW x, NEW needs PROVE Sane(k, Read(x, needs)) /\ Read(x, needs).locks = {}
  <1> DEFINE s == Read(x, needs)
  <1>1. /\ s.do = "row" /\ s.row = x /\ s.needs = needs /\ s.sets = "same" /\ s.locks = {}
    BY ReadFields
  <1> HIDE DEF s
  <1>2. Sane(k, s)
    BY <1>1, StateNames DEF Sane
  <1> QED
    BY <1>1, <1>2 DEF s

(* What a change may need and write.                                         *)
Suits(k, x, needs, sets) ==
  /\ sets \in Existing \cup {"same"}
  /\ x.table \in Queues => (k \in Reporting => needs = Active) /\ (k \in Replacing => needs \subseteq Terminal)
  /\ k \in Reporting => sets # "active"
  /\ k \in Replacing => sets \notin Terminal

(* Any statement that changes the row that it locks.                          *)
LEMMA SaneWrite ==
  ASSUME NEW k, NEW x, NEW s, s.do = "row", s.row = x, s.locks = {Altered(x)},
         s.sets \in Existing \cup {"same"},
         x.table \in Queues => (k \in Reporting => s.needs = Active) /\ (k \in Replacing => s.needs \subseteq Terminal),
         k \in Reporting => s.sets # "active", k \in Replacing => s.sets \notin Terminal
  PROVE  Sane(k, s)
  <1>1. Altered(x).row = x /\ Strong(Altered(x))
    BY ModeFields
  <1>2. s.sets # "absent"
    BY StateNames
  <1> QED
    BY <1>1, <1>2 DEF Sane

(* A change locks the row that it changes.                                    *)
LEMMA SaneChange ==
  ASSUME NEW k, NEW x, NEW needs, NEW sets, Suits(k, x, needs, sets), NEW s, s = Change(x, needs, sets)
  PROVE  Sane(k, s) /\ s.locks = {Altered(x)} /\ s.do = "row" /\ s.ends = States
  <1>1. /\ s.do = "row" /\ s.row = x /\ s.needs = needs /\ s.sets = sets /\ s.ends = States
        /\ s.locks = {Altered(x)}
    BY DEF Change, Statement, Altered
  <1>2. Sane(k, s)
    BY <1>1, SaneWrite DEF Suits
  <1> QED
    BY <1>1, <1>2

LEMMA SaneChangeUnless ==
  ASSUME NEW k, NEW x, NEW needs, NEW ends, NEW sets, Suits(k, x, needs, sets),
         NEW s, s = ChangeUnless(x, needs, ends, sets)
  PROVE  Sane(k, s) /\ s.locks = {Altered(x)}
  <1>1. /\ s.do = "row" /\ s.row = x /\ s.needs = needs /\ s.sets = sets
        /\ s.locks = {Altered(x)}
    BY DEF ChangeUnless, Change, Statement, Altered
  <1>2. Sane(k, s)
    BY <1>1, SaneWrite DEF Suits
  <1> QED
    BY <1>1, <1>2

(* Only a removal deletes, and it locks the row that it deletes.               *)
LEMMA SaneDrop ==
  ASSUME NEW k \in Removing, NEW x PROVE Sane(k, Drop(x)) /\ Drop(x).locks = {Whole(x)}
  <1> DEFINE s == Drop(x)
  <1>1. s.do = "row" /\ s.row = x /\ s.sets = "absent" /\ s.locks = {Whole(x)}
    BY DropFields DEF Whole
  <1>2. Whole(x).row = x /\ Strong(Whole(x)) /\ k \notin Reporting /\ k \notin Replacing
    BY ModeFields DEF Removing, Reporting, Replacing
  <1> HIDE DEF s
  <1>3. Sane(k, s)
    BY <1>1, <1>2 DEF Sane
  <1> QED
    BY <1>1, <1>3 DEF s

(* An insertion locks no job or run.                                           *)
LEMMA SaneInsert ==
  ASSUME NEW k, NEW x, NEW state \in Existing,
         k \in Reporting => state # "active", k \in Replacing => state \notin Terminal,
         state = "active" \/ x.table \notin Queues
  PROVE  \E s : /\ Insert(x, state) = <<s>> /\ Sane(k, s)
                /\ s.locks = {Shared(y) : y \in Range(References(x))}
  <1>1. PICK s : /\ Insert(x, state) = <<s>> /\ s.do = "row" /\ s.row = x /\ s.needs = {"absent"}
                 /\ s.sets = state /\ s.locks = {Hold(y, "key_share") : y \in Range(References(x))}
    BY ONLY InsertFields
  <1>2. \A y : ~Strong(Hold(y, "key_share")) /\ Shared(y) = Hold(y, "key_share")
    BY DEF Hold, Strong, Shared
  <1>3. \A l \in s.locks : ~Strong(l)
    BY <1>1, <1>2
  <1>4. s.sets # "absent"
    BY <1>1, StateNames
  <1>5. Sane(k, s)
    BY <1>1, <1>3, <1>4 DEF Sane
  <1>6. s.locks = {Shared(y) : y \in Range(References(x))}
    BY <1>1, <1>2
  <1> QED
    BY <1>1, <1>5, <1>6

-----------------------------------------------------------------------------
(* Statements one after another.                                             *)
LEMMA StaysOne ==
  ASSUME NEW k, NEW ls, NEW s, s.do = "count" \/ (Sane(k, s) /\ s.locks \subseteq ls)
  PROVE  Stays(k, <<s>>, ls)
  BY OneListed DEF Stays

LEMMA StaysInsert ==
  ASSUME NEW k, NEW x, NEW state \in Existing, NEW ls,
         \A y \in Range(References(x)) : Shared(y) \in ls,
         k \in Reporting => state # "active", k \in Replacing => state \notin Terminal,
         state = "active" \/ x.table \notin Queues
  PROVE  Stays(k, Insert(x, state), ls)
  <1>1. PICK s : /\ Insert(x, state) = <<s>> /\ Sane(k, s)
                 /\ s.locks = {Shared(y) : y \in Range(References(x))}
    BY SaneInsert
  <1>2. s.locks \subseteq ls
    BY <1>1
  <1>3. Stays(k, <<s>>, ls)
    BY <1>1, <1>2, StaysOne
  <1> QED
    BY <1>1, <1>3

LEMMA StaysConcat ==
  ASSUME NEW k, NEW ls, NEW a, NEW b, Stays(k, a, ls), Stays(k, b, ls)
  PROVE  Stays(k, a \o b, ls)
  <1>1. Listed(a \o b) /\ Range(a \o b) = Range(a) \cup Range(b)
    BY ConcatListed DEF Stays
  <1> QED
    BY <1>1 DEF Stays

(* Who opens with a lock does so whatever follows.                            *)
Takes(p, l) == p # << >> /\ p[1].do = "row" /\ p[1].ends = States /\ l \in p[1].locks

LEMMA TakesOpens == ASSUME NEW p, NEW l, Takes(p, l) PROVE Opens(p, l)
  BY DEF Takes, Opens

LEMMA TakesConcat ==
  ASSUME NEW a, NEW b, NEW l, Listed(a), Listed(b), Takes(a, l)
  PROVE  Takes(a \o b, l)
  <1>1. a # << >> /\ Len(a) \in Nat /\ Len(a) >= 1 /\ Len(b) \in Nat
    BY ListedFacts DEF Takes
  <1>2. /\ Listed(a \o b) /\ Len(a \o b) = Len(a) + Len(b)
        /\ \A i \in 1..Len(a \o b) : (a \o b)[i] = IF i <= Len(a) THEN a[i] ELSE b[i - Len(a)]
    BY ConcatListed
  <1>3. Len(a \o b) >= 1 /\ Len(a \o b) \in Nat
    BY <1>1, <1>2
  <1>4. (a \o b)[1] = a[1]
    BY <1>1, <1>2, <1>3
  <1>5. a \o b # << >>
    BY <1>3, EmptyListed
  <1> QED
    BY <1>4, <1>5 DEF Takes

LEMMA TakesOne ==
  ASSUME NEW s, NEW l, s.do = "row", s.ends = States, l \in s.locks PROVE Takes(<<s>>, l)
  <1>1. <<s>>[1] = s /\ <<s>> # << >>
    OBVIOUS
  <1> QED
    BY <1>1 DEF Takes

LEMMA TakesLock ==
  ASSUME NEW x, NEW needs PROVE Takes(<<Lock(x, needs)>>, Whole(x))
  <1> DEFINE s == Lock(x, needs)
  <1>1. s.do = "row" /\ s.ends = States /\ s.locks = {Whole(x)}
    BY LockFields DEF Whole
  <1> HIDE DEF s
  <1>2. Takes(<<s>>, Whole(x))
    BY <1>1, TakesOne
  <1> QED
    BY <1>2 DEF s

(* Two or three statements.                                                  *)
LEMMA PairIs ==
  ASSUME NEW a, NEW b
  PROVE  /\ Listed(<<a, b>>) /\ Range(<<a, b>>) = {a, b} /\ Len(<<a, b>>) = 2
         /\ <<a, b>>[1] = a /\ <<a, b>>[2] = b /\ <<a, b>> # << >> /\ <<a>> \o <<b>> = <<a, b>>
  <1>1. /\ <<a, b>> \in Seq({a, b}) /\ DOMAIN <<a, b>> = 1..2 /\ Len(<<a, b>>) = 2
        /\ <<a, b>>[1] = a /\ <<a, b>>[2] = b /\ <<a, b>> # << >>
    OBVIOUS
  <1>3. <<a>> \o <<b>> = <<a, b>>
    <2> DEFINE p == <<a>>
               q == <<b>>
               pq == <<a, b>>
    <2>1. /\ Listed(p) /\ Listed(q) /\ Len(p) = 1 /\ Len(q) = 1 /\ p[1] = a /\ q[1] = b
      BY OneListed
    <2>2. pq \in Seq({a, b}) /\ Len(pq) = 2 /\ pq[1] = a /\ pq[2] = b
      BY <1>1
    <2> HIDE DEF p, q, pq
    <2>3. /\ Listed(p \o q) /\ Len(p \o q) = 2
          /\ \A i \in 1..2 : (p \o q)[i] = IF i <= 1 THEN p[i] ELSE q[i - 1]
      <3>1. /\ Listed(p \o q) /\ Len(p \o q) = Len(p) + Len(q)
            /\ \A i \in 1..Len(p \o q) : (p \o q)[i] = IF i <= Len(p) THEN p[i] ELSE q[i - Len(p)]
        BY <2>1, ConcatListed
      <3> QED
        BY <3>1, <2>1
    <2>4. (p \o q)[1] = pq[1] /\ (p \o q)[2] = pq[2]
      BY <2>1, <2>2, <2>3
    <2>5. \A i \in 1..2 : (p \o q)[i] = pq[i]
      <3>1. \A i \in 1..2 : i = 1 \/ i = 2
        OBVIOUS
      <3> QED
        BY <3>1, <2>4
    <2>6. p \o q = pq
      BY <2>2, <2>3, <2>5, SeqEqual DEF Listed
    <2> QED
      BY <2>6 DEF p, q, pq
  <1>2. Range(<<a, b>>) = {a, b}
    BY <1>1 DEF Range
  <1> QED
    BY <1>1, <1>2, <1>3 DEF Listed

(* Lists that begin with one or two statements.                              *)
LEMMA OneThen ==
  ASSUME NEW a, NEW b, NEW p, p = <<a>>, NEW q, q = <<b>> PROVE p \o q = <<a, b>>
  BY PairIs

LEMMA PairThen ==
  ASSUME NEW a, NEW b, NEW c, NEW p, p = <<a, b>>, NEW q, q = <<c>> PROVE p \o q = <<a, b, c>>
  <1> DEFINE abc == <<a, b, c>>
  <1>1. /\ Listed(p) /\ Listed(q) /\ Len(p) = 2 /\ Len(q) = 1 /\ p[1] = a /\ p[2] = b /\ q[1] = c
    BY OneListed, PairIs
  <1>2. abc \in Seq({a, b, c}) /\ Len(abc) = 3 /\ abc[1] = a /\ abc[2] = b /\ abc[3] = c
    OBVIOUS
  <1> HIDE DEF abc
  <1>3. /\ Listed(p \o q) /\ Len(p \o q) = 3
        /\ \A i \in 1..3 : (p \o q)[i] = IF i <= 2 THEN p[i] ELSE q[i - 2]
    <2>1. /\ Listed(p \o q) /\ Len(p \o q) = Len(p) + Len(q)
          /\ \A i \in 1..Len(p \o q) : (p \o q)[i] = IF i <= Len(p) THEN p[i] ELSE q[i - Len(p)]
      BY <1>1, ConcatListed
    <2> QED
      BY <2>1, <1>1
  <1>4. (p \o q)[1] = abc[1] /\ (p \o q)[2] = abc[2] /\ (p \o q)[3] = abc[3]
    BY <1>1, <1>2, <1>3
  <1>5. \A i \in 1..3 : (p \o q)[i] = abc[i]
    <2>1. \A i \in 1..3 : i = 1 \/ i = 2 \/ i = 3
      OBVIOUS
    <2> QED
      BY <2>1, <1>4
  <1>6. p \o q = abc
    BY <1>2, <1>3, <1>5, SeqEqual DEF Listed
  <1> QED
    BY <1>6 DEF abc

-----------------------------------------------------------------------------
(* The operations.                                                           *)
LEMMA QuotaOpens ==
  ASSUME NEW k, NEW ls, Whole(User) \in ls
  PROVE  Stays(k, Quota, ls) /\ Takes(Quota, Whole(User)) /\ Listed(Quota)
  <1> DEFINE a == Lock(User, {"present"})
             b == Count("import_jobs", Repositories, ImportLimit)
  <1>1. Sane(k, a) /\ a.locks = {Whole(User)} /\ b.do = "count"
    <2>1. User.table \notin Queues
      BY RowFields DEF Queues, User, Row
    <2> QED
      BY <2>1, SaneLock, CountField
  <1>2. a.do = "row" /\ a.ends = States
    BY LockFields
  <1>3. Quota = <<a, b>>
    BY DEF Quota
  <1> HIDE DEF a, b
  <1>4. /\ Listed(<<a, b>>) /\ Range(<<a, b>>) = {a, b} /\ <<a, b>>[1] = a /\ <<a, b>> # << >>
    BY PairIs
  <1>5. Stays(k, <<a, b>>, ls)
    BY <1>1, <1>4 DEF Stays
  <1>6. Takes(<<a, b>>, Whole(User))
    BY <1>1, <1>2, <1>4 DEF Takes
  <1> QED
    BY <1>3, <1>4, <1>5, <1>6

(* Who has opened stays on its way.                                          *)
LEMMA GoesOn ==
  ASSUME NEW k, NEW ls, NEW l, NEW a, NEW b, Stays(k, a, ls), Takes(a, l), Stays(k, b, ls)
  PROVE  Stays(k, a \o b, ls) /\ Takes(a \o b, l)
  BY StaysConcat, TakesConcat DEF Stays

(* Every operation is orderly.                                               *)
LEMMA CreateOrderly ==
  ASSUME NEW r \in Repositories, NEW n \in Numbers PROVE Orderly("create", CreateRepository(r, n))
  <1> DEFINE k == "create"
             ls == {Whole(User), Shared(User), Shared(Repository(r))}
             a == Count("repositories", Repositories, RepositoryLimit)
             b == Insert(Repository(r), "present")
             c == Insert(Job(r, n), "active")
  <1>1. Way(k, ls, Whole(User))
    BY DEF Way
  <1>2. k \notin Reporting /\ k \notin Replacing
    BY DEF Reporting, Replacing
  <1>3. Stays(k, b, ls)
    <2>1. \A y \in Range(References(Repository(r))) : Shared(y) \in ls
      BY ReferencesAre
    <2>2. Repository(r).table \notin Queues
      BY RowFields DEF Queues
    <2> QED
      BY <1>2, <2>1, <2>2, StaysInsert, StateNames
  <1>4. Stays(k, c, ls)
    <2>1. \A y \in Range(References(Job(r, n))) : Shared(y) \in ls
      BY ReferencesAre
    <2> QED
      BY <1>2, <2>1, StaysInsert, StateNames
  <1>5. Stays(k, Quota, ls) /\ Takes(Quota, Whole(User))
    BY QuotaOpens
  <1>6. Stays(k, <<a>>, ls)
    BY CountField, StaysOne
  <1>7. CreateRepository(r, n) = ((Quota \o <<a>>) \o b) \o c
    BY DEF CreateRepository
  <1> HIDE DEF ls, a, b, c
  <1>8. Stays(k, ((Quota \o <<a>>) \o b) \o c, ls) /\ Takes(((Quota \o <<a>>) \o b) \o c, Whole(User))
    BY <1>3, <1>4, <1>5, <1>6, GoesOn
  <1> QED
    BY <1>1, <1>7, <1>8, TakesOpens DEF Orderly

LEMMA RetryOrderly ==
  ASSUME NEW r \in Repositories, NEW old \in Numbers, NEW n \in Numbers
  PROVE  Orderly("retry", RetryImport(r, old, n))
  <1> DEFINE k == "retry"
             ls == {Whole(User), Shared(Repository(r))} \cup {Altered(Job(r, m)) : m \in Numbers}
             a == Change(Job(r, old), {"stopped"}, "replaced")
             b == Insert(Job(r, n), "active")
  <1>1. Way(k, ls, Whole(User))
    BY DEF Way
  <1>2. k \notin Reporting
    BY DEF Reporting
  <1>3. Stays(k, b, ls)
    <2>1. \A y \in Range(References(Job(r, n))) : Shared(y) \in ls
      BY ReferencesAre
    <2> QED
      BY <1>2, <2>1, StaysInsert, StateNames
  <1>4. Stays(k, <<a>>, ls)
    <2>0. Suits(k, Job(r, old), {"stopped"}, "replaced") /\ a = Change(Job(r, old), {"stopped"}, "replaced")
      BY <1>2, StateNames DEF Suits
    <2> HIDE DEF a, k
    <2>1. Sane(k, a) /\ a.locks = {Altered(Job(r, old))}
      BY <2>0, SaneChange
    <2> QED
      BY <2>1, StaysOne
  <1>5. Stays(k, Quota, ls) /\ Takes(Quota, Whole(User))
    BY QuotaOpens
  <1>7. RetryImport(r, old, n) = (Quota \o <<a>>) \o b
    BY DEF RetryImport
  <1> HIDE DEF ls, a, b
  <1>8. Stays(k, (Quota \o <<a>>) \o b, ls) /\ Takes((Quota \o <<a>>) \o b, Whole(User))
    BY <1>3, <1>4, <1>5, GoesOn
  <1> QED
    BY <1>1, <1>7, <1>8, TakesOpens DEF Orderly

LEMMA PublishImportOrderly ==
  ASSUME NEW r \in Repositories, NEW n \in Numbers PROVE Orderly("publish_import", PublishImport(r, n))
  <1> DEFINE k == "publish_import"
             l == Altered(Job(r, n))
             ls == {Altered(Job(r, n)), Shared(Job(r, n)), Altered(Repository(r))}
             a == Change(Job(r, n), Active, "completed")
             b == Insert(Row("repository_files", r, n), "present")
             c == Change(Repository(r), {"present"}, "same")
  <1>1. Way(k, ls, l)
    BY DEF Way
  <1>2. k \notin Replacing
    BY DEF Replacing
  <1>a. a = Change(Job(r, n), Active, "completed")
    OBVIOUS
  <1>3. Sane(k, a) /\ a.locks = {l} /\ a.do = "row" /\ a.ends = States
    <2>1. Suits(k, Job(r, n), Active, "completed")
      BY <1>2, StateNames DEF Suits
    <2> HIDE DEF a, k
    <2> QED
      BY <2>1, <1>a, SaneChange
  <1>4. Sane(k, c) /\ c.locks = {Altered(Repository(r))}
    <2>1. Repository(r).table \notin Queues
      BY RowFields DEF Queues
    <2>2. Suits(k, Repository(r), {"present"}, "same") /\ c = Change(Repository(r), {"present"}, "same")
      BY <1>2, <2>1, StateNames DEF Suits
    <2> HIDE DEF c, k
    <2> QED
      BY <2>2, SaneChange
  <1>5. Stays(k, b, ls)
    <2>1. Row("repository_files", r, n).table \notin Queues
      BY DEF Row, Queues
    <2>2. \A y \in Range(References(Row("repository_files", r, n))) : Shared(y) \in ls
      BY ReferencesAre
    <2> QED
      BY <1>2, <2>1, <2>2, StaysInsert, StateNames
  <1>6. Stays(k, <<c>>, ls)
    BY <1>4, StaysOne
  <1>7. PublishImport(r, n) = (<<a>> \o b) \o <<c>>
    BY DEF PublishImport
  <1> HIDE DEF a, c
  <1>8. Stays(k, <<a>>, ls) /\ Takes(<<a>>, l)
    BY <1>3, StaysOne, TakesOne
  <1> HIDE DEF ls, b, l
  <1>9. Stays(k, (<<a>> \o b) \o <<c>>, ls) /\ Takes((<<a>> \o b) \o <<c>>, l)
    BY <1>5, <1>6, <1>8, GoesOn
  <1> QED
    BY <1>1, <1>7, <1>9, TakesOpens DEF Orderly

LEMMA PublishIndexOrderly ==
  ASSUME NEW r \in Repositories, NEW n \in Numbers PROVE Orderly("publish_index", PublishIndex(r, n))
  <1> DEFINE k == "publish_index"
             l == Altered(Index(r, n))
             ls == {Altered(Index(r, n)), Shared(Index(r, n)), Shared(Row("repository_files", r, 1))}
             a == Change(Index(r, n), Active, "completed")
             b == Insert(Row("code_chunks", r, n), "present")
  <1>1. Way(k, ls, l)
    BY DEF Way
  <1>2. k \notin Replacing
    BY DEF Replacing
  <1>a. a = Change(Index(r, n), Active, "completed")
    OBVIOUS
  <1>3. Sane(k, a) /\ a.locks = {l} /\ a.do = "row" /\ a.ends = States
    <2>1. Suits(k, Index(r, n), Active, "completed")
      BY <1>2, StateNames DEF Suits
    <2> HIDE DEF a, k
    <2> QED
      BY <2>1, <1>a, SaneChange
  <1>5. Stays(k, b, ls)
    <2>1. Row("code_chunks", r, n).table \notin Queues
      BY DEF Row, Queues
    <2>2. \A y \in Range(References(Row("code_chunks", r, n))) : Shared(y) \in ls
      BY ReferencesAre
    <2> QED
      BY <1>2, <2>1, <2>2, StaysInsert, StateNames
  <1>7. PublishIndex(r, n) = <<a>> \o b
    BY DEF PublishIndex
  <1> HIDE DEF a
  <1>8. Stays(k, <<a>>, ls) /\ Takes(<<a>>, l)
    BY <1>3, StaysOne, TakesOne
  <1> HIDE DEF ls, b, l
  <1>9. Stays(k, <<a>> \o b, ls) /\ Takes(<<a>> \o b, l)
    BY <1>5, <1>8, GoesOn
  <1> QED
    BY <1>1, <1>7, <1>9, TakesOpens DEF Orderly

LEMMA CheckpointOrderly ==
  ASSUME NEW r \in Repositories, NEW n \in Numbers PROVE Orderly("checkpoint", Checkpoint(r, n))
  <1> DEFINE k == "checkpoint"
             l == Altered(Search(r, n))
             x == Row("code_chunks", r, 1)
             ls == {Altered(Search(r, n)), Shared(x)}
             a == Change(Search(r, n), Active, "same")
             b == Statement({Hold(x, "key_share")}, x, Existing, States, "same")
  <1>1. Way(k, ls, l)
    BY DEF Way
  <1>2. k \notin Replacing
    BY DEF Replacing
  <1>a. a = Change(Search(r, n), Active, "same")
    OBVIOUS
  <1>3. Sane(k, a) /\ a.locks = {l} /\ a.do = "row" /\ a.ends = States
    <2>1. Suits(k, Search(r, n), Active, "same")
      BY <1>2, StateNames DEF Suits
    <2> HIDE DEF a, k
    <2> QED
      BY <2>1, <1>a, SaneChange
  <1>5. Sane(k, b) /\ b.locks = {Shared(x)}
    <2>1. b.do = "row" /\ b.sets = "same" /\ b.locks = {Shared(x)}
      BY DEF Statement, Shared
    <2>2. ~Strong(Shared(x))
      BY ModeFields
    <2> HIDE DEF b, x
    <2> QED
      BY <2>1, <2>2, StateNames DEF Sane
  <1>7. Checkpoint(r, n) = <<a, b>>
    BY DEF Checkpoint
  <1> HIDE DEF a, b
  <1>8. /\ Stays(k, <<a>>, ls) /\ Takes(<<a>>, l) /\ Stays(k, <<b>>, ls) /\ <<a>> \o <<b>> = <<a, b>>
    BY <1>3, <1>5, StaysOne, TakesOne, PairIs
  <1> HIDE DEF ls, l
  <1>9. Stays(k, <<a, b>>, ls) /\ Takes(<<a, b>>, l)
    <2> DEFINE pa == <<a>>
               pb == <<b>>
    <2>1. Stays(k, pa, ls) /\ Takes(pa, l) /\ Stays(k, pb, ls) /\ pa \o pb = <<a, b>>
      BY <1>8
    <2> HIDE DEF pa, pb
    <2>2. Stays(k, pa \o pb, ls) /\ Takes(pa \o pb, l)
      BY <2>1, GoesOn
    <2> QED
      BY <2>1, <2>2
  <1> QED
    BY <1>1, <1>7, <1>9, TakesOpens DEF Orderly

(* The rest of a queue is changed only where it has ended.                     *)
LEMMA ReplaceStays ==
  ASSUME NEW k \in Replacing, k \notin Reporting, NEW r, NEW n, NEW ls
  PROVE  /\ (\A m \in Numbers : Altered(Index(r, m)) \in ls) => Stays(k, Replace(Index, r, n), ls)
         /\ (\A m \in Numbers : Altered(Search(r, m)) \in ls) => Stays(k, Replace(Search, r, n), ls)
  <1> DEFINE others == SetToSeq(Numbers \ {n})
             m == Cardinality(Numbers \ {n})
             Made(x) == ChangeUnless(x, Terminal, Active, "replaced")
             p == [i \in DOMAIN others |-> Made(Index(r, others[i]))]
             q == [i \in DOMAIN others |-> Made(Search(r, others[i]))]
  <1>1. IsFiniteSet(Numbers \ {n})
    <2>1. IsFiniteSet(Numbers)
      BY LockBounds, FS_Interval DEF Numbers
    <2> QED
      BY <2>1, FS_Subset
  <1>2. m \in Nat /\ DOMAIN others = 1..m /\ \A i \in DOMAIN others : others[i] \in Numbers
    BY <1>1, SetListed, SetMembers
  <1>3. ASSUME NEW x PROVE Sane(k, Made(x)) /\ Made(x).locks = {Altered(x)}
    <2>1. Suits(k, x, Terminal, "replaced")
      BY StateNames DEF Suits
    <2>2. \A s : s = ChangeUnless(x, Terminal, Active, "replaced") => Sane(k, s) /\ s.locks = {Altered(x)}
      BY <2>1, SaneChangeUnless
    <2> QED
      BY <2>2
  <1>4. Replace(Index, r, n) = p /\ Replace(Search, r, n) = q
    BY DEF Replace
  <1> HIDE DEF Made, others, m
  <1>5. Listed(p) /\ Listed(q)
    BY <1>2, FunctionListed
  <1>6. ASSUME \A i \in Numbers : Altered(Index(r, i)) \in ls PROVE Stays(k, p, ls)
    <2>1. \A s \in Range(p) : Sane(k, s) /\ s.locks \subseteq ls
      BY <1>2, <1>3, <1>6 DEF Range
    <2> QED
      BY <1>5, <2>1 DEF Stays
  <1>7. ASSUME \A i \in Numbers : Altered(Search(r, i)) \in ls PROVE Stays(k, q, ls)
    <2>1. \A s \in Range(q) : Sane(k, s) /\ s.locks \subseteq ls
      BY <1>2, <1>3, <1>7 DEF Range
    <2> QED
      BY <1>5, <2>1 DEF Stays
  <1> QED
    BY <1>4, <1>6, <1>7

(* The repository's lock and a look at what there is to work on.               *)
LEMMA BeginsWithRepository ==
  ASSUME NEW k, NEW r, NEW x, NEW ls, Whole(Repository(r)) \in ls
  PROVE  LET p == <<Lock(Repository(r), {"present"}), Read(x, {"completed"})>>
         IN Listed(p) /\ Stays(k, p, ls) /\ Takes(p, Whole(Repository(r)))
  <1> DEFINE a == Lock(Repository(r), {"present"})
             b == Read(x, {"completed"})
  <1>1. Sane(k, a) /\ a.locks = {Whole(Repository(r))}
    <2>1. Repository(r).table \notin Queues
      BY RowFields DEF Queues
    <2> QED
      BY <2>1, SaneLock
  <1>2. a.do = "row" /\ a.ends = States
    BY LockFields
  <1>3. Sane(k, b) /\ b.locks = {}
    BY SaneRead
  <1> HIDE DEF a, b
  <1>4. /\ Listed(<<a, b>>) /\ Range(<<a, b>>) = {a, b} /\ <<a, b>>[1] = a /\ <<a, b>> # << >>
    BY PairIs
  <1>5. Stays(k, <<a, b>>, ls)
    BY <1>1, <1>3, <1>4 DEF Stays
  <1>6. Takes(<<a, b>>, Whole(Repository(r)))
    BY <1>1, <1>2, <1>4 DEF Takes
  <1> QED
    BY <1>4, <1>5, <1>6 DEF a, b

LEMMA StartIndexOrderly ==
  ASSUME NEW r \in Repositories, NEW n \in Numbers PROVE Orderly("start_index", StartIndex(r, n))
  <1> DEFINE k == "start_index"
             l == Whole(Repository(r))
             ls == {Whole(Repository(r)), Shared(Job(r, 1))} \cup {Altered(Index(r, m)) : m \in Numbers}
             a == <<Lock(Repository(r), {"present"}), Read(Job(r, 1), {"completed"})>>
             b == Replace(Index, r, n)
             c == Insert(Index(r, n), "active")
  <1>1. Way(k, ls, l)
    BY DEF Way
  <1>2. k \notin Reporting /\ k \in Replacing
    BY DEF Reporting, Replacing
  <1>3. Stays(k, a, ls) /\ Takes(a, l)
    BY BeginsWithRepository
  <1>4. Stays(k, b, ls)
    BY <1>2, ReplaceStays
  <1>5. Stays(k, c, ls)
    <2>1. \A y \in Range(References(Index(r, n))) : Shared(y) \in ls
      BY ReferencesAre
    <2> QED
      BY <1>2, <2>1, StaysInsert, StateNames
  <1>6. StartIndex(r, n) = (a \o b) \o c
    BY DEF StartIndex
  <1> HIDE DEF ls, l, a, b, c
  <1>7. Stays(k, (a \o b) \o c, ls) /\ Takes((a \o b) \o c, l)
    BY <1>3, <1>4, <1>5, GoesOn
  <1> QED
    BY <1>1, <1>6, <1>7, TakesOpens DEF Orderly

LEMMA StartSearchOrderly ==
  ASSUME NEW r \in Repositories, NEW n \in Numbers
  PROVE  Orderly("start_search", StartSearch(r, n)) /\ Orderly("start_search", ResumeSearch(r, n))
  <1> DEFINE k == "start_search"
             l == Whole(Repository(r))
             ls == {Whole(Repository(r)), Shared(Index(r, 1))} \cup {Altered(Search(r, m)) : m \in Numbers}
             a1 == Lock(Repository(r), {"present"})
             a2 == Read(Index(r, 1), {"completed"})
             a == <<a1, a2>>
             b == Replace(Search, r, n)
             c == Insert(Search(r, n), "active")
             d == Change(Search(r, n), {"stopped"}, "active")
  <1>1. Way(k, ls, l)
    BY DEF Way
  <1>2. k \notin Reporting /\ k \in Replacing
    BY DEF Reporting, Replacing
  <1>3. Stays(k, a, ls) /\ Takes(a, l)
    BY BeginsWithRepository
  <1>4. Stays(k, b, ls)
    BY <1>2, ReplaceStays
  <1>5. Stays(k, c, ls)
    <2>1. \A y \in Range(References(Search(r, n))) : Shared(y) \in ls
      BY ReferencesAre
    <2> QED
      BY <1>2, <2>1, StaysInsert, StateNames
  <1>8. Stays(k, <<d>>, ls)
    <2>1. Suits(k, Search(r, n), {"stopped"}, "active") /\ d = Change(Search(r, n), {"stopped"}, "active")
      BY <1>2, StateNames DEF Suits
    <2> HIDE DEF d, k
    <2>2. Sane(k, d) /\ d.locks = {Altered(Search(r, n))}
      BY <2>1, SaneChange
    <2> QED
      BY <2>2, StaysOne
  <1>6. StartSearch(r, n) = (a \o b) \o c
    BY DEF StartSearch
  <1>9. ResumeSearch(r, n) = <<a1, a2, d>>
    BY DEF ResumeSearch
  <1> HIDE DEF a1, a2, d
  <1>10. a \o <<d>> = <<a1, a2, d>>
    <2> DEFINE e == <<d>>
    <2>1. a = <<a1, a2>> /\ e = <<d>>
      OBVIOUS
    <2> HIDE DEF a, e
    <2>2. a \o e = <<a1, a2, d>>
      BY ONLY <2>1, PairThen
    <2> QED
      BY <2>2 DEF e
  <1> HIDE DEF ls, l, a, b, c
  <1>7. Stays(k, (a \o b) \o c, ls) /\ Takes((a \o b) \o c, l)
    BY <1>3, <1>4, <1>5, GoesOn
  <1>11. Stays(k, a \o <<d>>, ls) /\ Takes(a \o <<d>>, l)
    BY <1>3, <1>8, GoesOn
  <1>12. Orderly("start_search", StartSearch(r, n))
    BY <1>1, <1>6, <1>7, TakesOpens DEF Orderly
  <1>13. Orderly("start_search", ResumeSearch(r, n))
    BY <1>1, <1>9, <1>10, <1>11, TakesOpens DEF Orderly
  <1> QED
    BY <1>12, <1>13

LEMMA CreateConversationOrderly ==
  ASSUME NEW r \in Repositories, NEW n \in Numbers
  PROVE  Orderly("create_conversation", CreateConversation(r, n))
  <1> DEFINE k == "create_conversation"
             l == Whole(Repository(r))
             ls == {Whole(Repository(r)), Shared(Repository(r))}
             a == Lock(Repository(r), {"present"})
             b == Count("conversations", {r}, ConversationLimit)
             c == Insert(Conversation(r, n), "present")
  <1>1. Way(k, ls, l)
    BY DEF Way
  <1>2. k \notin Reporting /\ k \notin Replacing
    BY DEF Reporting, Replacing
  <1>3. Sane(k, a) /\ a.locks = {l}
    <2>1. Repository(r).table \notin Queues
      BY RowFields DEF Queues
    <2> QED
      BY <2>1, SaneLock
  <1>4. Takes(<<a>>, l) /\ b.do = "count"
    BY TakesLock, CountField
  <1>5. Stays(k, c, ls)
    <2>1. \A y \in Range(References(Conversation(r, n))) : Shared(y) \in ls
      BY ReferencesAre
    <2>2. Conversation(r, n).table \notin Queues
      BY RowFields DEF Queues
    <2> QED
      BY <1>2, <2>1, <2>2, StaysInsert, StateNames
  <1>6. CreateConversation(r, n) = <<a, b>> \o c
    BY DEF CreateConversation
  <1> HIDE DEF a, b
  <1>7. Stays(k, <<a>>, ls) /\ Stays(k, <<b>>, ls) /\ <<a>> \o <<b>> = <<a, b>>
    BY <1>3, <1>4, StaysOne, PairIs
  <1> HIDE DEF ls, l, c
  <1> DEFINE pa == <<a>>
             pb == <<b>>
  <1>8. Stays(k, pa, ls) /\ Stays(k, pb, ls) /\ pa \o pb = <<a, b>> /\ Takes(pa, l)
    BY <1>4, <1>7
  <1> HIDE DEF pa, pb
  <1>9. Stays(k, (pa \o pb) \o c, ls) /\ Takes((pa \o pb) \o c, l)
    BY <1>5, <1>8, GoesOn
  <1> QED
    BY <1>1, <1>6, <1>8, <1>9, TakesOpens DEF Orderly

LEMMA SubmitOrderly ==
  ASSUME NEW r \in Repositories, NEW n \in Numbers PROVE Orderly("submit", Submit(r, n))
  <1> DEFINE k == "submit"
             l == Whole(Conversation(r, n))
             ls == {Whole(Conversation(r, n)), Shared(Conversation(r, n))}
             a == Lock(Conversation(r, n), {"present"})
             c == Insert(Run(r, n), "active")
  <1>1. Way(k, ls, l)
    BY DEF Way
  <1>2. k \notin Reporting /\ k \notin Replacing
    BY DEF Reporting, Replacing
  <1>3. Sane(k, a) /\ a.locks = {l}
    <2>1. Conversation(r, n).table \notin Queues
      BY RowFields DEF Queues
    <2> QED
      BY <2>1, SaneLock
  <1>4. Takes(<<a>>, l)
    BY TakesLock
  <1>5. Stays(k, c, ls)
    <2>1. \A y \in Range(References(Run(r, n))) : Shared(y) \in ls
      BY ReferencesAre
    <2> QED
      BY <1>2, <2>1, StaysInsert, StateNames
  <1>6. Submit(r, n) = <<a>> \o c
    BY DEF Submit
  <1> HIDE DEF a
  <1>7. Stays(k, <<a>>, ls)
    BY <1>3, StaysOne
  <1> HIDE DEF ls, l, c
  <1>8. Stays(k, <<a>> \o c, ls) /\ Takes(<<a>> \o c, l)
    BY <1>4, <1>5, <1>7, GoesOn
  <1> QED
    BY <1>1, <1>6, <1>8, TakesOpens DEF Orderly

LEMMA PublishAnswerOrderly ==
  ASSUME NEW r \in Repositories, NEW n \in Numbers PROVE Orderly("publish_answer", PublishAnswer(r, n))
  <1> DEFINE k == "publish_answer"
             l == Whole(Conversation(r, n))
             ls == {Whole(Conversation(r, n)), Altered(Run(r, n)), Altered(Conversation(r, n))}
             a == Lock(Conversation(r, n), {"present"})
             b == Change(Run(r, n), Active, "completed")
             c == Change(Conversation(r, n), {"present"}, "same")
  <1>1. Way(k, ls, l)
    BY DEF Way
  <1>2. k \notin Replacing
    BY DEF Replacing
  <1>3. Conversation(r, n).table \notin Queues
    BY RowFields DEF Queues
  <1>4. Sane(k, a) /\ a.locks = {l} /\ Takes(<<a>>, l)
    BY <1>3, SaneLock, TakesLock
  <1>5. Sane(k, b) /\ b.locks = {Altered(Run(r, n))}
    <2>1. Suits(k, Run(r, n), Active, "completed") /\ b = Change(Run(r, n), Active, "completed")
      BY <1>2, StateNames DEF Suits
    <2> HIDE DEF b, k
    <2> QED
      BY <2>1, SaneChange
  <1>6. Sane(k, c) /\ c.locks = {Altered(Conversation(r, n))}
    <2>1. Suits(k, Conversation(r, n), {"present"}, "same") /\ c = Change(Conversation(r, n), {"present"}, "same")
      BY <1>2, <1>3, StateNames DEF Suits
    <2> HIDE DEF c, k
    <2> QED
      BY <2>1, SaneChange
  <1>7. PublishAnswer(r, n) = <<a, b, c>>
    BY DEF PublishAnswer
  <1> HIDE DEF a, b, c
  <1> DEFINE pa == <<a>>
             pb == <<b>>
             pc == <<c>>
  <1>8. /\ Stays(k, pa, ls) /\ Stays(k, pb, ls) /\ Stays(k, pc, ls)
        /\ (pa \o pb) \o pc = <<a, b, c>> /\ Takes(pa, l)
    <2>1. Stays(k, pa, ls) /\ Stays(k, pb, ls) /\ Stays(k, pc, ls)
      BY <1>4, <1>5, <1>6, StaysOne
    <2>2. pa = <<a>> /\ pb = <<b>> /\ pc = <<c>>
      OBVIOUS
    <2>3. Takes(pa, l)
      BY <1>4
    <2> HIDE DEF pa, pb, pc
    <2>4. (pa \o pb) \o pc = <<a, b, c>>
      <3> DEFINE pab == pa \o pb
      <3>1. pab = <<a, b>>
        BY ONLY <2>2, OneThen
      <3> HIDE DEF pab
      <3>2. pab \o pc = <<a, b, c>>
        BY ONLY <2>2, <3>1, PairThen
      <3> QED
        BY <3>2 DEF pab
    <2> QED
      BY <2>1, <2>3, <2>4
  <1> HIDE DEF ls, l, pa, pb, pc
  <1>9. Stays(k, (pa \o pb) \o pc, ls) /\ Takes((pa \o pb) \o pc, l)
    BY <1>8, GoesOn
  <1> QED
    BY <1>1, <1>7, <1>8, <1>9, TakesOpens DEF Orderly

LEMMA ReceiptOrderly ==
  ASSUME NEW r \in Repositories, NEW n \in Numbers PROVE Orderly("receipt", BeginReceipt(r, n))
  <1> DEFINE k == "receipt"
             l == Whole(Run(r, n))
             a == Lock(Run(r, n), Active)
  <1>1. Way(k, {l}, l)
    BY DEF Way
  <1>2. k \notin Replacing
    BY DEF Replacing
  <1>4. Sane(k, a) /\ a.locks = {l} /\ Takes(<<a>>, l)
    BY <1>2, SaneLock, TakesLock
  <1>7. BeginReceipt(r, n) = <<a>>
    BY DEF BeginReceipt
  <1> HIDE DEF a, l
  <1>8. Stays(k, <<a>>, {l})
    BY <1>4, StaysOne
  <1> QED
    BY <1>1, <1>4, <1>7, <1>8, TakesOpens DEF Orderly

LEMMA StopOrderly ==
  ASSUME NEW x, x.table \in Queues
  PROVE  Orderly("stop", Stop(x))
  <1> DEFINE k == "stop"
             l == Altered(x)
             a == Change(x, Active, "stopped")
  <1>1. Way(k, {l}, l)
    BY DEF Way
  <1>2. k \notin Replacing
    BY DEF Replacing
  <1>5. Sane(k, a) /\ a.locks = {l} /\ a.do = "row" /\ a.ends = States
    <2>1. Suits(k, x, Active, "stopped") /\ a = Change(x, Active, "stopped")
      BY <1>2, StateNames DEF Suits
    <2> HIDE DEF a, k
    <2> QED
      BY <2>1, SaneChange
  <1>7. Stop(x) = <<a>>
    BY DEF Stop
  <1> HIDE DEF a, l
  <1>8. Stays(k, <<a>>, {l}) /\ Takes(<<a>>, l)
    BY <1>5, StaysOne, TakesOne
  <1> QED
    BY <1>1, <1>7, <1>8, TakesOpens DEF Orderly

LEMMA ExpireOrderly ==
  ASSUME NEW S, IsFiniteSet(S), \A x \in S : x.table \in Queues, NEW rows \in SetToAllKPermutations(S)
  PROVE  Orderly("expire", Expire(rows))
  <1> DEFINE k == "expire"
             ls == {Altered(x) : x \in S}
             Made(x) == ChangeUnless(x, Active, {}, "stopped")
             p == [i \in DOMAIN rows |-> Made(rows[i])]
  <1>1. PICK T \in SUBSET S : rows \in SetToSeqs(T)
    BY DEF SetToAllKPermutations
  <1>2. IsFiniteSet(T)
    BY FS_Subset
  <1>3. /\ Cardinality(T) \in Nat /\ DOMAIN rows = 1..Cardinality(T)
        /\ \A i \in DOMAIN rows : rows[i] \in S
    BY <1>1, <1>2, FS_CardinalityType DEF SetToSeqs
  <1>4. k \notin Replacing
    BY DEF Replacing
  <1>5. ASSUME NEW x PROVE Sane(k, Made(x)) /\ Made(x).locks = {Altered(x)}
    <2>1. Suits(k, x, Active, "stopped")
      BY <1>4, StateNames DEF Suits
    <2> HIDE DEF k
    <2>2. \A s : s = ChangeUnless(x, Active, {}, "stopped") => Sane(k, s) /\ s.locks = {Altered(x)}
      BY <2>1, SaneChangeUnless
    <2> QED
      BY <2>2
  <1>6. Expire(rows) = p
    BY DEF Expire
  <1>7. \A l : Way(k, ls, l)
    BY DEF Way
  <1> HIDE DEF Made
  <1>8. Stays(k, p, ls)
    <2>1. Listed(p)
      BY <1>3, FunctionListed
    <2>2. \A s \in Range(p) : Sane(k, s) /\ s.locks \subseteq ls
      BY <1>3, <1>5 DEF Range
    <2> QED
      BY <2>1, <2>2 DEF Stays
  <1> QED
    BY <1>6, <1>7, <1>8 DEF Orderly

(* A removal begins with one deletion.                                       *)
LEMMA DropOpens ==
  ASSUME NEW k \in Removing, NEW x, NEW ls, Whole(x) \in ls
  PROVE  Stays(k, <<Drop(x)>>, ls) /\ Opens(<<Drop(x)>>, Whole(x))
  <1> DEFINE a == Drop(x)
  <1>1. Sane(k, a) /\ a.locks = {Whole(x)}
    BY SaneDrop
  <1>2. a.do = "row"
    BY <1>1 DEF Sane
  <1> HIDE DEF a
  <1>3. Stays(k, <<a>>, ls)
    BY <1>1, StaysOne
  <1>4. <<a>>[1] = a /\ Tail(<<a>>) = << >>
    OBVIOUS
  <1>5. Opens(<<a>>, Whole(x))
    BY <1>1, <1>2, <1>4 DEF Opens
  <1> QED
    BY <1>3, <1>5 DEF a

LEMMA RemoveOrderly ==
  ASSUME NEW r \in Repositories, NEW n \in Numbers
  PROVE  /\ Orderly("remove", RemoveRepository(r))
         /\ Orderly("remove_conversation", RemoveConversation(r, n))
  <1>1. {"remove", "remove_conversation"} \subseteq Removing
    BY DEF Removing
  <1>2. Orderly("remove", RemoveRepository(r))
    <2> DEFINE l == Whole(Repository(r))
               ls == {l} \cup {Whole(Row(name, r, m)) : name \in Below, m \in Numbers}
    <2>1. Way("remove", ls, l)
      BY DEF Way
    <2>2. Stays("remove", <<Drop(Repository(r))>>, ls) /\ Opens(<<Drop(Repository(r))>>, l)
      <3>1. Whole(Repository(r)) \in ls
        OBVIOUS
      <3> HIDE DEF ls
      <3> QED
        BY <1>1, <3>1, DropOpens
    <2> QED
      BY <2>1, <2>2 DEF Orderly, RemoveRepository
  <1>3. Orderly("remove_conversation", RemoveConversation(r, n))
    <2> DEFINE l == Whole(Conversation(r, n))
               ls == {l, Whole(Run(r, n))}
    <2>1. Way("remove_conversation", ls, l)
      BY DEF Way
    <2>2. /\ Stays("remove_conversation", <<Drop(Conversation(r, n))>>, ls)
          /\ Opens(<<Drop(Conversation(r, n))>>, l)
      BY <1>1, DropOpens
    <2> QED
      BY <2>1, <2>2 DEF Orderly, RemoveConversation
  <1> QED
    BY <1>2, <1>3

-----------------------------------------------------------------------------
(* Only a run refers to its conversation, and nothing to a run.                *)
LEMMA ReferredOnce ==
  ASSUME NEW name \in Below, NEW r, NEW n, NEW x \in Range(References(Row(name, r, n)))
  PROVE  \/ name = "answer_runs" /\ x = Conversation(r, n)
         \/ name # "answer_runs" /\ x.table \notin {"conversations", "answer_runs"}
  <1>1. /\ Row("import_jobs", r, n) = Job(r, n) /\ Row("conversations", r, n) = Conversation(r, n)
        /\ Row("repository_indexes", r, n) = Index(r, n) /\ Row("search_indexes", r, n) = Search(r, n)
        /\ Row("answer_runs", r, n) = Run(r, n)
    BY DEF Job, Conversation, Index, Search, Run
  <1>2. /\ Repository(r).table = "repositories" /\ Job(r, n).table = "import_jobs"
        /\ Job(r, 1).table = "import_jobs" /\ Index(r, n).table = "repository_indexes"
        /\ Index(r, 1).table = "repository_indexes"
        /\ Row("repository_files", r, 1).table = "repository_files"
    BY DEF Repository, Job, Index, Row
  <1>3. CASE name \in {"import_jobs", "conversations"}
    <2>1. x = Repository(r)
      BY <1>1, <1>3, ReferencesAre
    <2> QED
      BY <1>2, <1>3, <2>1
  <1>4. CASE name = "repository_files"
    <2>1. x = Job(r, n)
      BY <1>4, ReferencesAre
    <2> QED
      BY <1>2, <1>4, <2>1
  <1>5. CASE name = "repository_indexes"
    <2>1. x = Job(r, 1)
      BY <1>1, <1>5, ReferencesAre
    <2> QED
      BY <1>2, <1>5, <2>1
  <1>6. CASE name = "code_chunks"
    <2>1. x = Index(r, n) \/ x = Row("repository_files", r, 1)
      BY <1>6, ReferencesAre
    <2> QED
      BY <1>2, <1>6, <2>1
  <1>7. CASE name = "search_indexes"
    <2>1. x = Index(r, 1)
      BY <1>1, <1>7, ReferencesAre
    <2> QED
      BY <1>2, <1>7, <2>1
  <1>8. CASE name = "answer_runs"
    <2>1. x = Conversation(r, n)
      BY <1>1, <1>8, ReferencesAre
    <2> QED
      BY <1>8, <2>1
  <1> QED
    BY <1>3, <1>4, <1>5, <1>6, <1>7, <1>8 DEF Below

LEMMA RemoveConversationWay ==
  ASSUME NEW k, k = "remove_conversation", NEW ls, NEW l, Way(k, ls, l)
  PROVE  \E r \in Repositories, n \in Numbers :
           l = Whole(Conversation(r, n)) /\ ls = {l, Whole(Run(r, n))}
  BY SMT DEF Way

(* The runs that a removal is going to delete are below conversations it has locked. *)
Runless(s) == s.do = "row" => \A h \in s.locks : h.row.table # "answer_runs"
Parent(x) == Whole(Conversation(x.repository, x.number))

(* What a deletion deletes next is where the removal may go, below the row deleted. *)
LEMMA CascadeStays ==
  ASSUME NEW k \in Removing, NEW ls, NEW l, Way(k, ls, l), NEW x, Whole(x) \in ls, NEW t
  PROVE  /\ Stays(k, Cascade(t, x), ls)
         /\ \A s \in Range(Cascade(t, x)) : \A h \in s.locks :
              h.row.table = "answer_runs" => Parent(h.row) = Whole(x)
  <1> DEFINE c == Cascade(t, x)
  <1>1. /\ Listed(c)
        /\ \A s \in Range(c) : \E name \in Below, n \in Numbers :
             s = Drop(Row(name, x.repository, n)) /\ x \in Range(References(Row(name, x.repository, n)))
    BY CascadeDrops
  <1> HIDE DEF c
  <1>2. \A y : Whole(y).row = y /\ Whole(y).mode = "update"
    BY ModeFields
  <1>3. \A y : Whole(x) = Whole(y) => x = y
    BY <1>2
  <1>4. ASSUME NEW name \in Below, NEW n \in Numbers, x \in Range(References(Row(name, x.repository, n)))
        PROVE  /\ Whole(Row(name, x.repository, n)) \in ls
               /\ name = "answer_runs" => x = Conversation(x.repository, n)
    <2>1. \/ name = "answer_runs" /\ x = Conversation(x.repository, n)
          \/ name # "answer_runs" /\ x.table \notin {"conversations", "answer_runs"}
      BY <1>4, ReferredOnce
    <2>2. CASE k = "remove"
      <3>1. PICK r \in Repositories :
              ls = {Whole(Repository(r))} \cup {Whole(Row(q, r, m)) : q \in Below, m \in Numbers}
        BY <2>2 DEF Way
      <3>2. x.repository = r
        <4>1. x = Repository(r) \/ \E q \in Below, m \in Numbers : x = Row(q, r, m)
          BY <3>1, <1>3
        <4> QED
          BY <4>1 DEF Repository, Row
      <3> QED
        BY <2>1, <3>1, <3>2
    <2>3. CASE k = "remove_conversation"
      <3>1. PICK r \in Repositories, m \in Numbers :
              ls = {Whole(Conversation(r, m)), Whole(Run(r, m))}
        BY <2>3, RemoveConversationWay
      <3>2. x = Conversation(r, m) \/ x = Run(r, m)
        BY <3>1, <1>3
      <3>3. x.table \in {"conversations", "answer_runs"} /\ x.repository = r /\ x.number = m
        BY <3>2, RowFields
      <3>4. name = "answer_runs" /\ x = Conversation(r, n)
        BY <2>1, <3>3
      <3>5. n = m
        BY <3>3, <3>4, RowFields
      <3>6. Row(name, x.repository, n) = Run(r, m)
        BY <3>3, <3>4, <3>5 DEF Run
      <3> QED
        BY <2>1, <3>1, <3>6
    <2> QED
      BY <2>2, <2>3 DEF Removing
  <1>5. ASSUME NEW s \in Range(c)
        PROVE  /\ Sane(k, s) /\ s.locks \subseteq ls
               /\ \A h \in s.locks : h.row.table = "answer_runs" => Parent(h.row) = Whole(x)
    <2>1. PICK name \in Below, n \in Numbers :
            s = Drop(Row(name, x.repository, n)) /\ x \in Range(References(Row(name, x.repository, n)))
      BY <1>1
    <2> DEFINE y == Row(name, x.repository, n)
    <2>2. y.table = name /\ y.repository = x.repository /\ y.number = n
      BY DEF Row
    <2>3. s = Drop(y) /\ Whole(y) \in ls /\ (name = "answer_runs" => x = Conversation(x.repository, n))
      BY <2>1, <1>4
    <2> HIDE DEF y
    <2>4. Sane(k, s) /\ s.locks = {Whole(y)}
      BY <2>3, SaneDrop
    <2>5. name = "answer_runs" => Parent(y) = Whole(x)
      BY <2>2, <2>3 DEF Parent
    <2> QED
      BY <2>2, <2>3, <2>4, <2>5, <1>2
  <1>6. Stays(k, c, ls)
    BY <1>1, <1>5 DEF Stays
  <1> QED
    BY <1>5, <1>6 DEF c

-----------------------------------------------------------------------------
(* What holds of every transaction. It is on its way; what it wrote fits its       *)
(* operation and, if it ends a job or a run, it has locked that; a job or run that  *)
(* it reports on is still active; a run that it removes is below a conversation that *)
(* it has locked.                                                            *)
Follows(t) ==
  Idle(t) \/ \E ls, l : /\ Way(kind[t], ls, l) /\ Stays(kind[t], todo[t], ls) /\ held[t] \subseteq ls
                        /\ kind[t] = "expire" \/ l \in held[t] \/ (held[t] = {} /\ Opens(todo[t], l))

Writes(t) ==
  \A x \in DOMAIN wrote[t] :
    /\ kind[t] \in Reporting => wrote[t][x] # "active"
    /\ kind[t] \in Replacing => wrote[t][x] \notin Terminal
    /\ x.table \in Queues /\ wrote[t][x] # "active" => \E h \in held[t] : h.row = x /\ Strong(h)

StillActive(t) ==
  kind[t] \in Reporting =>
    \A h \in held[t] : Strong(h) /\ h.row.table \in Queues => Known(table, h.row) = "active"

UnderParents(t) ==
  kind[t] \in Removing =>
    /\ \A h \in held[t] : h.row.table = "answer_runs" => Parent(h.row) \in held[t]
    /\ \A s \in Range(todo[t]) : s.do = "row" =>
         \A h \in s.locks : h.row.table = "answer_runs" => Parent(h.row) \in held[t]

OneExpire == \A t, u \in Slots : kind[t] = "expire" /\ kind[u] = "expire" => t = u

Ordered ==
  (\A t \in Slots : Follows(t) /\ Writes(t) /\ StillActive(t) /\ UnderParents(t)) /\ OneExpire

(* At first no transaction is open.                                          *)
LEMMA InitOrdered == Init => Ordered
  <1> SUFFICES ASSUME Init PROVE Ordered
    OBVIOUS
  <1>1. ASSUME NEW t \in Slots
        PROVE  kind[t] = "none" /\ todo[t] = << >> /\ held[t] = {} /\ DOMAIN wrote[t] = {}
    BY EmptyListed DEF Init
  <1>2. "none" \notin Reporting /\ "none" \notin Removing
    BY DEF Reporting, Removing
  <1> QED
    BY <1>1, <1>2 DEF Ordered, Follows, Idle, Writes, StillActive, UnderParents, OneExpire

(* Another transaction's step.                                               *)
LEMMA Elsewhere ==
  ASSUME Ordered, NEW u \in Slots, kind'[u] = kind[u], todo'[u] = todo[u], held'[u] = held[u],
         wrote'[u] = wrote[u],
         \A h \in held[u] : Strong(h) /\ h.row.table \in Queues /\ Known(table, h.row) = "active" =>
                              Known(table', h.row) = "active"
  PROVE  Follows(u)' /\ Writes(u)' /\ StillActive(u)' /\ UnderParents(u)'
  <1>1. Follows(u) /\ Writes(u) /\ StillActive(u) /\ UnderParents(u)
    BY DEF Ordered
  <1>2. Follows(u)'
    BY <1>1 DEF Follows, Idle
  <1>3. Writes(u)'
    BY <1>1 DEF Writes
  <1>4. StillActive(u)'
    BY <1>1 DEF StillActive
  <1>5. UnderParents(u)'
    BY <1>1 DEF UnderParents
  <1> QED
    BY <1>2, <1>3, <1>4, <1>5

(* A transaction that begins has written nothing and holds nothing.           *)
LEMMA StartOrdered ==
  ASSUME Invariant, Ordered, NEW t \in Slots, Idle(t), NEW name, NEW p, Start(t, name, p),
         Orderly(name, p), name \in Removing => \A s \in Range(p) : Runless(s),
         name = "expire" => \A u \in Slots : kind[u] # "expire"
  PROVE  Ordered'
  <1>1. /\ kind' = [u \in Slots |-> IF u = t THEN name ELSE kind[u]]
        /\ todo' = [u \in Slots |-> IF u = t THEN p ELSE todo[u]]
        /\ held' = held /\ wrote' = wrote /\ table' = table
    BY DEF Start, Invariant, Typed
  <1>2. held'[t] = {} /\ DOMAIN wrote'[t] = {} /\ todo'[t] = p /\ kind'[t] = name
    BY <1>1 DEF Invariant, Typed
  <1>3. ASSUME NEW u \in Slots, u # t PROVE Follows(u)' /\ Writes(u)' /\ StillActive(u)' /\ UnderParents(u)'
    BY <1>1, <1>3, Elsewhere
  <1>4. Follows(t)'
    BY <1>2 DEF Orderly, Follows
  <1>5. Writes(t)' /\ StillActive(t)'
    BY <1>2 DEF Writes, StillActive
  <1>6. UnderParents(t)'
    BY <1>2 DEF UnderParents, Runless
  <1>7. OneExpire'
    BY <1>1 DEF Ordered, OneExpire
  <1> QED
    BY <1>3, <1>4, <1>5, <1>6, <1>7 DEF Ordered

(* One that ends without a commit leaves every row as it was.                  *)
LEMMA EndOrdered ==
  ASSUME Invariant, Ordered, NEW t \in Slots, End(t),
         \A u \in Slots \ {t} : \A h \in held[u] : Strong(h) /\ h.row.table \in Queues
           /\ Known(table, h.row) = "active" => Known(table', h.row) = "active"
  PROVE  Ordered'
  <1>1. /\ kind' = [u \in Slots |-> IF u = t THEN "none" ELSE kind[u]]
        /\ todo' = [u \in Slots |-> IF u = t THEN << >> ELSE todo[u]]
        /\ held' = [u \in Slots |-> IF u = t THEN {} ELSE held[u]]
        /\ wrote' = [u \in Slots |-> IF u = t THEN << >> ELSE wrote[u]]
    BY DEF End, Invariant, Typed
  <1>2. /\ held'[t] = {} /\ DOMAIN wrote'[t] = {} /\ kind'[t] = "none"
    BY <1>1, EmptyListed
  <1>3. ASSUME NEW u \in Slots, u # t PROVE Follows(u)' /\ Writes(u)' /\ StillActive(u)' /\ UnderParents(u)'
    BY <1>1, <1>3, Elsewhere
  <1>4. "none" \notin Reporting /\ "none" \notin Removing
    BY DEF Reporting, Removing
  <1>5. Follows(t)' /\ Writes(t)' /\ StillActive(t)' /\ UnderParents(t)'
    BY <1>2, <1>4 DEF Follows, Idle, Writes, StillActive, UnderParents
  <1>7. OneExpire'
    BY <1>1 DEF Ordered, OneExpire
  <1> QED
    BY <1>3, <1>5, <1>7 DEF Ordered

(* A transaction that has not opened with its lock begins with that statement.  *)
LEMMA Opening ==
  ASSUME NEW p, NEW l, Opens(p, l), p # << >>, Listed(p)
  PROVE  LET s == Head(p) IN s.do = "row" /\ l \in s.locks /\ (s.ends = States \/ Tail(p) = << >>)
  <1>1. Head(p) = p[1]
    BY TailListed
  <1> QED
    BY <1>1 DEF Opens

(* A statement is left out or a count is passed.                              *)
LEMMA AdvanceOrdered ==
  ASSUME Invariant, Ordered, NEW t \in Slots, todo[t] # << >>,
         todo' = [todo EXCEPT ![t] = Tail(@)], UNCHANGED <<table, kind, held, wrote>>,
         Head(todo[t]).do = "count" \/ Head(todo[t]).ends # States
  PROVE  Ordered'
  <1> DEFINE p == todo[t]
  <1>1. todo'[t] = Tail(p) /\ \A u \in Slots : u # t => todo'[u] = todo[u]
    BY DEF Invariant, Typed
  <1>2. Listed(p) /\ p # << >>
    BY DEF Invariant, Typed, Shaped
  <1> HIDE DEF p
  <1>3. Listed(Tail(p)) /\ Range(Tail(p)) \subseteq Range(p)
    BY <1>2, TailListed
  <1>4. ASSUME NEW u \in Slots, u # t PROVE Follows(u)' /\ Writes(u)' /\ StillActive(u)' /\ UnderParents(u)'
    BY <1>1, <1>4, Elsewhere
  <1>5. Follows(t) /\ Writes(t) /\ StillActive(t) /\ UnderParents(t) /\ OneExpire
    BY DEF Ordered
  <1>6. Follows(t)'
    <2>1. ~Idle(t)
      BY <1>2, NotIdle DEF Invariant, p
    <2>2. PICK ls, l : /\ Way(kind[t], ls, l) /\ Stays(kind[t], p, ls) /\ held[t] \subseteq ls
                       /\ kind[t] = "expire" \/ l \in held[t] \/ (held[t] = {} /\ Opens(p, l))
      BY <1>5, <2>1 DEF Follows, p
    <2>3. Stays(kind[t], Tail(p), ls)
      BY <1>3, <2>2 DEF Stays
    <2>4. Opens(p, l) => Opens(Tail(p), l)
      <3> SUFFICES ASSUME Opens(p, l) PROVE Opens(Tail(p), l)
        OBVIOUS
      <3>1. Head(p).do = "row" /\ (Head(p).ends = States \/ Tail(p) = << >>)
        BY <1>2, Opening
      <3>2. Tail(p) = << >>
        BY <3>1 DEF p
      <3> QED
        BY <3>2 DEF Opens
    <2> QED
      BY <1>1, <2>2, <2>3, <2>4 DEF Follows
  <1>7. Writes(t)' /\ StillActive(t)'
    BY <1>5 DEF Writes, StillActive
  <1>8. UnderParents(t)'
    BY <1>1, <1>3, <1>5 DEF UnderParents, p
  <1>9. OneExpire'
    BY <1>5 DEF OneExpire
  <1> QED
    BY <1>4, <1>6, <1>7, <1>8, <1>9 DEF Ordered

(* A statement is carried out.                                               *)
LEMMA ExecuteOrdered == ASSUME Invariant, Ordered, NEW t \in Slots, Execute(t) PROVE Ordered'
  <1> DEFINE p == todo[t]
             s == Head(p)
             c == IF s.sets = "absent" THEN Cascade(t, s.row) ELSE << >>
  <1>1. /\ p # << >> /\ s.do = "row" /\ View(t, s.row) \in s.needs
        /\ held'[t] = held[t] \cup s.locks /\ todo'[t] = c \o Tail(p)
        /\ wrote'[t] = IF s.sets = "same" THEN wrote[t] ELSE Over([x \in {s.row} |-> s.sets], wrote[t])
        /\ \A u \in Slots : u # t => held'[u] = held[u] /\ wrote'[u] = wrote[u] /\ todo'[u] = todo[u]
        /\ table' = table /\ kind' = kind
    BY DEF Execute, Fits, Invariant, Typed
  <1>2. Listed(p)
    BY DEF Invariant, Typed, Shaped
  <1>3. s \in Range(p)
    <2>0. p # << >> /\ Listed(p)
      BY <1>1, <1>2
    <2> QED
      BY ONLY <2>0, TailListed DEF s
  <1>4. Follows(t) /\ Writes(t) /\ StillActive(t) /\ UnderParents(t) /\ OneExpire
    BY DEF Ordered
  <1>5. ~Idle(t)
    BY <1>1, NotIdle DEF Invariant
  <1>6. PICK ls, l : /\ Way(kind[t], ls, l) /\ Stays(kind[t], p, ls) /\ held[t] \subseteq ls
                     /\ kind[t] = "expire" \/ l \in held[t] \/ (held[t] = {} /\ Opens(p, l))
    BY <1>4, <1>5 DEF Follows
  <1>7. c = IF s.sets = "absent" THEN Cascade(t, s.row) ELSE << >>
    OBVIOUS
  <1>8. Opens(p, l) => l \in s.locks
    BY <1>1, <1>2, Opening
  <1> HIDE DEF s, c, p
  <1>9. Sane(kind[t], s) /\ s.locks \subseteq ls
    BY <1>1, <1>3, <1>6 DEF Stays
  <1>10. s.sets = "absent" => kind[t] \in Removing /\ s.locks = {Whole(s.row)}
    BY <1>9 DEF Sane
  <1>11. /\ Stays(kind[t], c, ls)
         /\ \A d \in Range(c) : d.do = "row" => \A h \in d.locks :
              h.row.table = "answer_runs" => (kind[t] \in Removing => Parent(h.row) \in held'[t])
    <2>1. CASE s.sets = "absent"
      <3>1. kind[t] \in Removing /\ Whole(s.row) \in s.locks /\ c = Cascade(t, s.row)
        BY <1>7, <1>10, <2>1
      <3>2. Whole(s.row) \in ls /\ Whole(s.row) \in held'[t]
        BY <1>1, <1>9, <3>1
      <3> QED
        BY <1>6, <3>1, <3>2, CascadeStays
    <2>2. CASE s.sets # "absent"
      BY <1>7, <2>2, EmptyListed DEF Stays
    <2> QED
      BY <2>1, <2>2
  <1>12. Listed(Tail(p)) /\ Range(Tail(p)) \subseteq Range(p)
    BY <1>1, <1>2, TailListed
  <1>13. Stays(kind[t], Tail(p), ls)
    BY <1>6, <1>12 DEF Stays
  <1>14. Stays(kind[t], c \o Tail(p), ls) /\ Range(c \o Tail(p)) = Range(c) \cup Range(Tail(p))
    BY <1>11, <1>13, StaysConcat, ConcatListed DEF Stays
  <1>15. Follows(t)'
    BY <1>1, <1>6, <1>8, <1>9, <1>14 DEF Follows
  <1>16. /\ \A x \in DOMAIN wrote'[t] :
              \/ s.sets # "same" /\ x = s.row /\ wrote'[t][x] = s.sets
              \/ x \in DOMAIN wrote[t] /\ wrote'[t][x] = wrote[t][x]
    <2>1. CASE s.sets = "same"
      BY <1>1, <2>1
    <2>2. CASE s.sets # "same"
      <3> DEFINE all == wrote'[t]
      <3>1. all = Over([x \in {s.row} |-> s.sets], wrote[t])
        BY <1>1, <2>2
      <3> HIDE DEF all
      <3>2. /\ DOMAIN all = {s.row} \cup DOMAIN wrote[t] /\ all[s.row] = s.sets
            /\ \A x \in DOMAIN wrote[t] : x # s.row => all[x] = wrote[t][x]
        BY <3>1 DEF Over
      <3>3. \A x \in DOMAIN all :
              \/ s.sets # "same" /\ x = s.row /\ all[x] = s.sets
              \/ x \in DOMAIN wrote[t] /\ all[x] = wrote[t][x]
        BY <2>2, <3>2
      <3> QED
        BY <3>3 DEF all
    <2> QED
      BY <2>1, <2>2
  <1>17. Writes(t)'
    <2> SUFFICES ASSUME NEW x \in DOMAIN wrote'[t]
                 PROVE  /\ kind[t] \in Reporting => wrote'[t][x] # "active"
                        /\ kind[t] \in Replacing => wrote'[t][x] \notin Terminal
                        /\ x.table \in Queues /\ wrote'[t][x] # "active" =>
                             \E h \in held'[t] : h.row = x /\ Strong(h)
      BY <1>1 DEF Writes
    <2>1. CASE s.sets # "same" /\ x = s.row /\ wrote'[t][x] = s.sets
      BY <1>1, <1>9, <2>1 DEF Sane
    <2>2. CASE x \in DOMAIN wrote[t] /\ wrote'[t][x] = wrote[t][x]
      BY <1>1, <1>4, <2>2 DEF Writes
    <2> QED
      BY <1>16, <2>1, <2>2
  <1>18. StillActive(t)'
    <2> SUFFICES ASSUME kind[t] \in Reporting, NEW h \in held'[t], Strong(h), h.row.table \in Queues
                 PROVE  Known(table, h.row) = "active"
      BY <1>1 DEF StillActive
    <2>1. CASE h \in held[t]
      BY <1>4, <2>1 DEF StillActive
    <2>2. CASE h \in s.locks
      <3>1. h.row = s.row /\ s.needs = Active
        BY <1>9, <2>2 DEF Sane
      <3>2. View(t, h.row) = "active"
        BY <1>1, <3>1 DEF Active
      <3>3. h.row \notin DOMAIN wrote[t]
        BY <1>4, <3>2 DEF Writes, View
      <3> QED
        BY <3>2, <3>3 DEF View
    <2> QED
      BY <1>1, <2>1, <2>2
  <1>19. UnderParents(t)'
    <2> SUFFICES ASSUME kind[t] \in Removing
                 PROVE  /\ \A h \in held'[t] : h.row.table = "answer_runs" => Parent(h.row) \in held'[t]
                        /\ \A d \in Range(todo'[t]) : d.do = "row" =>
                             \A h \in d.locks : h.row.table = "answer_runs" => Parent(h.row) \in held'[t]
      BY <1>1 DEF UnderParents
    <2>1. /\ \A h \in held[t] : h.row.table = "answer_runs" => Parent(h.row) \in held[t]
          /\ \A d \in Range(p) : d.do = "row" =>
               \A h \in d.locks : h.row.table = "answer_runs" => Parent(h.row) \in held[t]
      BY <1>4 DEF UnderParents, p
    <2>2. \A h \in held'[t] : h.row.table = "answer_runs" => Parent(h.row) \in held'[t]
      BY <1>1, <1>3, <2>1
    <2>3. \A d \in Range(c) \cup Range(Tail(p)) : d.do = "row" =>
            \A h \in d.locks : h.row.table = "answer_runs" => Parent(h.row) \in held'[t]
      BY <1>1, <1>11, <1>12, <2>1
    <2> QED
      BY <1>1, <1>14, <2>2, <2>3
  <1>20. ASSUME NEW u \in Slots, u # t PROVE Follows(u)' /\ Writes(u)' /\ StillActive(u)' /\ UnderParents(u)'
    BY <1>1, <1>20, Elsewhere
  <1>21. OneExpire'
    BY <1>1, <1>4 DEF OneExpire
  <1> QED
    BY <1>15, <1>17, <1>18, <1>19, <1>20, <1>21 DEF Ordered

(* A commit ends no job or run that another transaction has locked.             *)
LEMMA CommitOrdered == ASSUME Invariant, Ordered, NEW t \in Slots, Commit(t) PROVE Ordered'
  <1>1. ASSUME NEW u \in Slots \ {t}, NEW h \in held[u], Strong(h), h.row.table \in Queues,
               Known(table, h.row) = "active"
        PROVE  Known(table', h.row) = "active"
    <2> DEFINE x == h.row
               rows == Over(wrote[t], table)
    <2>1. table' = [y \in {z \in DOMAIN rows : rows[z] # "absent"} |-> rows[y]]
      BY DEF Commit, Kept
    <2>2. /\ DOMAIN rows = DOMAIN wrote[t] \cup DOMAIN table
          /\ \A y \in DOMAIN wrote[t] : rows[y] = wrote[t][y]
          /\ \A y \in DOMAIN table : y \notin DOMAIN wrote[t] => rows[y] = table[y]
      BY DEF Over
    <2>3. x \in DOMAIN table /\ table[x] = "active"
      BY <1>1 DEF Known
    <2>4. x \in DOMAIN wrote[t] => wrote[t][x] = "active"
      <3> SUFFICES ASSUME x \in DOMAIN wrote[t], wrote[t][x] # "active" PROVE FALSE
        OBVIOUS
      <3>1. PICK g \in held[t] : g.row = x /\ Strong(g)
        BY <1>1 DEF Ordered, Writes
      <3>2. Conflict(g.mode, h.mode)
        BY <1>1, <3>1 DEF Strong, Conflict
      <3> QED
        BY <3>1, <3>2 DEF Invariant, Exclusive
    <2> HIDE DEF rows
    <2>5. x \in DOMAIN rows /\ rows[x] = "active"
      BY <2>2, <2>3, <2>4
    <2>6. x \in DOMAIN table' /\ table'[x] = "active"
      BY <2>1, <2>5
    <2> QED
      BY <2>6 DEF Known
  <1> QED
    BY <1>1, EndOrdered DEF Commit

(* A removal does not begin with a run.                                      *)
LEMMA RemoveRunless ==
  ASSUME NEW r, NEW n
  PROVE  \A s \in Range(RemoveRepository(r)) \cup Range(RemoveConversation(r, n)) : Runless(s)
  <1>1. ASSUME NEW x, x.table # "answer_runs" PROVE \A s \in Range(<<Drop(x)>>) : Runless(s)
    <2> DEFINE d == Drop(x)
    <2>1. d.locks = {Whole(x)} /\ Whole(x).row = x
      BY DropFields, ModeFields DEF Whole
    <2> HIDE DEF d
    <2>2. Runless(d)
      BY <1>1, <2>1 DEF Runless
    <2>3. \A s \in Range(<<d>>) : Runless(s)
      BY <2>2, OneListed
    <2> QED
      BY <2>3 DEF d
  <1>2. Repository(r).table # "answer_runs" /\ Conversation(r, n).table # "answer_runs"
    BY DEF Repository, Conversation, Row
  <1> QED
    BY <1>1, <1>2 DEF RemoveRepository, RemoveConversation

(* The operations begin in order.                                            *)
LEMMA RequestOrdered == ASSUME Invariant, Ordered, NEW t \in Slots, Request(t) PROVE Ordered'
  <1>1. Idle(t)
    BY DEF Request, Free
  <1>2. \E name, p : /\ Orderly(name, p) /\ Start(t, name, p) /\ name # "expire"
                     /\ name \in Removing => \A s \in Range(p) : Runless(s)
    <2>1. PICK r \in Repositories, n \in Numbers :
            \/ Start(t, "create", CreateRepository(r, n))
            \/ Start(t, "remove", RemoveRepository(r))
            \/ \E old \in Numbers : Start(t, "retry", RetryImport(r, old, n))
            \/ Start(t, "start_index", StartIndex(r, n))
            \/ Start(t, "start_search", StartSearch(r, n))
            \/ Start(t, "start_search", ResumeSearch(r, n))
            \/ Start(t, "create_conversation", CreateConversation(r, n))
            \/ Start(t, "remove_conversation", RemoveConversation(r, n))
            \/ Start(t, "submit", Submit(r, n))
      BY ZenonT(30) DEF Request
    <2>0. {"create", "retry", "start_index", "start_search", "create_conversation", "submit"}
             \cap Removing = {}
      BY DEF Removing
    <2>2. CASE Start(t, "create", CreateRepository(r, n))
      BY <2>0, <2>2, CreateOrderly
    <2>3. CASE Start(t, "remove", RemoveRepository(r))
      BY <2>3, RemoveOrderly, RemoveRunless
    <2>4. CASE \E old \in Numbers : Start(t, "retry", RetryImport(r, old, n))
      BY <2>0, <2>4, RetryOrderly
    <2>5. CASE Start(t, "start_index", StartIndex(r, n))
      BY <2>0, <2>5, StartIndexOrderly
    <2>6. CASE Start(t, "start_search", StartSearch(r, n)) \/ Start(t, "start_search", ResumeSearch(r, n))
      BY <2>0, <2>6, StartSearchOrderly
    <2>7. CASE Start(t, "create_conversation", CreateConversation(r, n))
      BY <2>0, <2>7, CreateConversationOrderly
    <2>8. CASE Start(t, "remove_conversation", RemoveConversation(r, n))
      BY <2>8, RemoveOrderly, RemoveRunless
    <2>9. CASE Start(t, "submit", Submit(r, n))
      BY <2>0, <2>9, SubmitOrderly
    <2> QED
      BY <2>1, <2>2, <2>3, <2>4, <2>5, <2>6, <2>7, <2>8, <2>9
  <1> QED
    BY <1>1, <1>2, StartOrdered

LEMMA WorkOrdered == ASSUME Invariant, Ordered, NEW t \in Slots, Work(t) PROVE Ordered'
  <1>1. Idle(t)
    BY DEF Work, Free
  <1> DEFINE Begins(name, p) ==
               /\ Orderly(name, p) /\ Start(t, name, p) /\ name \notin Removing
               /\ name = "expire" => \A u \in Slots : kind[u] # "expire"
  <1>2. \E name, p : Begins(name, p)
    <2>1. \/ \E r \in Repositories, n \in Numbers :
               \/ Start(t, "publish_import", PublishImport(r, n))
               \/ Start(t, "publish_index", PublishIndex(r, n))
               \/ Start(t, "checkpoint", Checkpoint(r, n))
               \/ Start(t, "publish_answer", PublishAnswer(r, n))
               \/ Start(t, "receipt", BeginReceipt(r, n))
               \/ \E row \in {Job(r, n), Index(r, n), Search(r, n), Run(r, n)} : Start(t, "stop", Stop(row))
          \/ /\ \A u \in Slots : kind[u] # "expire"
             /\ \E name \in Queues : \E rows \in SetToAllKPermutations(
                    {row \in DOMAIN table : row.table = name /\ table[row] = "active"}) :
                  Start(t, "expire", Expire(rows))
      BY Zenon DEF Work, Queues
    <2>0. {"publish_import", "publish_index", "checkpoint", "publish_answer", "receipt", "stop", "expire"}
             \cap Removing = {}
      BY DEF Removing
    <2>2. ASSUME NEW r \in Repositories, NEW n \in Numbers,
                 \/ Start(t, "publish_import", PublishImport(r, n))
                 \/ Start(t, "publish_index", PublishIndex(r, n))
                 \/ Start(t, "checkpoint", Checkpoint(r, n))
                 \/ Start(t, "publish_answer", PublishAnswer(r, n))
                 \/ Start(t, "receipt", BeginReceipt(r, n))
          PROVE  \E name, p : Begins(name, p)
      BY <2>0, <2>2, PublishImportOrderly, PublishIndexOrderly, CheckpointOrderly, PublishAnswerOrderly,
         ReceiptOrderly
    <2>3. ASSUME NEW r \in Repositories, NEW n \in Numbers,
                 NEW row \in {Job(r, n), Index(r, n), Search(r, n), Run(r, n)}, Start(t, "stop", Stop(row))
          PROVE  \E name, p : Begins(name, p)
      <3>1. row.table \in Queues
        BY <2>3, RowFields DEF Queues
      <3> QED
        BY <2>0, <2>3, <3>1, StopOrderly
    <2>4. ASSUME \A u \in Slots : kind[u] # "expire", NEW name \in Queues,
                 NEW rows \in SetToAllKPermutations(
                   {row \in DOMAIN table : row.table = name /\ table[row] = "active"}),
                 Start(t, "expire", Expire(rows))
          PROVE  \E k, p : Begins(k, p)
      <3> DEFINE running == {row \in DOMAIN table : row.table = name /\ table[row] = "active"}
      <3>1. IsFiniteSet(running) /\ (\A x \in running : x.table \in Queues)
        BY FS_Subset DEF Invariant, Typed
      <3>2. rows \in SetToAllKPermutations(running)
        OBVIOUS
      <3> HIDE DEF running
      <3>3. Orderly("expire", Expire(rows))
        BY <3>1, <3>2, ExpireOrderly
      <3> QED
        BY <2>0, <2>4, <3>3
    <2> QED
      BY <2>1, <2>2, <2>3, <2>4
  <1> QED
    BY <1>1, <1>2, StartOrdered

(* Every step keeps the order.                                               *)
LEMMA StepOrdered == Invariant /\ Ordered /\ [Next]_vars => Ordered'
  <1> SUFFICES ASSUME Invariant, Ordered, [Next]_vars PROVE Ordered'
    OBVIOUS
  <1>1. ASSUME NEW t \in Slots, Request(t) PROVE Ordered'
    BY <1>1, RequestOrdered
  <1>2. ASSUME NEW t \in Slots, Work(t) PROVE Ordered'
    BY <1>2, WorkOrdered
  <1>3. ASSUME NEW t \in Slots, Execute(t) PROVE Ordered'
    BY <1>3, ExecuteOrdered
  <1>4. ASSUME NEW t \in Slots, Skip(t) PROVE Ordered'
    <2>1. View(t, Head(todo[t]).row) \in States
      BY StateNames DEF View, Known, Invariant, Typed
    <2> QED
      BY <1>4, <2>1, AdvanceOrdered DEF Skip
  <1>5. ASSUME NEW t \in Slots, Check(t) PROVE Ordered'
    BY <1>5, AdvanceOrdered DEF Check
  <1>6. ASSUME NEW t \in Slots, End(t), UNCHANGED table PROVE Ordered'
    BY <1>6, EndOrdered
  <1>7. ASSUME NEW t \in Slots, Commit(t) PROVE Ordered'
    BY <1>7, CommitOrdered
  <1>8. CASE UNCHANGED vars
    <2>1. \A u \in Slots : Follows(u)' /\ Writes(u)' /\ StillActive(u)' /\ UnderParents(u)'
      BY <1>8, Elsewhere DEF vars
    <2>2. OneExpire'
      BY <1>8 DEF Ordered, OneExpire, vars
    <2> QED
      BY <2>1, <2>2 DEF Ordered
  <1> QED
    BY <1>1, <1>2, <1>3, <1>4, <1>5, <1>6, <1>7, <1>8 DEF Next, Refuse, GiveUp

-----------------------------------------------------------------------------
(* Who waits for whom.                                                       *)

(* The operations that may hold a lock.                                      *)
Holders(l) ==
  CASE l.row.table = "users" -> {"create", "retry"}
    [] l.row.table = "repositories" ->
         (CASE l.mode = "update" -> {"start_index", "start_search", "create_conversation", "remove"}
            [] l.mode = "no_key_update" -> {"publish_import"}
            [] OTHER -> {"create", "retry", "create_conversation"})
    [] l.row.table = "import_jobs" ->
         (CASE l.mode = "update" -> {"remove"}
            [] l.mode = "no_key_update" -> {"retry", "publish_import", "stop", "expire"}
            [] OTHER -> {"publish_import", "start_index"})
    [] l.row.table = "repository_files" ->
         (CASE l.mode = "update" -> {"remove"} [] l.mode = "key_share" -> {"publish_index"}
            [] OTHER -> {})
    [] l.row.table = "repository_indexes" ->
         (CASE l.mode = "update" -> {"remove"}
            [] l.mode = "no_key_update" -> {"start_index", "publish_index", "stop", "expire"}
            [] OTHER -> {"publish_index", "start_search"})
    [] l.row.table = "code_chunks" ->
         (CASE l.mode = "update" -> {"remove"} [] l.mode = "key_share" -> {"checkpoint"}
            [] OTHER -> {})
    [] l.row.table = "search_indexes" ->
         (IF l.mode = "update" THEN {"remove"} ELSE {"start_search", "checkpoint", "stop", "expire"})
    [] l.row.table = "conversations" ->
         (IF l.mode = "update" THEN {"remove", "remove_conversation", "submit", "publish_answer"}
          ELSE {"submit", "publish_answer"})
    [] l.row.table = "answer_runs" ->
         (IF l.mode = "update" THEN {"remove", "remove_conversation", "receipt"}
          ELSE {"publish_answer", "stop", "expire"})
    [] OTHER -> {}

(* A lock for which no one has to wait who holds another on the same row.      *)
Covers(c, l) == c.row = l.row /\ (c.mode = "update" \/ l.mode \in {"key_share", c.mode})

(* The tables of the locks that its first lock does not cover.                *)
Further(k) ==
  CASE k \in {"create", "publish_import"} -> {"repositories"}
    [] k = "retry" -> {"repositories", "import_jobs"}
    [] k = "start_index" -> {"import_jobs", "repository_indexes"}
    [] k = "publish_index" -> {"repository_files"}
    [] k = "start_search" -> {"repository_indexes", "search_indexes"}
    [] k = "checkpoint" -> {"code_chunks"}
    [] k \in {"publish_answer", "remove_conversation"} -> {"answer_runs"}
    [] k = "remove" -> Below
    [] k = "expire" -> Queues
    [] OTHER -> {}

(* The operations that begin with a repository's lock and keep to its rows.     *)
OfRepository == {"start_index", "start_search", "create_conversation", "remove"}

Paths == {"create", "retry", "publish_import", "start_index", "publish_index", "start_search",
          "checkpoint", "create_conversation", "submit", "publish_answer", "receipt", "stop",
          "expire", "remove", "remove_conversation"}

(* Which locks are on whose way.                                             *)
LEMMA WayLocks ==
  ASSUME NEW k, NEW ls, NEW f, Way(k, ls, f), NEW l \in ls
  PROVE  k \in Paths /\ k \in Holders(l) /\ (Covers(f, l) \/ l.row.table \in Further(k))
  <1>1. \A x : /\ Shared(x).row = x /\ Shared(x).mode = "key_share"
               /\ Altered(x).row = x /\ Altered(x).mode = "no_key_update"
               /\ Whole(x).row = x /\ Whole(x).mode = "update"
    BY ModeFields
  <1>2. /\ User.table = "users"
        /\ \A r, n : /\ Repository(r).table = "repositories" /\ Job(r, n).table = "import_jobs"
                     /\ Index(r, n).table = "repository_indexes" /\ Search(r, n).table = "search_indexes"
                     /\ Conversation(r, n).table = "conversations" /\ Run(r, n).table = "answer_runs"
                     /\ \A name : Row(name, r, n).table = name
    BY DEF User, Repository, Job, Index, Search, Conversation, Run, Row
  <1>3. CASE k = "stop"
    <2>1. PICK x : x.table \in Queues /\ l = Altered(x) /\ f = l
      BY <1>3 DEF Way
    <2> QED
      BY <1>1, <1>3, <2>1 DEF Paths, Holders, Covers, Queues
  <1>4. CASE k = "expire"
    <2>1. PICK x : x.table \in Queues /\ l = Altered(x)
      BY <1>4 DEF Way
    <2> QED
      BY <1>1, <1>4, <2>1 DEF Paths, Holders, Further, Queues
  <1> DEFINE C(r, n) == Conversation(r, n)
  <1>5. ASSUME k \notin {"stop", "expire"} PROVE k \in Paths
    BY <1>5 DEF Way, Paths
  <1>6. CASE k = "create"
    <2>1. PICK r \in Repositories :
            f = Whole(User) /\ l \in {Whole(User), Shared(User), Shared(Repository(r))}
      BY <1>6 DEF Way
    <2> QED
      BY <1>1, <1>2, <1>5, <1>6, <2>1 DEF Holders, Covers, Further
  <1>18. CASE k = "retry"
    <2>1. PICK r \in Repositories : f = Whole(User) /\
            l \in {Whole(User), Shared(Repository(r))} \cup {Altered(Job(r, m)) : m \in Numbers}
      BY <1>18 DEF Way
    <2> QED
      BY <1>1, <1>2, <1>5, <1>18, <2>1 DEF Holders, Covers, Further
  <1>7. CASE k = "publish_import"
    <2>1. PICK r \in Repositories, n \in Numbers :
            f = Altered(Job(r, n)) /\ l \in {Altered(Job(r, n)), Shared(Job(r, n)), Altered(Repository(r))}
      BY <1>7 DEF Way
    <2> QED
      BY <1>1, <1>2, <1>5, <1>7, <2>1 DEF Holders, Covers, Further
  <1>8. CASE k = "start_index"
    <2>1. PICK r \in Repositories, n \in Numbers :
            f = Whole(Repository(r)) /\ l \in {Whole(Repository(r)), Shared(Job(r, 1)), Altered(Index(r, n))}
      BY <1>8 DEF Way
    <2> QED
      BY <1>1, <1>2, <1>5, <1>8, <2>1 DEF Holders, Covers, Further
  <1>9. CASE k = "publish_index"
    <2>1. PICK r \in Repositories, n \in Numbers :
            /\ f = Altered(Index(r, n))
            /\ l \in {Altered(Index(r, n)), Shared(Index(r, n)), Shared(Row("repository_files", r, 1))}
      BY <1>9 DEF Way
    <2> QED
      BY <1>1, <1>2, <1>5, <1>9, <2>1 DEF Holders, Covers, Further
  <1>10. CASE k = "start_search"
    <2>1. PICK r \in Repositories, n \in Numbers :
            f = Whole(Repository(r)) /\ l \in {Whole(Repository(r)), Shared(Index(r, 1)), Altered(Search(r, n))}
      BY <1>10 DEF Way
    <2> QED
      BY <1>1, <1>2, <1>5, <1>10, <2>1 DEF Holders, Covers, Further
  <1>11. CASE k = "checkpoint"
    <2>1. PICK r \in Repositories, n \in Numbers :
            f = Altered(Search(r, n)) /\ l \in {Altered(Search(r, n)), Shared(Row("code_chunks", r, 1))}
      BY <1>11 DEF Way
    <2> QED
      BY <1>1, <1>2, <1>5, <1>11, <2>1 DEF Holders, Covers, Further
  <1>12. CASE k = "create_conversation"
    <2>1. PICK r \in Repositories :
            f = Whole(Repository(r)) /\ l \in {Whole(Repository(r)), Shared(Repository(r))}
      BY <1>12 DEF Way
    <2> QED
      BY <1>1, <1>2, <1>5, <1>12, <2>1 DEF Holders, Covers
  <1>13. CASE k = "submit"
    <2>1. PICK r \in Repositories, n \in Numbers :
            f = Whole(C(r, n)) /\ l \in {Whole(C(r, n)), Shared(C(r, n))}
      BY <1>13 DEF Way
    <2> QED
      BY <1>1, <1>2, <1>5, <1>13, <2>1 DEF Holders, Covers
  <1>14. CASE k = "publish_answer"
    <2>1. PICK r \in Repositories, n \in Numbers :
            f = Whole(C(r, n)) /\ l \in {Whole(C(r, n)), Altered(Run(r, n)), Altered(C(r, n))}
      BY <1>14 DEF Way
    <2> QED
      BY <1>1, <1>2, <1>5, <1>14, <2>1 DEF Holders, Covers, Further
  <1>15. CASE k = "receipt"
    <2>1. PICK r \in Repositories, n \in Numbers : f = Whole(Run(r, n)) /\ l = f
      BY <1>15 DEF Way
    <2> QED
      BY <1>1, <1>2, <1>5, <1>15, <2>1 DEF Holders, Covers
  <1>16. CASE k = "remove"
    <2>1. PICK r \in Repositories :
            f = Whole(Repository(r)) /\ (l = f \/ \E name \in Below, m \in Numbers : l = Whole(Row(name, r, m)))
      BY <1>16 DEF Way
    <2>2. CASE l = f
      BY <1>1, <1>2, <1>5, <1>16, <2>1, <2>2 DEF Holders, Covers
    <2>3. CASE \E name \in Below, m \in Numbers : l = Whole(Row(name, r, m))
      <3>1. l.row.table \in Below /\ l.mode = "update"
        BY <1>1, <1>2, <2>3
      <3> QED
        BY <1>5, <1>16, <3>1 DEF Holders, Further, Below
    <2> QED
      BY <2>1, <2>2, <2>3
  <1>17. CASE k = "remove_conversation"
    <2>1. PICK r \in Repositories, n \in Numbers :
            f = Whole(C(r, n)) /\ l \in {Whole(C(r, n)), Whole(Run(r, n))}
      BY <1>17 DEF Way
    <2> QED
      BY <1>1, <1>2, <1>5, <1>17, <2>1 DEF Holders, Covers, Further
  <1> QED
    BY <1>3, <1>4, <1>5, <1>6, <1>7, <1>8, <1>9, <1>10, <1>11, <1>12, <1>13, <1>14, <1>15, <1>16, <1>17, <1>18
    DEF Paths

(* The expiry of leases locks jobs and runs only.                             *)
LEMMA ExpireWay ==
  ASSUME NEW ls, NEW f, Way("expire", ls, f), NEW l \in ls
  PROVE  l.row.table \in Queues
  <1>1. PICK x : x.table \in Queues /\ l = Altered(x)
    BY DEF Way
  <1> QED
    BY <1>1, ModeFields

(* A lock that covers another waits for no one who would not wait for it.      *)
LEMMA CoversIs ==
  ASSUME NEW c, NEW l, NEW h, Covers(c, l), l.row = h.row, Conflict(l.mode, h.mode)
  PROVE  c.row = h.row /\ Conflict(c.mode, h.mode)
  BY DEF Covers, Conflict

(* What two locks of one way have in common.                                 *)
LEMMA WayShares ==
  ASSUME NEW k, NEW ls, NEW f, Way(k, ls, f), NEW l \in ls
  PROVE  /\ k = "publish_import" /\ l.row.table = "repositories" =>
              \A m \in ls : m.row.table = "repositories" => m = l
         /\ k \in {"publish_answer", "remove_conversation"} /\ l.row.table = "answer_runs" =>
              Parent(l.row) = f /\ \A m \in ls : m.row.table = "answer_runs" => m = l
         /\ k \in {"create", "retry"} => f = Whole(User)
         /\ k \in OfRepository => f = Whole(Repository(l.row.repository))
  <1>1. \A x : Shared(x).row = x /\ Altered(x).row = x /\ Whole(x).row = x
    BY ModeFields
  <1>2. \A r, n : /\ Repository(r).table = "repositories" /\ Repository(r).repository = r
                  /\ Job(r, n).table = "import_jobs" /\ Job(r, n).repository = r
                  /\ Index(r, n).repository = r /\ Search(r, n).repository = r
                  /\ Conversation(r, n).table = "conversations"
                  /\ Run(r, n).table = "answer_runs" /\ Run(r, n).repository = r /\ Run(r, n).number = n
                  /\ \A name : Row(name, r, n).repository = r
    BY DEF Repository, Job, Index, Search, Conversation, Run, Row
  <1>3. CASE k = "publish_import"
    <2>1. PICK r \in Repositories, n \in Numbers : ls = {Altered(Job(r, n)), Shared(Job(r, n)), Altered(Repository(r))}
      BY <1>3 DEF Way
    <2> QED
      BY <1>1, <1>2, <1>3, <2>1 DEF OfRepository
  <1>4. CASE k = "publish_answer"
    <2>1. PICK r \in Repositories, n \in Numbers :
            /\ f = Whole(Conversation(r, n))
            /\ ls = {Whole(Conversation(r, n)), Altered(Run(r, n)), Altered(Conversation(r, n))}
      BY <1>4 DEF Way
    <2>2. Parent(Run(r, n)) = f
      BY <1>2, <2>1 DEF Parent
    <2> QED
      BY <1>1, <1>2, <1>4, <2>1, <2>2 DEF OfRepository
  <1>5. CASE k = "remove_conversation"
    <2>1. PICK r \in Repositories, n \in Numbers :
            f = Whole(Conversation(r, n)) /\ ls = {Whole(Conversation(r, n)), Whole(Run(r, n))}
      BY <1>5 DEF Way
    <2>2. Parent(Run(r, n)) = f
      BY <1>2, <2>1 DEF Parent
    <2> QED
      BY <1>1, <1>2, <1>5, <2>1, <2>2 DEF OfRepository
  <1>6. CASE k \in {"create", "retry"}
    <2>1. f = Whole(User)
      BY <1>6 DEF Way
    <2> QED
      BY <1>6, <2>1 DEF OfRepository
  <1>7. CASE k = "start_index"
    <2>1. PICK r \in Repositories : f = Whole(Repository(r)) /\
            l \in {Whole(Repository(r)), Shared(Job(r, 1))} \cup {Altered(Index(r, m)) : m \in Numbers}
      BY <1>7 DEF Way
    <2>2. l.row.repository = r
      BY <1>1, <1>2, <2>1
    <2> QED
      BY <1>7, <2>1, <2>2
  <1>8. CASE k = "start_search"
    <2>1. PICK r \in Repositories : f = Whole(Repository(r)) /\
            l \in {Whole(Repository(r)), Shared(Index(r, 1))} \cup {Altered(Search(r, m)) : m \in Numbers}
      BY <1>8 DEF Way
    <2>2. l.row.repository = r
      BY <1>1, <1>2, <2>1
    <2> QED
      BY <1>8, <2>1, <2>2
  <1>9. CASE k = "create_conversation"
    <2>1. PICK r \in Repositories :
            f = Whole(Repository(r)) /\ l \in {Whole(Repository(r)), Shared(Repository(r))}
      BY <1>9 DEF Way
    <2>2. l.row.repository = r
      BY <1>1, <1>2, <2>1
    <2> QED
      BY <1>9, <2>1, <2>2
  <1>10. CASE k = "remove"
    <2>1. PICK r \in Repositories :
            f = Whole(Repository(r)) /\ (l = f \/ \E name \in Below, m \in Numbers : l = Whole(Row(name, r, m)))
      BY <1>10 DEF Way
    <2>2. l.row.repository = r
      BY <1>1, <1>2, <2>1
    <2> QED
      BY <1>10, <2>1, <2>2
  <1> QED
    BY <1>3, <1>4, <1>5, <1>6, <1>7, <1>8, <1>9, <1>10 DEF OfRepository

(* Whom an operation that holds locks may wait for, if that waits as well.      *)
WaitsOn(k) ==
  CASE k \in {"create", "retry", "publish_import"} -> {"start_index", "start_search", "remove"}
    [] k \in {"start_index", "start_search", "publish_index", "checkpoint"} -> {"remove"}
    [] k \in {"publish_answer", "remove_conversation"} -> {"expire"}
    [] k = "expire" -> {"retry", "publish_import", "start_index", "publish_index", "start_search",
                        "checkpoint", "remove"}
    [] k = "remove" -> {"retry", "publish_import", "publish_index", "checkpoint", "expire",
                        "publish_answer", "remove_conversation"}
    [] OTHER -> {}

(* Which two operations meet at a row, when they are not kept from it.         *)
LEMMA Meeting ==
  ASSUME NEW kt, NEW ku, NEW l, NEW h, l.row = h.row, Conflict(l.mode, h.mode),
         kt \in Holders(l), ku \in Holders(h), l.row.table \in Further(kt),
         kt \in {"create", "retry"} => ku \notin {"create", "retry"},
         kt \in OfRepository => ku \notin OfRepository,
         kt = "expire" => ku # "expire",
         ku \notin {"create_conversation", "submit", "receipt", "stop"},
         ku = "publish_import" => l.row.table # "repositories",
         ku \in {"publish_answer", "remove_conversation"} => l.row.table # "answer_runs",
         kt \in Replacing /\ ku \in Reporting /\ Strong(l) /\ Strong(h) => l.row.table \notin Queues,
         kt \in {"publish_answer", "remove_conversation"} => ku # "remove"
  PROVE  ku \in WaitsOn(kt)
  <1>1. \/ h.mode = "update" \/ l.mode = "update"
        \/ h.mode = "no_key_update" /\ l.mode = "no_key_update"
    BY DEF Conflict
  <1>2. CASE l.row.table = "repositories"
    BY <1>1, <1>2 DEF Holders, Further, Below, Queues, OfRepository, WaitsOn
  <1>3. CASE l.row.table = "import_jobs"
    BY <1>1, <1>3 DEF Holders, Further, Below, Queues, OfRepository, Replacing, Reporting, Strong, WaitsOn
  <1>4. CASE l.row.table = "repository_files"
    BY <1>1, <1>4 DEF Holders, Further, Below, Queues, OfRepository, WaitsOn
  <1>5. CASE l.row.table = "repository_indexes"
    BY <1>1, <1>5 DEF Holders, Further, Below, Queues, OfRepository, Replacing, Reporting, Strong, WaitsOn
  <1>6. CASE l.row.table = "code_chunks"
    BY <1>1, <1>6 DEF Holders, Further, Below, Queues, OfRepository, WaitsOn
  <1>7. CASE l.row.table = "search_indexes"
    BY <1>1, <1>7 DEF Holders, Further, Below, Queues, OfRepository, Replacing, Reporting, Strong, WaitsOn
  <1>8. CASE l.row.table = "conversations"
    BY <1>1, <1>8 DEF Holders, Further, Below, Queues, OfRepository, WaitsOn
  <1>9. CASE l.row.table = "answer_runs"
    BY <1>1, <1>9 DEF Holders, Further, Below, Queues, OfRepository, WaitsOn
  <1> QED
    BY <1>2, <1>3, <1>4, <1>5, <1>6, <1>7, <1>8, <1>9 DEF Further, Below, Queues

(* What a transaction waits for. None of the locks that it holds covers that.   *)
LEMMA Awaited ==
  ASSUME Invariant, Ordered, NEW t \in Slots, NEW u \in WaitsFor(t)
  PROVE  \E ls, f, l, h :
           /\ u \in Slots /\ u # t /\ h \in held[u] /\ l.row = h.row /\ Conflict(l.mode, h.mode)
           /\ Way(kind[t], ls, f) /\ held[t] \subseteq ls /\ l \in ls
           /\ kind[t] = "expire" \/ f \in held[t] \/ held[t] = {}
           /\ \A c \in held[t] : ~Covers(c, l)
           /\ kind[t] \in Replacing /\ Strong(l) /\ l.row.table \in Queues => Known(table, l.row) \in Terminal
           /\ kind[t] \in Removing /\ l.row.table = "answer_runs" => Parent(l.row) \in held[t]
  <1> DEFINE s == Head(todo[t])
  <1>1. /\ todo[t] # << >> /\ s.do = "row" /\ Fits(t, s) /\ u \in Slots /\ u # t
        /\ \E l \in s.locks : \E h \in held[u] : l.row = h.row /\ Conflict(l.mode, h.mode)
    BY DEF WaitsFor
  <1>2. ~Idle(t)
    BY <1>1, NotIdle DEF Invariant
  <1>3. PICK ls, f : /\ Way(kind[t], ls, f) /\ Stays(kind[t], todo[t], ls) /\ held[t] \subseteq ls
                     /\ kind[t] = "expire" \/ f \in held[t] \/ held[t] = {}
    BY <1>2 DEF Ordered, Follows
  <1>4. s \in Range(todo[t])
    <2>1. Listed(todo[t])
      BY <1>3 DEF Stays
    <2> QED
      BY <1>1, <2>1, TailListed
  <1>5. Sane(kind[t], s) /\ s.locks \subseteq ls
    BY <1>1, <1>3, <1>4 DEF Stays
  <1> HIDE DEF s
  <1>6. PICK l \in s.locks, h \in held[u] : l.row = h.row /\ Conflict(l.mode, h.mode)
    BY <1>1
  <1>7. ASSUME NEW c \in held[t], Covers(c, l) PROVE FALSE
    <2>1. c.row = h.row /\ Conflict(c.mode, h.mode)
      BY <1>6, <1>7, CoversIs
    <2> QED
      BY <1>1, <2>1 DEF Invariant, Exclusive
  <1>8. ASSUME kind[t] \in Replacing, Strong(l), l.row.table \in Queues PROVE Known(table, l.row) \in Terminal
    <2>1. l.row = s.row /\ s.needs \subseteq Terminal
      BY <1>5, <1>8 DEF Sane
    <2>2. View(t, l.row) \in Terminal
      BY <1>1, <2>1 DEF Fits
    <2>3. \A x \in DOMAIN wrote[t] : wrote[t][x] \notin Terminal
      BY <1>8 DEF Ordered, Writes
    <2> QED
      BY <2>2, <2>3 DEF View
  <1>9. kind[t] \in Removing /\ l.row.table = "answer_runs" => Parent(l.row) \in held[t]
    BY <1>1, <1>4 DEF Ordered, UnderParents
  <1> QED
    BY <1>1, <1>3, <1>5, <1>6, <1>7, <1>8, <1>9

(* The order in which operations that hold locks wait for one another.         *)
LEMMA WaitsInOrder ==
  ASSUME Invariant, Ordered, NEW t \in Slots, NEW u \in WaitsFor(t), held[t] # {}, WaitsFor(u) # {}
  PROVE  kind[t] \in Paths /\ kind[u] \in WaitsOn(kind[t])
  <1>1. PICK ls, f, l, h :
          /\ u \in Slots /\ u # t /\ h \in held[u] /\ l.row = h.row /\ Conflict(l.mode, h.mode)
          /\ Way(kind[t], ls, f) /\ held[t] \subseteq ls /\ l \in ls
          /\ kind[t] = "expire" \/ f \in held[t] \/ held[t] = {}
          /\ \A c \in held[t] : ~Covers(c, l)
          /\ kind[t] \in Replacing /\ Strong(l) /\ l.row.table \in Queues => Known(table, l.row) \in Terminal
          /\ kind[t] \in Removing /\ l.row.table = "answer_runs" => Parent(l.row) \in held[t]
    BY Awaited
  <1>2. PICK v : v \in WaitsFor(u)
    OBVIOUS
  <1>3. PICK ms, e, m :
          /\ Way(kind[u], ms, e) /\ held[u] \subseteq ms /\ m \in ms
          /\ kind[u] = "expire" \/ e \in held[u] \/ held[u] = {}
          /\ \A c \in held[u] : ~Covers(c, m)
    BY <1>1, <1>2, Awaited
  <1> DEFINE kt == kind[t]
             ku == kind[u]
  <1>4. kt \in Paths /\ kt \in Holders(l) /\ (Covers(f, l) \/ l.row.table \in Further(kt))
    BY <1>1, WayLocks
  <1>5. h \in ms /\ ku \in Holders(h)
    BY <1>1, <1>3, WayLocks
  <1>6. Covers(e, m) \/ m.row.table \in Further(ku)
    BY <1>3, WayLocks
  <1>7. (kt = "expire" => l.row.table \in Queues) /\ (ku = "expire" => m.row.table \in Queues)
    BY <1>1, <1>3, ExpireWay
  <1>8. l.row.table \in Further(kt) /\ m.row.table \in Further(ku)
    <2>1. Further("expire") = Queues
      BY DEF Further
    <2>2. (kt = "expire" \/ ~Covers(f, l)) /\ (ku = "expire" \/ ~Covers(e, m))
      BY <1>1, <1>3
    <2> HIDE DEF kt, ku
    <2>3. l.row.table \in Further(kt)
      BY <1>4, <1>7, <2>1, <2>2
    <2>4. m.row.table \in Further(ku)
      BY <1>6, <1>7, <2>1, <2>2
    <2> QED
      BY <2>3, <2>4
  <1>9. ku \notin {"create_conversation", "submit", "receipt", "stop"}
    BY <1>8 DEF Further
  <1>10. \A x : Covers(x, x)
    BY DEF Covers
  <1>11. m # h
    BY <1>1, <1>3, <1>10
  <1>12. /\ ku = "publish_import" => l.row.table # "repositories"
         /\ ku \in {"publish_answer", "remove_conversation"} => l.row.table # "answer_runs"
    <2>1. ku = "publish_import" => m.row.table = "repositories"
      BY <1>8 DEF Further
    <2>2. ku \in {"publish_answer", "remove_conversation"} => m.row.table = "answer_runs"
      BY <1>8 DEF Further
    <2>3. ASSUME ku = "publish_import", l.row.table = "repositories" PROVE FALSE
      BY <1>1, <1>3, <1>5, <1>11, <2>1, <2>3, WayShares
    <2>4. ASSUME ku \in {"publish_answer", "remove_conversation"}, l.row.table = "answer_runs" PROVE FALSE
      BY <1>1, <1>3, <1>5, <1>11, <2>2, <2>4, WayShares
    <2> QED
      BY <2>3, <2>4
  <1>13. \A x \in held[t], y \in held[u] : x.row = y.row => ~Conflict(x.mode, y.mode)
    BY <1>1 DEF Invariant, Exclusive
  <1>14. \A x : Whole(x).row = x /\ Conflict(Whole(x).mode, Whole(x).mode)
    BY ModeFields DEF Conflict
  <1>15. ~(kt \in {"create", "retry"} /\ ku \in {"create", "retry"})
    <2> SUFFICES ASSUME kt \in {"create", "retry"}, ku \in {"create", "retry"} PROVE FALSE
      OBVIOUS
    <2>1. f = Whole(User) /\ e = Whole(User)
      BY <1>1, <1>3, WayShares
    <2>2. f \in held[t] /\ e \in held[u]
      BY <1>1, <1>3
    <2> QED
      BY <1>13, <1>14, <2>1, <2>2
  <1>16. ~(kt \in OfRepository /\ ku \in OfRepository)
    <2> SUFFICES ASSUME kt \in OfRepository, ku \in OfRepository PROVE FALSE
      OBVIOUS
    <2>1. f = Whole(Repository(l.row.repository)) /\ e = Whole(Repository(h.row.repository))
      BY <1>1, <1>3, <1>5, WayShares
    <2>2. f \in held[t] /\ e \in held[u]
      BY <1>1, <1>3 DEF OfRepository
    <2> QED
      BY <1>1, <1>13, <1>14, <2>1, <2>2
  <1>17. ~(kt = "expire" /\ ku = "expire")
    BY <1>1 DEF Ordered, OneExpire
  <1>18. ~(kt \in Replacing /\ ku \in Reporting /\ Strong(l) /\ Strong(h) /\ l.row.table \in Queues)
    <2> SUFFICES ASSUME kt \in Replacing, ku \in Reporting, Strong(l), Strong(h), l.row.table \in Queues
                 PROVE  FALSE
      OBVIOUS
    <2>1. Known(table, l.row) \in Terminal
      BY <1>1
    <2>2. Known(table, h.row) = "active"
      BY <1>1 DEF Ordered, StillActive
    <2> QED
      BY <1>1, <2>1, <2>2 DEF Terminal
  <1>19. ~(kt \in {"publish_answer", "remove_conversation"} /\ ku = "remove")
    <2> SUFFICES ASSUME kt \in {"publish_answer", "remove_conversation"}, ku = "remove" PROVE FALSE
      OBVIOUS
    <2>1. l.row.table = "answer_runs"
      BY <1>8 DEF Further
    <2>2. Parent(l.row) = f
      BY <1>1, <2>1, WayShares
    <2>3. Parent(h.row) \in held[u]
      BY <1>1, <2>1 DEF Ordered, UnderParents, Removing
    <2>4. f \in held[t] /\ f \in held[u]
      BY <1>1, <2>2, <2>3
    <2>5. f.row = f.row /\ Conflict(f.mode, f.mode)
      BY <2>2, <1>14 DEF Parent
    <2> QED
      BY <1>13, <2>4, <2>5
  <1> HIDE DEF kt, ku
  <1>20. ku \in WaitsOn(kt)
    BY <1>1, <1>4, <1>5, <1>8, <1>9, <1>12, <1>15, <1>16, <1>17, <1>18, <1>19, Meeting
  <1> QED
    BY <1>4, <1>20 DEF kt, ku

(* A circle of transactions that hold locks and wait in that order is one of those that *)
(* are known.                                                                          *)
Circle(ks) ==
  ks # {} /\ ks \subseteq Paths /\ \A k \in ks : WaitsOn(k) \cap ks # {}

(* Without the removal of a repository no one waits in a circle, nor without one of *)
(* those that lock a row below it first.                                              *)
LEMMA CirclesAreKnown ==
  ASSUME NEW ks, Circle(ks)
  PROVE  "remove" \in ks /\ ks \cap {"retry", "publish_import", "publish_index", "checkpoint", "expire"} # {}
  <1>1. /\ ks # {} /\ ks \subseteq Paths
        /\ \A k \in ks : \E j \in ks : j \in WaitsOn(k)
    BY DEF Circle
  <1>2. \A k \in ks : k \notin {"create_conversation", "submit", "receipt", "stop"}
    BY <1>1 DEF WaitsOn
  <1>3. ASSUME "remove" \notin ks PROVE FALSE
    <2>1. \A k \in ks : k \notin {"start_index", "start_search", "publish_index", "checkpoint"}
      BY <1>1, <1>3 DEF WaitsOn
    <2>2. \A k \in ks : k \notin {"create", "retry", "publish_import"}
      BY <1>1, <1>3, <2>1 DEF WaitsOn
    <2>3. "expire" \notin ks
      BY <1>1, <1>3, <2>1, <2>2 DEF WaitsOn
    <2>4. \A k \in ks : k \notin {"publish_answer", "remove_conversation"}
      BY <1>1, <2>3 DEF WaitsOn
    <2>5. PICK k \in ks : k \in Paths
      BY <1>1
    <2> QED
      BY <1>2, <1>3, <2>1, <2>2, <2>3, <2>4, <2>5 DEF Paths
  <1>4. ASSUME ks \cap {"retry", "publish_import", "publish_index", "checkpoint", "expire"} = {} PROVE FALSE
    <2>1. \A k \in ks : k \notin {"retry", "publish_import", "publish_index", "checkpoint", "expire"}
      BY <1>4
    <2>2. \A k \in ks : k \notin {"publish_answer", "remove_conversation"}
      BY <1>1, <2>1 DEF WaitsOn
    <2>3. "remove" \notin ks
      BY <1>1, <2>1, <2>2 DEF WaitsOn
    <2> QED
      BY <1>3, <2>3
  <1> QED
    BY <1>3, <1>4

(* In a deadlock someone waits for each one that holds locks.                  *)
LEMMA DeadlocksOrdered == Invariant /\ Ordered => DeadlocksAreKnown
  <1> SUFFICES ASSUME Invariant, Ordered, NEW ts \in Deadlocks
               PROVE  /\ \E t \in ts : kind[t] = "remove"
                      /\ \E t \in ts : kind[t] \in {"retry", "publish_import", "publish_index", "checkpoint", "expire"}
    BY DEF DeadlocksAreKnown
  <1>1. /\ ts # {} /\ ts \subseteq Slots
        /\ \A t \in ts : WaitsFor(t) # {} /\ \E u \in ts : u \in WaitsFor(t)
    BY DEF Deadlocks, Cycles
  <1> DEFINE cs == {t \in ts : held[t] # {}}
             ks == {kind[t] : t \in cs}
  <1>2. \A t \in ts : \E u \in cs : u \in WaitsFor(t)
    <2> SUFFICES ASSUME NEW t \in ts PROVE \E u \in cs : u \in WaitsFor(t)
      OBVIOUS
    <2>1. PICK u \in ts : u \in WaitsFor(t)
      BY <1>1
    <2>2. held[u] # {}
      BY <1>1, <2>1, Awaited
    <2> QED
      BY <2>1, <2>2
  <1>3. \A t \in cs : kind[t] \in Paths /\ \E u \in cs : kind[u] \in WaitsOn(kind[t])
    <2> SUFFICES ASSUME NEW t \in cs PROVE kind[t] \in Paths /\ \E u \in cs : kind[u] \in WaitsOn(kind[t])
      OBVIOUS
    <2>1. PICK u \in cs : u \in WaitsFor(t)
      BY <1>2
    <2> QED
      BY <1>1, <2>1, WaitsInOrder
  <1>4. cs # {}
    BY <1>1, <1>2
  <1>5. Circle(ks)
    <2>1. ks # {} /\ ks \subseteq Paths
      BY <1>3, <1>4
    <2>2. \A k \in ks : \E j \in ks : j \in WaitsOn(k)
      BY <1>3
    <2> QED
      BY <2>1, <2>2 DEF Circle
  <1>6. "remove" \in ks /\ ks \cap {"retry", "publish_import", "publish_index", "checkpoint", "expire"} # {}
    BY <1>5, CirclesAreKnown
  <1> QED
    BY <1>6

(* Every transaction stays on its way: it takes its first lock before any other and no    *)
(* lock that its operation does not take; a job or a run that it reports on is active as   *)
(* long as it holds it, for who ends a job or a run has locked it; a run that it removes   *)
(* is below a conversation that it holds (jobs/answer_run.py:114).                        *)
THEOREM OrderOfLocks == Spec => [](Invariant /\ Ordered)
  BY InitHolds, InitOrdered, StepHolds, StepOrdered, PTL DEF Spec

(* However many transactions are open on however many repositories, those that wait for   *)
(* one another include the removal of a repository and one of the five operations that     *)
(* lock a row below it before it: a retry, the publication of an import or of an index, a   *)
(* checkpoint of a preparation or the expiry of leases (jobs/import_repository.py:30-69,    *)
(* services/repository.py:89-112, jobs/index_repository.py:27-52,                          *)
(* jobs/prepare_search.py:44-63, jobs/answer_dispatcher.py:23-41).                          *)
THEOREM OnlyKnownDeadlocks == Spec => []DeadlocksAreKnown
  BY OrderOfLocks, DeadlocksOrdered, PTL

=============================================================================
