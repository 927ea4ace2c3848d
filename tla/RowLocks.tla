------------------------------ MODULE RowLocks ------------------------------
(***************************************************************************)
(* The database transactions of the application as the row locks they take,   *)
(* in the order in which they take them. PostgreSQL runs them READ COMMITTED:  *)
(* a statement sees what is committed and what its own transaction wrote, it    *)
(* waits for a row that another transaction has locked in a conflicting mode,   *)
(* and it judges the row again when it gets it. Locks last until the end of     *)
(* the transaction. A row is named by its table, its repository and a number;  *)
(* the rows below a first one (the indexes of import 1, the runs of a            *)
(* conversation) are enough for every order of locks.                          *)
(***************************************************************************)
EXTENDS Integers, Sequences, FiniteSets, SequencesExt

CONSTANTS
  Slots,              \* transactions that may be open at once
  Repositories,       \* identifiers of repositories of one user
  Copies,             \* rows of a table below one parent
  RepositoryLimit,    \* 20 in the code
  ImportLimit,        \* 5 in the code: import jobs of the last hour
  ConversationLimit,  \* 100 in the code
  MaxTransactions     \* bound of the model: transactions that are begun

ASSUME LockBounds ==
  {RepositoryLimit, ImportLimit, ConversationLimit, MaxTransactions, Copies} \subseteq Nat \ {0}

VARIABLES
  table,   \* the committed rows and their states
  begun,   \* the transactions begun so far
  kind,    \* the operation a slot performs
  todo,    \* the statements it has left
  held,    \* the locks it holds
  wrote    \* what it wrote and has not committed

vars == <<table, begun, kind, todo, held, wrote>>

-----------------------------------------------------------------------------
(* Rows and the foreign keys between them; every key is ON DELETE CASCADE.    *)

Row(t, r, n) == [table |-> t, repository |-> r, number |-> n]

Numbers == 1..Copies
User == Row("users", 0, 0)
Repository(r) == Row("repositories", r, 0)
Below == {"import_jobs", "repository_files", "repository_indexes", "code_chunks",
          "search_indexes", "conversations", "answer_runs"}

\* Every row there may be.
Rows == {User} \cup {Repository(r) : r \in Repositories}
        \cup {Row(t, r, n) : t \in Below, r \in Repositories, n \in Numbers}

\* The rows a row refers to, in the order in which its keys are declared.
References(row) ==
  LET To(t, n) == Row(t, row.repository, n)
  IN CASE row.table = "repositories" -> <<User>>
       [] row.table \in {"import_jobs", "conversations"} -> <<Repository(row.repository)>>
       [] row.table = "repository_files" -> <<To("import_jobs", row.number)>>
       [] row.table = "repository_indexes" -> <<To("import_jobs", 1)>>
       [] row.table = "code_chunks" ->
            <<To("repository_indexes", row.number), To("repository_files", 1)>>
       [] row.table = "search_indexes" -> <<To("repository_indexes", 1)>>
       [] row.table = "answer_runs" -> <<To("conversations", row.number)>>
       [] OTHER -> <<>>

\* The tables that refer to a table, in the order in which migrations add the keys.
ReferredFrom(t) ==
  CASE t = "repositories" -> <<"import_jobs", "conversations">>
    [] t = "import_jobs" -> <<"repository_files", "repository_indexes">>
    [] t = "repository_files" -> <<"code_chunks">>
    [] t = "repository_indexes" -> <<"code_chunks", "search_indexes">>
    [] t = "conversations" -> <<"answer_runs">>
    [] OTHER -> <<>>

Active == {"active"}     \* queued or running
Terminal == {"completed", "stopped"}
States == {"absent", "present", "active", "completed", "stopped", "replaced"}
Existing == States \ {"absent"}

-----------------------------------------------------------------------------
(* Statements. Each takes locks and looks at one row: if the row is in a state  *)
(* it needs it goes on and leaves the row in a state; in one that ends the       *)
(* transaction it is refused; in any other it does nothing.                    *)

\* The state a row is in for a transaction.
Known(rows, row) == IF row \in DOMAIN rows THEN rows[row] ELSE "absent"
View(t, row) == IF row \in DOMAIN wrote[t] THEN wrote[t][row] ELSE Known(table, row)

\* Rows as they are after some have been written over them.
Over(new, rows) ==
  [x \in DOMAIN new \cup DOMAIN rows |-> IF x \in DOMAIN new THEN new[x] ELSE rows[x]]

\* Nothing is kept of a row that is absent.
Kept(rows) == [x \in {y \in DOMAIN rows : rows[y] # "absent"} |-> rows[x]]

Hold(row, mode) == [row |-> row, mode |-> mode]

Statement(locks, row, needs, ends, sets) ==
  [do |-> "row", locks |-> locks, row |-> row, needs |-> needs, ends |-> ends, sets |-> sets]

Read(row, needs) == Statement({}, row, needs, States, "same")
Lock(row, needs) == Statement({Hold(row, "update")}, row, needs, States, "same")
Change(row, needs, sets) == Statement({Hold(row, "no_key_update")}, row, needs, States, sets)
ChangeUnless(row, needs, ends, sets) == [Change(row, needs, sets) EXCEPT !.ends = ends]
Drop(row) == Statement({Hold(row, "update")}, row, Existing, {}, "absent")

\* A count of the rows of a table that ends the transaction at its limit.
Count(t, rs, limit) == [do |-> "count", table |-> t, among |-> rs, limit |-> limit]

\* The keys of an inserted row are checked by locking what they refer to; the row itself
\* is not seen by others until it is committed.
Insert(row, state) ==
  <<Statement({Hold(x, "key_share") : x \in Range(References(row))}, row, {"absent"}, States, state)>>

Conflict(m1, m2) == "update" \in {m1, m2} \/ {m1, m2} = {"no_key_update"}

\* What the deletion of a row deletes next: every row that refers to it, table by table.
Cascade(t, row) ==
  LET Child(name) == {n \in Numbers : LET c == Row(name, row.repository, n)
                                      IN row \in Range(References(c)) /\ View(t, c) # "absent"}
      Dropped(name) == LET ns == SetToSeq(Child(name))
                       IN [i \in DOMAIN ns |-> Drop(Row(name, row.repository, ns[i]))]
  IN FlattenSeq([i \in DOMAIN ReferredFrom(row.table) |-> Dropped(ReferredFrom(row.table)[i])])

-----------------------------------------------------------------------------
(* The operations, each the statements of its transaction. The row an          *)
(* operation inserts is given by its number.                                  *)

Job(r, n) == Row("import_jobs", r, n)
Index(r, n) == Row("repository_indexes", r, n)
Search(r, n) == Row("search_indexes", r, n)
Conversation(r, n) == Row("conversations", r, n)
Run(r, n) == Row("answer_runs", r, n)

\* Mutant: the imports are counted without the lock of the user's row.
QuotaUnlocked == <<Count("import_jobs", Repositories, ImportLimit)>>

\* The user's row serializes the quotas of creating and retrying.
Quota == <<Lock(User, {"present"}), Count("import_jobs", Repositories, ImportLimit)>>

CreateRepository(r, n) ==
  Quota \o <<Count("repositories", Repositories, RepositoryLimit)>>
        \o Insert(Repository(r), "present") \o Insert(Job(r, n), "active")

RetryImport(r, old, n) ==
  Quota \o <<Change(Job(r, old), {"stopped"}, "replaced")>> \o Insert(Job(r, n), "active")

RemoveRepository(r) == <<Drop(Repository(r))>>

PublishImport(r, n) ==
  <<Change(Job(r, n), Active, "completed")>>
  \o Insert(Row("repository_files", r, n), "present")
  \o <<Change(Repository(r), {"present"}, "same")>>

\* The latest row of a queue must not be active; a new one takes its place.
Replace(Queue(_, _), r, n) ==
  LET others == SetToSeq(Numbers \ {n})
  IN [i \in DOMAIN others |-> ChangeUnless(Queue(r, others[i]), Terminal, Active, "replaced")]

StartIndex(r, n) ==
  <<Lock(Repository(r), {"present"}), Read(Job(r, 1), {"completed"})>>
  \o Replace(Index, r, n) \o Insert(Index(r, n), "active")

PublishIndex(r, n) ==
  <<Change(Index(r, n), Active, "completed")>> \o Insert(Row("code_chunks", r, n), "present")

StartSearch(r, n) ==
  <<Lock(Repository(r), {"present"}), Read(Index(r, 1), {"completed"})>>
  \o Replace(Search, r, n) \o Insert(Search(r, n), "active")

\* A preparation of the same settings is resumed in its own row.
ResumeSearch(r, n) ==
  <<Lock(Repository(r), {"present"}), Read(Index(r, 1), {"completed"}),
    Change(Search(r, n), {"stopped"}, "active")>>

\* The documents refer to the preparation and to their chunks.
Checkpoint(r, n) ==
  <<Change(Search(r, n), Active, "same"),
    Statement({Hold(Row("code_chunks", r, 1), "key_share")}, Row("code_chunks", r, 1), Existing, States, "same")>>

CreateConversation(r, n) ==
  <<Lock(Repository(r), {"present"}), Count("conversations", {r}, ConversationLimit)>>
  \o Insert(Conversation(r, n), "present")

RemoveConversation(r, n) == <<Drop(Conversation(r, n))>>

Submit(r, n) == <<Lock(Conversation(r, n), {"present"})>> \o Insert(Run(r, n), "active")

\* Mutant: the run is locked before its conversation.
PublishAnswerUnlocked(r, n) ==
  <<Change(Run(r, n), Active, "completed"), Change(Conversation(r, n), {"present"}, "same")>>

\* The conversation is locked before the run, as a cascade locks them.
PublishAnswer(r, n) ==
  <<Lock(Conversation(r, n), {"present"}), Change(Run(r, n), Active, "completed"),
    Change(Conversation(r, n), {"present"}, "same")>>

BeginReceipt(r, n) == <<Lock(Run(r, n), Active)>>

\* One statement fails every job or run of a table whose lease has expired, in the order of
\* its scan.
Expire(rows) == [i \in DOMAIN rows |-> ChangeUnless(rows[i], Active, {}, "stopped")]

\* Cancelling, failing or losing one job or run: one statement that changes one row.
Stop(row) == <<Change(row, Active, "stopped")>>

-----------------------------------------------------------------------------
Idle(t) == kind[t] = "none"

\* The rows that exist or that an open transaction inserts.
Taken ==
  DOMAIN table \cup UNION {DOMAIN wrote[t] : t \in Slots}
  \cup UNION {{s.row : s \in {x \in Range(todo[t]) : x.do = "row" /\ x.needs = {"absent"}}} : t \in Slots}

\* A new row takes the first number that is not taken.
Fresh(row) == row \notin Taken /\ {[row EXCEPT !.number = n] : n \in 1..(row.number - 1)} \subseteq Taken

Free(t) == Idle(t) /\ begun < MaxTransactions

Start(t, name, statements) ==
  /\ begun' = begun + 1
  /\ kind' = [kind EXCEPT ![t] = name]
  /\ todo' = [todo EXCEPT ![t] = statements]
  /\ UNCHANGED <<table, held, wrote>>

\* A request begins by reading the repository or the conversation it names, unlocked.
Request(t) ==
  /\ Free(t)
  /\ \E r \in Repositories, n \in Numbers :
      \/ n = 1 /\ Repository(r) \notin Taken
           /\ {Repository(q) : q \in {p \in Repositories : p < r}} \subseteq Taken
           /\ Start(t, "create", CreateRepository(r, n))
      \/ /\ Known(table, Repository(r)) = "present"
         /\ \/ n = 1 /\ Start(t, "remove", RemoveRepository(r))
            \/ Fresh(Job(r, n)) /\ \E old \in Numbers :
                 Known(table, Job(r, old)) \in Active \cup Terminal /\ Start(t, "retry", RetryImport(r, old, n))
            \/ Fresh(Index(r, n)) /\ Start(t, "start_index", StartIndex(r, n))
            \/ Fresh(Search(r, n)) /\ Start(t, "start_search", StartSearch(r, n))
            \/ Known(table, Search(r, n)) = "stopped" /\ Start(t, "start_search", ResumeSearch(r, n))
            \/ Fresh(Conversation(r, n)) /\ Start(t, "create_conversation", CreateConversation(r, n))
      \/ /\ Known(table, Conversation(r, n)) = "present"
         /\ \/ Start(t, "remove_conversation", RemoveConversation(r, n))
            \/ Fresh(Run(r, n)) /\ Start(t, "submit", Submit(r, n))

\* A worker holds a claim on the row it reports on; the dispatcher runs alone.
Work(t) ==
  /\ Free(t)
  /\ \/ \E r \in Repositories, n \in Numbers :
          \/ Known(table, Job(r, n)) = "active" /\ Start(t, "publish_import", PublishImport(r, n))
          \/ Known(table, Index(r, n)) = "active" /\ Start(t, "publish_index", PublishIndex(r, n))
          \/ Known(table, Search(r, n)) = "active" /\ Start(t, "checkpoint", Checkpoint(r, n))
          \/ Known(table, Run(r, n)) = "active"
               /\ \/ Start(t, "publish_answer", PublishAnswer(r, n))
                  \/ Start(t, "receipt", BeginReceipt(r, n))
          \/ \E row \in {Job(r, n), Index(r, n), Search(r, n), Run(r, n)} :
               Known(table, row) = "active" /\ Start(t, "stop", Stop(row))
     \/ /\ \A u \in Slots : kind[u] # "expire"
        /\ \E name \in {"import_jobs", "repository_indexes", "search_indexes", "answer_runs"} :
             LET running == {row \in DOMAIN table : row.table = name /\ table[row] = "active"}
             IN \E rows \in SetToAllKPermutations(running) :
                  Len(rows) > 1 /\ Start(t, "expire", Expire(rows))

-----------------------------------------------------------------------------
End(t) ==
  /\ kind' = [kind EXCEPT ![t] = "none"]
  /\ todo' = [todo EXCEPT ![t] = <<>>]
  /\ held' = [held EXCEPT ![t] = {}]
  /\ wrote' = [wrote EXCEPT ![t] = <<>>]
  /\ UNCHANGED begun

\* The row is as the statement needs it and what it locks exists.
Fits(t, s) == View(t, s.row) \in s.needs /\ \A l \in s.locks : View(t, l.row) # "absent"

\* The transactions that hold a lock the next statement of t conflicts with.
WaitsFor(t) ==
  IF todo[t] = <<>> \/ Head(todo[t]).do # "row" \/ ~Fits(t, Head(todo[t])) THEN {}
  ELSE {u \in Slots \ {t} : \E l \in Head(todo[t]).locks : \E h \in held[u] :
                              l.row = h.row /\ Conflict(l.mode, h.mode)}

Execute(t) ==
  /\ todo[t] # <<>> /\ Head(todo[t]).do = "row"
  /\ LET s == Head(todo[t])
     IN /\ Fits(t, s) /\ WaitsFor(t) = {}
        /\ held' = [held EXCEPT ![t] = @ \cup s.locks]
        /\ wrote' = [wrote EXCEPT ![t] = IF s.sets = "same" THEN @ ELSE Over([x \in {s.row} |-> s.sets], @)]
        /\ todo' = [todo EXCEPT ![t] =
             (IF s.sets = "absent" THEN Cascade(t, s.row) ELSE <<>>) \o Tail(@)]
  /\ UNCHANGED <<table, begun, kind>>

Skip(t) ==
  /\ todo[t] # <<>> /\ Head(todo[t]).do = "row"
  /\ LET s == Head(todo[t]) IN ~Fits(t, s) /\ View(t, s.row) \notin s.ends
  /\ todo' = [todo EXCEPT ![t] = Tail(@)]
  /\ UNCHANGED <<table, begun, kind, held, wrote>>

Counted(t, s) ==
  Cardinality({x \in DOMAIN table \cup DOMAIN wrote[t] :
                 x.table = s.table /\ x.repository \in s.among /\ View(t, x) # "absent"})

Check(t) ==
  /\ todo[t] # <<>> /\ Head(todo[t]).do = "count"
  /\ Counted(t, Head(todo[t])) < Head(todo[t]).limit
  /\ todo' = [todo EXCEPT ![t] = Tail(@)]
  /\ UNCHANGED <<table, begun, kind, held, wrote>>

\* An error rolls the transaction back.
Refuse(t) ==
  /\ todo[t] # <<>>
  /\ LET s == Head(todo[t])
     IN \/ s.do = "row" /\ ~Fits(t, s) /\ View(t, s.row) \in s.ends
        \/ s.do = "count" /\ Counted(t, s) >= s.limit
  /\ End(t) /\ UNCHANGED table

Commit(t) ==
  /\ ~Idle(t) /\ todo[t] = <<>>
  /\ table' = Kept(Over(wrote[t], table))
  /\ End(t)

\* The sets of transactions that wait for one another, and the least of them.
Cycles ==
  LET waits == [t \in Slots |-> WaitsFor(t)]
  IN {ts \in SUBSET {t \in Slots : waits[t] # {}} : ts # {} /\ \A t \in ts : waits[t] \cap ts # {}}

Deadlocks == {ts \in Cycles : \A us \in Cycles : us \subseteq ts => us = ts}

\* A statement that waits ends with an error: PostgreSQL breaks a deadlock after a second,
\* and the driver's timeout ends any other wait.
GiveUp(t) ==
  /\ WaitsFor(t) # {}
  /\ End(t) /\ UNCHANGED table

\* How far the import of a repository and the index of its files have come, and what there
\* may be after one of them.
Stages == [import : {"active", "stopped"}, index : {"absent"}]
          \cup [import : {"completed"}, index : {"absent", "active", "completed"}]
After(state, first) == IF state = "completed" THEN first ELSE {"absent"}
Stored(state) == IF state = "completed" THEN "present" ELSE "absent"

\* The state of a row when there is one repository, which has come so far.
Reached(row, stage, search, dialogue, run) ==
  CASE row = User -> "present"
    [] row = Repository(1) -> "present"
    [] row = Job(1, 1) -> stage.import
    [] row = Row("repository_files", 1, 1) -> Stored(stage.import)
    [] row = Index(1, 1) -> stage.index
    [] row = Row("code_chunks", 1, 1) -> Stored(stage.index)
    [] row = Search(1, 1) -> search
    [] row.repository = 1 /\ row.table = "conversations" /\ row.number <= dialogue -> "present"
    [] row.repository = 1 /\ row.table = "answer_runs" /\ row.number <= dialogue -> run
    [] OTHER -> "absent"

\* No repository, or one as far as its import, its index, its preparation and its dialogue
\* have come.
Tables ==
  {[x \in {User} |-> "present"]}
  \cup UNION {{Kept([x \in Rows |-> Reached(x, stage, search, dialogue, run)]) :
                 search \in After(stage.index, {"absent", "active", "stopped"}),
                 dialogue \in 0..ConversationLimit,
                 run \in After(stage.index, {"absent", "active"})} : stage \in Stages}

Init ==
  /\ begun = 0
  /\ kind = [t \in Slots |-> "none"]
  /\ todo = [t \in Slots |-> <<>>]
  /\ held = [t \in Slots |-> {}]
  /\ wrote = [t \in Slots |-> <<>>]
  /\ table \in Tables

Next == \E t \in Slots : Request(t) \/ Work(t) \/ Execute(t) \/ Skip(t) \/ Check(t) \/ Refuse(t)
                           \/ Commit(t) \/ GiveUp(t)

Spec == Init /\ [][Next]_vars
-----------------------------------------------------------------------------
(* Properties.                                                                *)

\* Removing a repository locks it before its imports, indexes, preparations and runs, and
\* four operations and the expiry of leases lock some of those the other way round
\* (jobs/import_repository.py:30-69, services/repository.py:89-112, jobs/index_repository.py:27-52,
\* jobs/prepare_search.py:44-63, jobs/answer_dispatcher.py:23-41). Whatever transactions wait for
\* one another, they are such a removal and one of those: requests, answers, receipts and the
\* removal of a conversation never deadlock among themselves (jobs/answer_run.py:114).
DeadlocksAreKnown ==
  \A ts \in Deadlocks :
    /\ \E t \in ts : kind[t] = "remove"
    /\ \E t \in ts : kind[t] \in {"retry", "publish_import", "publish_index", "checkpoint", "expire"}

\* Requests that count at the same time never exceed a limit together: the row that all of
\* them lock first makes the count of each see what the one before it inserted
\* (services/repository.py:45-76, services/conversations.py:40-60).
QuotasHold ==
  LET Rowed(t, rs) == Cardinality({x \in DOMAIN table : x.table = t /\ x.repository \in rs})
  IN /\ Rowed("repositories", Repositories) <= RepositoryLimit
     /\ Rowed("import_jobs", Repositories) <= ImportLimit
     /\ \A r \in Repositories : Rowed("conversations", {r}) <= ConversationLimit

=============================================================================
