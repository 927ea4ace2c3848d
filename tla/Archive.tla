------------------------------- MODULE Archive -------------------------------
(***************************************************************************)
(* Reading the archive of a commit (indexing/archive.py, read_archive): which *)
(* of its members become files of the import, and which archives are refused  *)
(* as a whole. What is refused fails the import (RepositoryJobs, Raise); the   *)
(* files are what Chunking cuts.                                           *)
(***************************************************************************)
EXTENDS Integers, Sequences, FiniteSets, SequencesExt

CONSTANTS
  ExpandedLimit,  \* 40 MiB in the code
  StoredLimit,    \* 10 MiB in the code
  FileLimit,      \* 256 KiB in the code
  MemberLimit     \* 5000 in the code

ASSUME ArchiveBounds == {ExpandedLimit, StoredLimit, FileLimit, MemberLimit} \subseteq Nat

(* A member: whether its name is safe, its first part, the rest of its path    *)
(* ("": none or too long), what it is, whether its name is one that is kept,   *)
(* its size (a header costs one more) and what it contains.                 *)
Members == [safe : BOOLEAN, root : {"r", "s"}, path : {"", "a", "b"},
            type : {"dir", "file", "link"}, kept : BOOLEAN, size : Nat,
            text : {"utf8", "binary", "lfs pointer"}]

(* An archive: its members, the number of them that can be read before the     *)
(* stream breaks off or time is up, and the bytes behind the last member.     *)
Archives == [members : Seq(Members), readable : Nat, trailing : Nat]

(* A member that is stored; the others are skipped.                         *)
Wanted(m) == m.type = "file" /\ m.kept /\ m.size <= FileLimit /\ m.text = "utf8"

Empty == [refused |-> FALSE, root |-> "", seen |-> {}, scanned |-> 0, skipped |-> 0,
          stored |-> 0, members |-> 0, expanded |-> 0, files |-> <<>>]

Refuse(state) == [state EXCEPT !.refused = TRUE, !.files = <<>>]

(* Mutant: only a path that is stored may not be repeated.                    *)
NoteIfWanted(state, m) == IF Wanted(m) THEN state.seen \cup {m.path} ELSE state.seen

(* Every path is noted, whether it is stored or skipped.                     *)
Note(state, m) == state.seen \cup {m.path}

(* The member is read from the stream.                                      *)
Advance(state, m) ==
  [state EXCEPT !.members = @ + 1, !.expanded = @ + 1 + m.size,
                !.root = IF @ = "" THEN m.root ELSE @]

Bad(state, m) ==
  \/ state.members > MemberLimit \/ state.expanded > ExpandedLimit
  \/ ~m.safe
  \/ m.root # state.root

BadFile(state, m) ==
  \/ m.path = "" \/ m.path \in state.seen
  \/ Wanted(m) /\ state.stored + m.size > StoredLimit

(* One round of the loop over the members.                                  *)
Visit(state, m) ==
  LET now == Advance(state, m) IN
  IF state.refused THEN state
  ELSE IF Bad(now, m) THEN Refuse(now)
  ELSE IF m.type = "dir" THEN now
  ELSE IF BadFile(now, m) THEN Refuse(now)
  ELSE IF Wanted(m)
  THEN [now EXCEPT !.seen = Note(now, m), !.scanned = @ + 1, !.stored = @ + m.size,
                   !.files = Append(@, m.path)]
  ELSE [now EXCEPT !.seen = Note(now, m), !.scanned = @ + 1, !.skipped = @ + 1]

(* The loop.                                                               *)
Scan(ms) == FoldLeft(Visit, Empty, ms)

(* read_archive; what follows the last member counts as well.                *)
ReadArchive(a) ==
  LET end == Scan(a.members) IN
  IF \/ a.readable < Len(a.members)
     \/ end.expanded + a.trailing > ExpandedLimit
     \/ end.files = <<>>
  THEN Refuse(end)
  ELSE end

-----------------------------------------------------------------------------
Entries(ms) == {i \in DOMAIN ms : ms[i].type # "dir"}
Chosen(ms) == {i \in DOMAIN ms : Wanted(ms[i])}
Bulk(ms, S) == MapThenSumSet(LAMBDA i : ms[i].size, S)

(* An archive is accepted exactly when it is whole, within every limit, of one *)
(* root, safe, names no path twice and holds something to index; then every    *)
(* member is accounted for, and the files are the wanted ones in their order.  *)
ArchiveIsExactFor(a) ==
  LET ms == a.members
      wanted == Chosen(ms)
      result == ReadArchive(a)
  IN  /\ ~result.refused <=>
           /\ a.readable >= Len(ms) /\ Len(ms) <= MemberLimit
           /\ \A i, j \in DOMAIN ms : ms[i].safe /\ ms[i].root = ms[j].root
           /\ \A i, j \in Entries(ms) : ms[i].path # "" /\ (ms[i].path = ms[j].path => i = j)
           /\ Len(ms) + Bulk(ms, DOMAIN ms) + a.trailing <= ExpandedLimit
           /\ Bulk(ms, wanted) <= StoredLimit
           /\ wanted # {}
      /\ ~result.refused =>
           /\ Len(result.files) = Cardinality(wanted)
           /\ \A i \in wanted : result.files[Cardinality({j \in wanted : j <= i})] = ms[i].path
           /\ result.scanned = Cardinality(Entries(ms))
           /\ result.skipped = result.scanned - Len(result.files)

=============================================================================
