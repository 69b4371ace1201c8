------------------------------ MODULE RaftLog ------------------------------
(***************************************************************************)
(* The pure log algorithms of internal/raft/node.go.                       *)
(*                                                                         *)
(* A log is the whole history of a node: the sequence of all its entries   *)
(* from index 1, each a record [term, command].  A node that has compacted *)
(* its log up to index snap keeps only the entries after snap; entries     *)
(* 1..snap are what its snapshot stands for.  The operators that take snap *)
(* never read an entry before it, and at snap itself read only the term    *)
(* (storage.Snapshot keeps LastIncludedTerm).                              *)
(***************************************************************************)
EXTENDS Integers, Sequences

LastIndex(lg) == Len(lg)

LastTerm(lg) == IF lg = <<>> THEN 0 ELSE lg[Len(lg)].term

\* The "ok" result of termAtLocked: is the term at an index still known?
HasTermAt(lg, snap, index) ==
  \/ index = 0
  \/ index = snap
  \/ index > snap /\ index <= Len(lg)

TermAt(lg, index) == IF index = 0 THEN 0 ELSE lg[index].term

EntriesFrom(lg, index) == SubSeq(lg, index, Len(lg))

Prefix(lg, index) == SubSeq(lg, 1, index)

\* Mutant: only the length of the logs is compared.
UpToDateIndex(lastTerm, lastIndex, lg) == lastIndex >= LastIndex(lg)

\* Is a candidate's log at least as up to date as lg (HandleRequestVote)?
UpToDate(lastTerm, lastIndex, lg) ==
  \/ lastTerm > LastTerm(lg)
  \/ lastTerm = LastTerm(lg) /\ lastIndex >= LastIndex(lg)

\* Where the run of entries that have the term of lg[index] begins, no
\* further back than the entry after the snapshot.
RunStart(lg, snap, index) ==
  CHOOSE k \in (snap + 1)..index :
    /\ \A j \in k..index : lg[j].term = lg[index].term
    /\ k = snap + 1 \/ lg[k - 1].term # lg[index].term

\* conflictIndexLocked: where the leader should resume after a failed match
\* at index.
ConflictIndex(lg, snap, index) ==
  IF index > LastIndex(lg) THEN LastIndex(lg) + 1
  ELSE IF index <= snap THEN snap + 1
  ELSE RunStart(lg, snap, index)

\* Mutant: an entry with the same index is taken for the same entry.
FirstNewIndex(lg, prev, entries) ==
  CHOOSE k \in 1..(Len(entries) + 1) :
    /\ \A j \in 1..(k - 1) : prev + j <= Len(lg)
    /\ k = Len(entries) + 1 \/ prev + k > Len(lg)

\* The position in entries, which follow prev, of the first one that lg does
\* not already hold; Len(entries) + 1 when it holds them all.
FirstNew(lg, prev, entries) ==
  CHOOSE k \in 1..(Len(entries) + 1) :
    /\ \A j \in 1..(k - 1) : /\ prev + j <= Len(lg)
                             /\ lg[prev + j].term = entries[j].term
    /\ \/ k = Len(entries) + 1
       \/ prev + k > Len(lg)
       \/ lg[prev + k].term # entries[k].term

\* mergeEntriesLocked.  Entries that match are skipped; a mismatch at or
\* below commit is refused; any other mismatch truncates the log there
\* ("replaced", the WAL is rewritten); the rest is appended.
MergeEntries(lg, commit, prev, entries) ==
  LET k     == FirstNew(lg, prev, entries)
      index == prev + k
      fresh == SubSeq(entries, k, Len(entries))
  IN  IF k > Len(entries)
      THEN [conflict |-> 0, changed |-> FALSE, replaced |-> FALSE,
            appended |-> <<>>, log |-> lg]
      ELSE IF index > Len(lg)
      THEN [conflict |-> 0, changed |-> TRUE, replaced |-> FALSE,
            appended |-> fresh, log |-> lg \o fresh]
      ELSE IF index <= commit
      THEN [conflict |-> index, changed |-> FALSE, replaced |-> FALSE,
            appended |-> <<>>, log |-> lg]
      ELSE [conflict |-> 0, changed |-> TRUE, replaced |-> TRUE,
            appended |-> fresh, log |-> Prefix(lg, index - 1) \o fresh]

\* Mutants: the log is not replaced, or not when it is long enough.
AfterSnapshotIgnored(lg, snap, body) == lg

AfterSnapshotKept(lg, snap, body) == IF Len(lg) >= Len(body) THEN lg ELSE body

\* logAfterSnapshotLocked, and the reconciliation Load makes between a
\* snapshot and a WAL written before it: what follows the snapshot is kept
\* only when the log holds the snapshot's last entry.
AfterSnapshot(lg, snap, body) ==
  LET n == Len(body)
  IN  IF HasTermAt(lg, snap, n) /\ TermAt(lg, n) = LastTerm(body)
      THEN body \o SubSeq(lg, n + 1, Len(lg))
      ELSE body
=============================================================================
