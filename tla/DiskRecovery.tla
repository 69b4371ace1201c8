---------------------------- MODULE DiskRecovery ----------------------------
(***************************************************************************)
(* The disk of one follower: internal/storage/wal.go and the code of       *)
(* node.go that writes to it, in the steps in which a crash or another     *)
(* goroutine can see it.                                                   *)
(*                                                                         *)
(* Raft.tla takes persistSnapshot for one step and the WAL for the log     *)
(* that Load returns.  Here persistSnapshot has the steps of the code: it  *)
(* lets go of Node.mu around SaveSnapshot, so handlers run in between, and *)
(* the WAL is the file: a base record and numbered entries, which Load     *)
(* must read and reconcile with the snapshot file.                         *)
(*                                                                         *)
(* The leaders are given by their logs: the leader of term t may send any  *)
(* part of LeaderLog[t], and knows that LeaderCommit[t] is committed.      *)
(* A log is as in RaftLog; a snapshot is the log prefix it stands for.     *)
(***************************************************************************)
EXTENDS RaftLog

CONSTANTS
  LeaderLog,     \* sequence over terms of logs
  LeaderCommit,  \* sequence over terms of committed indexes
  SnapshotEvery, \* snapshotEvery; 0 is never
  Installs,      \* do leaders send snapshots?
  MaxFaults      \* bound: failed store calls and restarts, together

SameUpTo(a, b, n) == n <= LastIndex(a) /\ n <= LastIndex(b) /\ Prefix(a, n) = Prefix(b, n)

\* What the cluster guarantees of its leaders: a leader holds all that earlier
\* leaders committed.
ASSUME LeadersAssumption ==
  \A t \in DOMAIN LeaderLog : \A u \in t..Len(LeaderLog) :
    SameUpTo(LeaderLog[t], LeaderLog[u], LeaderCommit[t])
ASSUME DiskBoundsAssumption == /\ SnapshotEvery \in Nat
                               /\ Installs \in BOOLEAN
                               /\ MaxFaults \in Nat

VARIABLES
  currentTerm, log, snapIdx, commitIndex, lastApplied, fatal, \* Node
  persist,                                                    \* the apply loop
  hardState, snapFile, wal,                                   \* the files
  faults

memory == <<currentTerm, log, snapIdx, commitIndex, lastApplied, fatal>>
disk   == <<hardState, snapFile, wal>>
vars   == <<memory, persist, disk, faults>>

-----------------------------------------------------------------------------
(* wal.go.                                                                 *)

\* A WAL that is missing or empty.
NoWAL == [hasBase |-> FALSE, base |-> 0, baseTerm |-> 0, entries |-> <<>>]

\* The entries of lg after index, as lines of a WAL.
Lines(lg, index) ==
  [k \in 1..(LastIndex(lg) - index) |-> [index |-> index + k, term |-> lg[index + k].term]]

\* Mutants: a WAL is always based at 0, or one before the snapshot.
RewrittenAtZero(snap, lines) ==
  [hasBase |-> TRUE, base |-> 0, baseTerm |-> 0, entries |-> lines]

RewrittenBefore(snap, lines) ==
  [hasBase |-> TRUE, base |-> LastIndex(snap) - 1, baseTerm |-> LastTerm(snap),
   entries |-> lines]

\* writeWALAtomic with the base that snapshotBaseLocked reads from the snapshot
\* file snap.
Rewritten(snap, lines) ==
  [hasBase |-> TRUE, base |-> LastIndex(snap), baseTerm |-> LastTerm(snap), entries |-> lines]

\* AppendEntries: a new or empty WAL gets its base record first.
Appended(w, snap, lines) ==
  IF lines # <<>> /\ w = NoWAL THEN Rewritten(snap, lines)
  ELSE [w EXCEPT !.entries = @ \o lines]

\* What an AppendEntries that did not finish may leave: no line, or some, of
\* which Load drops a partial last one.
PartlyAppended(w, snap, lines) ==
  {w} \cup {Appended(w, snap, SubSeq(lines, 1, n)) : n \in 1..Len(lines)}
      \cup (IF w = NoWAL THEN {Rewritten(snap, <<>>)} ELSE {})

\* readWAL: the entries follow the base and each other.
Readable(w) ==
  \A k \in DOMAIN w.entries :
    /\ w.entries[k].index > 0
    /\ k = 1 /\ w.hasBase => w.entries[k].index = w.base + 1
    /\ k > 1 => w.entries[k].index = w.entries[k - 1].index + 1

\* Does Load succeed?
Loads ==
  /\ Readable(wal)
  /\ LastIndex(snapFile) = 0 => ~(wal.hasBase /\ wal.base > 0)

EntriesAfter(lines, index) == SelectSeq(lines, LAMBDA e : e.index > index)

\* Mutants: entries are kept whatever they follow, or only after the base.
ReconciledAlways(w, snap) == EntriesAfter(w.entries, LastIndex(snap))

ReconciledAtBase(w, snap) ==
  IF w.base = LastIndex(snap) /\ w.baseTerm = LastTerm(snap) THEN w.entries ELSE <<>>

\* reconcileWALWithSnapshot: the entries of a WAL are kept when it is based at
\* the snapshot or holds the snapshot's last entry.
Reconciled(w, snap) ==
  LET index == LastIndex(snap)
      term  == LastTerm(snap)
  IN  IF \/ index = 0
         \/ w.hasBase /\ w.base = index /\ w.baseTerm = term
         \/ \E k \in DOMAIN w.entries : w.entries[k] = [index |-> index, term |-> term]
      THEN EntriesAfter(w.entries, index)
      ELSE <<>>

\* The log that Load returns, the snapshot's entries included.
LoadedLog ==
  snapFile \o [k \in DOMAIN Reconciled(wal, snapFile) |->
                 [term |-> Reconciled(wal, snapFile)[k].term]]

\* The WAL as Load leaves it.
LoadedWAL ==
  LET lines == Reconciled(wal, snapFile)
  IN  IF \/ LastIndex(snapFile) = 0
         \/ /\ wal.hasBase /\ wal.base = LastIndex(snapFile)
            /\ wal.baseTerm = LastTerm(snapFile) /\ lines = wal.entries
         \/ wal = NoWAL
      THEN wal ELSE Rewritten(snapFile, lines)

-----------------------------------------------------------------------------
Idle == [pc |-> "idle", body |-> <<>>]

Init ==
  /\ currentTerm = 0 /\ log = <<>> /\ snapIdx = 0
  /\ commitIndex = 0 /\ lastApplied = 0 /\ fatal = FALSE
  /\ persist = Idle
  /\ hardState = [term |-> 0, commit |-> 0]
  /\ snapFile = <<>> /\ wal = NoWAL
  /\ faults = 0

Fault == faults < MaxFaults /\ faults' = faults + 1

-----------------------------------------------------------------------------
(* HandleAppendEntries.                                                    *)

\* Can the entries of a leader's log lead after prev be appended?
Fits(lead, prev) ==
  /\ prev >= snapIdx
  /\ HasTermAt(log, snapIdx, prev)
  /\ TermAt(log, prev) = TermAt(lead, prev)

\* The hard state once a new term of the leader, if it is one, is saved.
FollowedState(t) ==
  IF t > currentTerm THEN [term |-> t, commit |-> commitIndex] ELSE hardState

\* A step-down that could not be saved: the node fails closed.
StepDownFails(t) ==
  /\ ~fatal /\ t > currentTerm
  /\ currentTerm' = t
  /\ hardState' \in {hardState, FollowedState(t)}
  /\ fatal' = TRUE
  /\ Fault
  /\ UNCHANGED <<log, snapIdx, commitIndex, lastApplied, persist, snapFile, wal>>

\* The request of the leader of term t with the entries prev+1..last of its log
\* and the commit index c.
HandleAppendEntries(t, prev, last, c) ==
  LET lead    == LeaderLog[t]
      merge   == MergeEntries(log, commitIndex, prev, SubSeq(lead, prev + 1, last))
      lines   == Lines(merge.log, LastIndex(log))
      rewrite == Rewritten(snapFile, Lines(merge.log, snapIdx))
      commit  == IF c < last THEN c ELSE last
      fits    == Fits(lead, prev) /\ merge.conflict = 0
  IN  /\ ~fatal /\ t >= currentTerm
      /\ currentTerm' = t
      /\ \/ /\ ~fits
            /\ hardState' = FollowedState(t)
            /\ UNCHANGED <<log, commitIndex, fatal, wal, faults>>
         \/ /\ fits
            /\ log' = merge.log
            /\ wal' = IF merge.replaced THEN rewrite ELSE Appended(wal, snapFile, lines)
            /\ \/ /\ commit <= commitIndex
                  /\ hardState' = FollowedState(t)
                  /\ UNCHANGED <<commitIndex, faults>>
               \/ /\ commit > commitIndex
                  /\ hardState' = [term |-> t, commit |-> commit]
                  /\ commitIndex' = commit
                  /\ UNCHANGED faults
               \/ /\ commit > commitIndex
                  /\ hardState' \in {FollowedState(t), [term |-> t, commit |-> commit]}
                  /\ Fault
                  /\ UNCHANGED commitIndex
            /\ UNCHANGED fatal
         \/ /\ fits /\ merge.changed
            /\ wal' \in IF merge.replaced THEN {wal, rewrite}
                        ELSE PartlyAppended(wal, snapFile, lines)
            /\ fatal' = TRUE
            /\ hardState' = FollowedState(t)
            /\ Fault
            /\ UNCHANGED <<log, commitIndex>>
      /\ UNCHANGED <<snapIdx, lastApplied, persist, snapFile>>

-----------------------------------------------------------------------------
(* HandleInstallSnapshot, its last chunk.                                  *)

\* The leader of term t sends its snapshot at index.  The handler holds
\* snapshotPersistMu, so it does not run between the steps of persistSnapshot.
\* A failed call leaves the writes before it, and perhaps its own.  (A snapshot
\* of what is committed here already changes no more than a request that does
\* not fit.)
HandleInstallSnapshot(t, index) ==
  LET body   == Prefix(LeaderLog[t], index)
      newLog == AfterSnapshot(log, snapIdx, body)
  IN  /\ Installs
      /\ ~fatal /\ t >= currentTerm
      /\ index > commitIndex
      /\ persist.pc \in {"idle", "taken"}
      /\ currentTerm' = t
      /\ \E written \in 0..3 :
           /\ snapFile' = IF written >= 1 THEN body ELSE snapFile
           /\ wal' = IF written >= 2 THEN Rewritten(body, Lines(newLog, index)) ELSE wal
           /\ hardState' = IF written = 3 THEN [term |-> t, commit |-> index]
                                          ELSE FollowedState(t)
           /\ \/ /\ written = 3
                 /\ log' = newLog
                 /\ snapIdx' = index
                 /\ commitIndex' = index
                 /\ lastApplied' = index
                 /\ UNCHANGED <<fatal, faults>>
              \/ /\ fatal' = TRUE
                 /\ Fault
                 /\ UNCHANGED <<log, snapIdx, commitIndex, lastApplied>>
      /\ UNCHANGED persist

-----------------------------------------------------------------------------
(* The apply loop, which does not look at storageFatal.                    *)

\* One round of applyReady; it takes a snapshot when the log has grown.
Apply ==
  LET applied == lastApplied + 1
  IN  /\ persist.pc = "idle"
      /\ lastApplied < commitIndex
      /\ lastApplied' = applied
      /\ persist' = IF SnapshotEvery > 0 /\ LastIndex(log) - snapIdx > SnapshotEvery
                    THEN [pc |-> "taken", body |-> Prefix(log, applied)]
                    ELSE Idle
      /\ UNCHANGED <<currentTerm, log, snapIdx, commitIndex, fatal, disk, faults>>

\* persistSnapshot's test.  It is made again before the log is cut, when it
\* cannot fail: snapshotPersistMu keeps snapIdx as it is.
Wanted == LastIndex(persist.body) > snapIdx /\ LastIndex(persist.body) <= lastApplied

\* persistSnapshot gets snapshotPersistMu and tests under Node.mu.
CheckSnapshot ==
  /\ persist.pc = "taken"
  /\ persist' = IF Wanted THEN [persist EXCEPT !.pc = "checked"] ELSE Idle
  /\ UNCHANGED <<memory, disk, faults>>

\* SaveSnapshot, without Node.mu.
SaveSnapshot ==
  /\ persist.pc = "checked"
  /\ \/ /\ snapFile' = persist.body
        /\ persist' = [persist EXCEPT !.pc = "saved"]
        /\ UNCHANGED faults
     \/ /\ snapFile' \in {snapFile, persist.body}
        /\ persist' = Idle
        /\ Fault
  /\ UNCHANGED <<memory, hardState, wal>>

\* Under Node.mu again: the WAL is rewritten and the log cut, or neither is.
CutLog ==
  LET index   == LastIndex(persist.body)
      rewrite == Rewritten(snapFile, Lines(log, index))
  IN  /\ persist.pc = "saved" /\ Wanted
      /\ persist' = Idle
      /\ \/ snapIdx' = index /\ wal' = rewrite /\ UNCHANGED faults
         \/ wal' \in {wal, rewrite} /\ Fault /\ UNCHANGED snapIdx
      /\ UNCHANGED <<currentTerm, log, commitIndex, lastApplied, fatal, hardState, snapFile>>

-----------------------------------------------------------------------------
\* A crash, or Stop, and NewNode on the same directory, when Load succeeds.
Restart ==
  LET commit == IF hardState.commit < LastIndex(snapFile) THEN LastIndex(snapFile)
                ELSE IF hardState.commit > LastIndex(LoadedLog) THEN LastIndex(LoadedLog)
                ELSE hardState.commit
  IN  /\ Loads
      /\ Fault
      /\ currentTerm' = hardState.term
      /\ log' = LoadedLog
      /\ snapIdx' = LastIndex(snapFile)
      /\ commitIndex' = commit
      /\ lastApplied' = commit
      /\ fatal' = FALSE
      /\ persist' = Idle
      /\ wal' = LoadedWAL
      /\ hardState' = [hardState EXCEPT !.commit = commit]
      /\ UNCHANGED snapFile

Next ==
  \/ \E t \in DOMAIN LeaderLog :
       \/ \E last \in 0..LastIndex(LeaderLog[t]) : \E prev \in 0..last :
            \E c \in 0..LeaderCommit[t] : HandleAppendEntries(t, prev, last, c)
       \/ \E index \in 1..LeaderCommit[t] : HandleInstallSnapshot(t, index)
       \/ StepDownFails(t)
  \/ Apply \/ CheckSnapshot \/ SaveSnapshot \/ CutLog
  \/ Restart

Spec == Init /\ [][Next]_vars

-----------------------------------------------------------------------------
(* Properties.                                                             *)

\* Files and memory have their types, and a snapshot on its way to the disk is
\* a prefix of the log.
DiskTypeOK ==
  /\ {currentTerm, snapIdx, commitIndex, lastApplied, faults} \subseteq Nat
  /\ fatal \in BOOLEAN
  /\ persist.pc \in {"idle", "taken", "checked", "saved"}
  /\ hardState \in [term : Nat, commit : Nat]
  /\ wal.base \in Nat /\ wal.baseTerm \in Nat
  /\ \A k \in DOMAIN wal.entries : wal.entries[k] \in [index : Nat, term : Nat]
  /\ \A lg \in {log, snapFile, persist.body} :
       \A k \in DOMAIN lg : lg[k] \in [term : Nat]

\* Whenever the node is stopped or crashes, Load can read what is on disk: the
\* WAL written by AppendEntries and ReplaceEntries follows its base record.
Recoverable == Loads

\* Load never makes up a log: what it returns is the beginning of a leader's log,
\* also when a crash left an old WAL beside an installed snapshot.
SuffixTrusted ==
  \E t \in DOMAIN LeaderLog :
    SameUpTo(LoadedLog, LeaderLog[t], LastIndex(LoadedLog))

\* A node in service that restarts has the log it had, also between SaveSnapshot
\* and the rewriting of the WAL.
LogRecovered == ~fatal => LoadedLog = log

\* Whatever fails, and wherever a crash comes, a restart finds all that the
\* node had committed.
CommittedRecovered == SameUpTo(LoadedLog, log, commitIndex)
=============================================================================
