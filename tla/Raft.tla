-------------------------------- MODULE Raft --------------------------------
(***************************************************************************)
(* The replicated core of internal/raft/node.go: elections, replication,   *)
(* commitment, snapshots and restarts of a fixed set of nodes.             *)
(*                                                                         *)
(* One action is one critical section of Node.mu, which is the atomicity   *)
(* the code has.  RPCs run outside the lock, so a request and its response *)
(* are separate messages; a response carries the values that the goroutine *)
(* waiting for it has captured (term, prevIndex + len(entries)).  msgs     *)
(* only grows: a message may be lost (never received), delayed, reordered  *)
(* or received twice, and requests of a node outlive its restarts.         *)
(*                                                                         *)
(* Every store call may fail.  "clean" leaves the file as it was; "dirty"  *)
(* reports an error although the new content reached the disk (the rename  *)
(* happened and the fsync of the directory failed, or a prefix of the      *)
(* appended lines was written).  A crash inside a handler leaves the disk  *)
(* that one of these failures leaves and is followed by Restart.           *)
(***************************************************************************)
EXTENDS RaftLog, FiniteSets

CONSTANTS
  Node,        \* the cluster: cfg.Peers
  Command,     \* the client commands that may be proposed
  None,        \* the empty votedFor
  NoOp,        \* storage.OpNoop
  SnapshotsOn, \* is snapshotEvery > 0
  MaxTerm,     \* bound: no election past this term
  MaxLog,      \* bound: no proposal once the log is this long
  MaxFaults    \* bound: failed store calls and restarts, together

ASSUME NodeAssumption == IsFiniteSet(Node) /\ Node # {} /\ None \notin Node
ASSUME CommandAssumption == NoOp \notin Command
ASSUME BoundsAssumption == /\ MaxTerm \in Nat
                           /\ MaxLog \in Nat
                           /\ MaxFaults \in Nat
                           /\ SnapshotsOn \in BOOLEAN

VARIABLES
  \* Node, in memory
  role, currentTerm, votedFor, fatal, \* fatal: storageFatal # nil
  log, snapIdx, commitIndex,          \* the log as in RaftLog
  nextIndex, matchIndex,
  \* Store, on disk
  hardState, wal, snapFile,           \* wal: the log that Load would return
  \* the network, and the number of faults so far
  msgs, faults

electionVars == <<role, currentTerm, votedFor, fatal>>
logVars      == <<log, snapIdx, commitIndex>>
leaderVars   == <<nextIndex, matchIndex>>
diskVars     == <<hardState, wal, snapFile>>
vars == <<electionVars, logVars, leaderVars, diskVars, msgs, faults>>

Role    == {"Follower", "Candidate", "Leader"}
Term    == Nat
Index   == Nat
Entry   == [term : Term, command : Command \cup {NoOp}]
Log     == Seq(Entry)
Outcome == {"ok", "clean", "dirty"}

Message ==
       [type : {"RequestVote"}, term : Term, from : Node,
        lastIndex : Index, lastTerm : Term]
  \cup [type : {"VoteGranted"}, term : Term, from : Node, to : Node]
  \cup [type : {"AppendEntries"}, term : Term, from : Node, to : Node,
        prevIndex : Index, prevTerm : Term, entries : Log,
        commit : Index]
  \cup [type : {"AppendOK"}, term : Term, from : Node, to : Node,
        match : Index]
  \cup [type : {"AppendConflict"}, term : Term, from : Node, to : Node,
        index : Index]
  \cup [type : {"InstallSnapshot"}, term : Term, from : Node, to : Node,
        body : Log]
  \cup [type : {"InstallOK"}, term : Term, from : Node, to : Node,
        match : Index]
  \cup [type : {"Refused"}, term : Term, to : Node]

quorum == Cardinality(Node) \div 2 + 1

IsQuorum(S) == Cardinality(S) >= quorum

Init ==
  /\ role        = [i \in Node |-> "Follower"]
  /\ currentTerm = [i \in Node |-> 0]
  /\ votedFor    = [i \in Node |-> None]
  /\ fatal       = [i \in Node |-> FALSE]
  /\ log         = [i \in Node |-> <<>>]
  /\ snapIdx     = [i \in Node |-> 0]
  /\ commitIndex = [i \in Node |-> 0]
  /\ nextIndex   = [i \in Node |-> [j \in Node |-> 0]]
  /\ matchIndex  = [i \in Node |-> [j \in Node |-> 0]]
  /\ hardState   = [i \in Node |-> [term |-> 0, vote |-> None, commit |-> 0]]
  /\ wal         = [i \in Node |-> <<>>]
  /\ snapFile    = [i \in Node |-> 0]
  /\ msgs        = {}
  /\ faults      = 0

-----------------------------------------------------------------------------
(* Store calls.                                                            *)

\* A store call ends with outcome o; failures are counted.
Try(o) ==
  /\ o # "ok" => faults < MaxFaults
  /\ faults' = IF o = "ok" THEN faults ELSE faults + 1

\* Mutant: the vote is not part of what is saved.
HardStateNoVote(t, v, c) == [term |-> t, vote |-> None, commit |-> c]

HardState(t, v, c) == [term |-> t, vote |-> v, commit |-> c]

\* What SaveHardState(new) with outcome o leaves of the file content old.
Saved(o, old, new) == IF o = "clean" THEN old ELSE new

\* What a store call that writes the log change merge may leave on disk: an
\* append may have written only some lines, a rewrite is an atomic rename.
WalOutcomes(o, old, merge) ==
  CASE o = "ok"    -> {IF merge.replaced THEN merge.log ELSE old \o merge.appended}
    [] o = "clean" -> {old}
    [] o = "dirty" -> IF merge.replaced THEN {merge.log}
                      ELSE {old \o SubSeq(merge.appended, 1, n) :
                              n \in 1..Len(merge.appended)}

Appending(lg, e) == [conflict |-> 0, changed |-> TRUE, replaced |-> FALSE,
                     appended |-> <<e>>, log |-> Append(lg, e)]

-----------------------------------------------------------------------------
(* Changing role and term.                                                 *)

\* The vote kept when the node becomes a follower in term t.
FollowerVote(i, t) == IF t > currentTerm[i] THEN None ELSE votedFor[i]

\* The hard state that becomeFollowerLocked saves.
FollowerState(i, t) ==
  HardState(IF t > currentTerm[i] THEN t ELSE currentTerm[i],
            FollowerVote(i, t), commitIndex[i])

\* Mutant: a failed save does not make the node fail closed.
BecomeFollowerInService(i, t, o) ==
  /\ currentTerm' = [currentTerm EXCEPT ![i] = FollowerState(i, t).term]
  /\ votedFor' = [votedFor EXCEPT ![i] = FollowerVote(i, t)]
  /\ role' = [role EXCEPT ![i] = "Follower"]
  /\ hardState' = [hardState EXCEPT ![i] = Saved(o, @, FollowerState(i, t))]
  /\ Try(o)
  /\ UNCHANGED fatal

\* becomeFollowerLocked: a node that cannot save the new term fails closed.
BecomeFollower(i, t, o) ==
  /\ currentTerm' = [currentTerm EXCEPT ![i] = FollowerState(i, t).term]
  /\ votedFor' = [votedFor EXCEPT ![i] = FollowerVote(i, t)]
  /\ role' = [role EXCEPT ![i] = "Follower"]
  /\ fatal' = [fatal EXCEPT ![i] = @ \/ o # "ok"]
  /\ hardState' = [hardState EXCEPT ![i] = Saved(o, @, FollowerState(i, t))]
  /\ Try(o)

\* The checks every RPC handler starts with.
Admits(i, m) == ~fatal[i] /\ m.term >= currentTerm[i]

\* The answer to a request that is not admitted carries only the term, which
\* matters to the requester when it is higher than its own.
Refuse(i, m) ==
  /\ ~Admits(i, m)
  /\ msgs' = IF currentTerm[i] > m.term
             THEN msgs \cup {[type |-> "Refused", term |-> currentTerm[i],
                              to |-> m.from]}
             ELSE msgs
  /\ UNCHANGED <<electionVars, logVars, leaderVars, diskVars, faults>>

\* Must an AppendEntries or InstallSnapshot handler step down first?
StepsDown(i, m) == m.term > currentTerm[i] \/ role[i] # "Follower"

\* The handler could not save the step-down and gives up.
StepDownFails(i, m) ==
  /\ Admits(i, m)
  /\ \E o \in Outcome \ {"ok"} : BecomeFollower(i, m.term, o)
  /\ UNCHANGED <<logVars, leaderVars, wal, snapFile, msgs>>

\* The hard state on disk once the handler's step-down, if any, is saved.
StateAfterStepDown(i, m) ==
  IF StepsDown(i, m) THEN FollowerState(i, m.term) ELSE hardState[i]

\* The node follows the leader that sent m.
Follow(i, m) ==
  /\ Admits(i, m)
  /\ currentTerm' = [currentTerm EXCEPT ![i] = m.term]
  /\ votedFor' = [votedFor EXCEPT ![i] = FollowerVote(i, m.term)]
  /\ role' = [role EXCEPT ![i] = "Follower"]

-----------------------------------------------------------------------------
(* Elections.                                                              *)

\* startElection up to the RPCs.  A term that could not be saved is rolled
\* back, and no vote is asked for.
StartElection(i) ==
  /\ role[i] # "Leader" /\ ~fatal[i]
  /\ currentTerm[i] < MaxTerm
  /\ \E o \in Outcome :
       LET t == currentTerm[i] + 1
       IN  /\ hardState' = [hardState EXCEPT
                              ![i] = Saved(o, @, HardState(t, i, commitIndex[i]))]
           /\ Try(o)
           /\ \/ /\ o = "ok"
                 /\ role' = [role EXCEPT ![i] = "Candidate"]
                 /\ currentTerm' = [currentTerm EXCEPT ![i] = t]
                 /\ votedFor' = [votedFor EXCEPT ![i] = i]
                 /\ msgs' = msgs \cup
                      {[type |-> "RequestVote", term |-> t, from |-> i,
                        lastIndex |-> LastIndex(log[i]),
                        lastTerm |-> LastTerm(log[i])]}
              \/ /\ o # "ok"
                 /\ UNCHANGED <<role, currentTerm, votedFor, msgs>>
  /\ UNCHANGED <<fatal, logVars, leaderVars, wal, snapFile>>

\* Mutant: votedFor is not looked at.
GrantsVoteAgain(i, m) == UpToDate(m.lastTerm, m.lastIndex, log[i])

GrantsVote(i, m) ==
  /\ FollowerVote(i, m.term) \in {None, m.from}
  /\ UpToDate(m.lastTerm, m.lastIndex, log[i])

\* HandleRequestVote with the request admitted and the higher term, if it is
\* one, saved.  A vote that could not be saved is taken back and refused.
Vote(i, m) ==
  /\ Admits(i, m)
  /\ currentTerm' = [currentTerm EXCEPT ![i] = m.term]
  /\ role' = [role EXCEPT ![i] = IF m.term > currentTerm[i] THEN "Follower" ELSE @]
  /\ LET hs    == IF m.term > currentTerm[i] THEN FollowerState(i, m.term)
                                             ELSE hardState[i]
         voted == HardState(m.term, m.from, commitIndex[i])
     IN  \/ /\ ~GrantsVote(i, m)
            /\ votedFor' = [votedFor EXCEPT ![i] = FollowerVote(i, m.term)]
            /\ hardState' = [hardState EXCEPT ![i] = hs]
            /\ UNCHANGED <<msgs, faults>>
         \/ /\ GrantsVote(i, m)
            /\ votedFor' = [votedFor EXCEPT ![i] = m.from]
            /\ hardState' = [hardState EXCEPT ![i] = voted]
            /\ msgs' = msgs \cup {[type |-> "VoteGranted", term |-> m.term,
                                   from |-> i, to |-> m.from]}
            /\ UNCHANGED faults
         \/ /\ GrantsVote(i, m)
            /\ votedFor' = [votedFor EXCEPT ![i] = FollowerVote(i, m.term)]
            /\ \E o \in Outcome \ {"ok"} :
                 /\ hardState' = [hardState EXCEPT ![i] = Saved(o, hs, voted)]
                 /\ Try(o)
            /\ UNCHANGED msgs
  /\ UNCHANGED <<fatal, logVars, leaderVars, wal, snapFile>>

HandleRequestVote(i, m) ==
  /\ m.type = "RequestVote" /\ m.from # i
  /\ \/ Refuse(i, m)
     \/ m.term > currentTerm[i] /\ StepDownFails(i, m)
     \/ Vote(i, m)

\* The nodes whose votes the election goroutine of i can have counted.
Voters(i) ==
  {i} \cup {j \in Node : [type |-> "VoteGranted", term |-> currentTerm[i],
                          from |-> j, to |-> i] \in msgs}

\* advanceCommitLocked: the highest index of the current term that a quorum
\* holds, or the commit index when there is none above it.
NewCommit(i, lg, match) ==
  LET held == {n \in (commitIndex[i] + 1)..LastIndex(lg) :
                 /\ lg[n].term = currentTerm[i]
                 /\ IsQuorum({i} \cup {j \in Node \ {i} : match[j] >= n})}
  IN  IF held = {} THEN commitIndex[i]
      ELSE CHOOSE n \in held : \A k \in held : k <= n

\* The leader i saves and publishes its new commit index, or fails closed.
AdvanceCommit(i, lg, match, o) ==
  LET n == NewCommit(i, lg, match)
  IN  /\ n = commitIndex[i] => o = "ok"
      /\ commitIndex' = [commitIndex EXCEPT ![i] = IF o = "ok" THEN n ELSE @]
      /\ hardState' = [hardState EXCEPT
                         ![i] = IF n = commitIndex[i] THEN @
                                ELSE Saved(o, @, HardState(currentTerm[i], votedFor[i], n))]
      /\ role' = [role EXCEPT ![i] = IF o = "ok" THEN "Leader" ELSE "Follower"]
      /\ fatal' = [fatal EXCEPT ![i] = o # "ok"]
      /\ Try(o)

\* The leader i appends an entry of its own (becomeLeader, proposeAppend):
\* WAL first, then memory, then the commit index.
LeaderAppend(i, command, match) ==
  LET e == [term |-> currentTerm[i], command |-> command]
      merge == Appending(log[i], e)
  IN  \/ /\ wal' = [wal EXCEPT ![i] = Append(@, e)]
         /\ log' = [log EXCEPT ![i] = merge.log]
         /\ \E o \in Outcome : AdvanceCommit(i, merge.log, match, o)
      \/ \E o \in Outcome \ {"ok"} :
           /\ \E w \in WalOutcomes(o, wal[i], merge) : wal' = [wal EXCEPT ![i] = w]
           /\ role' = [role EXCEPT ![i] = "Follower"]
           /\ fatal' = [fatal EXCEPT ![i] = TRUE]
           /\ Try(o)
           /\ UNCHANGED <<log, commitIndex, hardState>>

\* The election goroutine has a quorum of votes and calls becomeLeader.
BecomeLeader(i) ==
  /\ role[i] = "Candidate"
  /\ IsQuorum(Voters(i))
  /\ nextIndex' = [nextIndex EXCEPT
       ![i] = [j \in Node |-> IF j = i THEN 0 ELSE LastIndex(log[i]) + 1]]
  /\ matchIndex' = [matchIndex EXCEPT ![i] = [j \in Node |-> 0]]
  /\ LeaderAppend(i, NoOp, [j \in Node |-> 0])
  /\ UNCHANGED <<currentTerm, votedFor, snapIdx, snapFile, msgs>>

-----------------------------------------------------------------------------
(* Replication.                                                            *)

\* proposeAppend.
Propose(i, command) ==
  /\ role[i] = "Leader" /\ ~fatal[i]
  /\ LastIndex(log[i]) < MaxLog
  /\ LeaderAppend(i, command, matchIndex[i])
  /\ UNCHANGED <<currentTerm, votedFor, snapIdx, leaderVars, snapFile, msgs>>

\* One attempt of replicateToPeer up to the RPC: the snapshot when the peer
\* needs entries that are compacted away, else every entry from nextIndex.
ReplicateToPeer(i, j) ==
  /\ role[i] = "Leader" /\ j # i
  /\ LET next == IF nextIndex[i][j] = 0 THEN LastIndex(log[i]) + 1
                                        ELSE nextIndex[i][j]
         known == HasTermAt(log[i], snapIdx[i], next - 1)
     IN  IF next <= snapIdx[i]
         THEN /\ msgs' = msgs \cup
                   {[type |-> "InstallSnapshot", term |-> currentTerm[i],
                     from |-> i, to |-> j, body |-> Prefix(log[i], snapIdx[i])]}
              /\ nextIndex' = [nextIndex EXCEPT ![i][j] = next]
         ELSE IF known
         THEN /\ msgs' = msgs \cup
                   {[type |-> "AppendEntries", term |-> currentTerm[i],
                     from |-> i, to |-> j, prevIndex |-> next - 1,
                     prevTerm |-> TermAt(log[i], next - 1),
                     entries |-> EntriesFrom(log[i], next),
                     commit |-> commitIndex[i]]}
              /\ nextIndex' = [nextIndex EXCEPT ![i][j] = next]
         ELSE /\ nextIndex' = [nextIndex EXCEPT ![i][j] = snapIdx[i] + 1]
              /\ UNCHANGED msgs
  /\ UNCHANGED <<electionVars, logVars, matchIndex, diskVars, faults>>

\* Mutant: prevLogTerm is not compared.
AppendConflictAnyTerm(i, m) ==
  IF m.prevIndex < snapIdx[i] THEN snapIdx[i] + 1
  ELSE IF ~HasTermAt(log[i], snapIdx[i], m.prevIndex)
  THEN ConflictIndex(log[i], snapIdx[i], m.prevIndex)
  ELSE MergeEntries(log[i], commitIndex[i], m.prevIndex, m.entries).conflict

\* The index at which HandleAppendEntries finds that it cannot append m, or 0.
AppendConflictAt(i, m) ==
  IF m.prevIndex < snapIdx[i] THEN snapIdx[i] + 1
  ELSE IF \/ ~HasTermAt(log[i], snapIdx[i], m.prevIndex)
          \/ TermAt(log[i], m.prevIndex) # m.prevTerm
  THEN ConflictIndex(log[i], snapIdx[i], m.prevIndex)
  ELSE MergeEntries(log[i], commitIndex[i], m.prevIndex, m.entries).conflict

RejectEntries(i, m) ==
  /\ Follow(i, m)
  /\ AppendConflictAt(i, m) # 0
  /\ hardState' = [hardState EXCEPT ![i] = StateAfterStepDown(i, m)]
  /\ msgs' = msgs \cup {[type |-> "AppendConflict", term |-> m.term,
                         from |-> i, to |-> m.from,
                         index |-> AppendConflictAt(i, m)]}
  /\ UNCHANGED <<fatal, logVars, leaderVars, wal, snapFile, faults>>

\* The entries could not be written: the log is rolled back, the node fails
\* closed.
AppendFails(i, m) ==
  LET merge == MergeEntries(log[i], commitIndex[i], m.prevIndex, m.entries)
  IN  /\ Follow(i, m)
      /\ AppendConflictAt(i, m) = 0
      /\ merge.changed
      /\ hardState' = [hardState EXCEPT ![i] = StateAfterStepDown(i, m)]
      /\ \E o \in Outcome \ {"ok"} :
           /\ \E w \in WalOutcomes(o, wal[i], merge) : wal' = [wal EXCEPT ![i] = w]
           /\ Try(o)
      /\ fatal' = [fatal EXCEPT ![i] = TRUE]
      /\ UNCHANGED <<logVars, leaderVars, snapFile, msgs>>

\* Mutant: off by one.
LastNewIndexPast(m) == m.prevIndex + Len(m.entries) + 1

\* The last index the request speaks about.
LastNewIndex(m) == m.prevIndex + Len(m.entries)

\* How far the request lets a follower commit.
FollowerCommit(m) == IF m.commit < LastNewIndex(m) THEN m.commit ELSE LastNewIndex(m)

\* The entries are in the log; the commit index follows the leader's, no
\* further than the last entry of the request.  When it cannot be saved it is
\* rolled back and the request is not acknowledged.
AcceptEntries(i, m) ==
  LET merge == MergeEntries(log[i], commitIndex[i], m.prevIndex, m.entries)
      newCommit == FollowerCommit(m)
      hs == StateAfterStepDown(i, m)
      advanced == HardState(m.term, FollowerVote(i, m.term), newCommit)
      ack == [type |-> "AppendOK", term |-> m.term, from |-> i,
              to |-> m.from, match |-> LastNewIndex(m)]
  IN  /\ Follow(i, m)
      /\ AppendConflictAt(i, m) = 0
      /\ log' = [log EXCEPT ![i] = merge.log]
      /\ wal' = [wal EXCEPT ![i] = IF merge.replaced THEN merge.log
                                   ELSE @ \o merge.appended]
      /\ \/ /\ newCommit <= commitIndex[i]
            /\ hardState' = [hardState EXCEPT ![i] = hs]
            /\ msgs' = msgs \cup {ack}
            /\ UNCHANGED <<commitIndex, faults>>
         \/ /\ newCommit > commitIndex[i]
            /\ hardState' = [hardState EXCEPT ![i] = advanced]
            /\ commitIndex' = [commitIndex EXCEPT ![i] = newCommit]
            /\ msgs' = msgs \cup {ack}
            /\ UNCHANGED faults
         \/ /\ newCommit > commitIndex[i]
            /\ \E o \in Outcome \ {"ok"} :
                 /\ hardState' = [hardState EXCEPT ![i] = Saved(o, hs, advanced)]
                 /\ Try(o)
            /\ UNCHANGED <<commitIndex, msgs>>
      /\ UNCHANGED <<fatal, snapIdx, leaderVars, snapFile>>

HandleAppendEntries(i, m) ==
  /\ m.type = "AppendEntries" /\ m.to = i
  /\ \/ Refuse(i, m)
     \/ StepsDown(i, m) /\ StepDownFails(i, m)
     \/ RejectEntries(i, m)
     \/ AppendFails(i, m)
     \/ AcceptEntries(i, m)

\* A response of the current term reaches the goroutine of the leader i.
Awaits(i, m) == m.to = i /\ role[i] = "Leader" /\ currentTerm[i] = m.term

AtLeast(n, k) == IF n < k THEN k ELSE n

\* matchIndex and nextIndex of a peer after it acknowledged index match.
Matched(i, j, match) ==
  /\ matchIndex' = [matchIndex EXCEPT ![i][j] = AtLeast(@, match)]
  /\ nextIndex' = [nextIndex EXCEPT ![i][j] = AtLeast(@, match + 1)]

HandleAppendOK(i, m) ==
  /\ m.type = "AppendOK" /\ Awaits(i, m)
  /\ Matched(i, m.from, m.match)
  /\ \E o \in Outcome :
       AdvanceCommit(i, log[i],
         [matchIndex[i] EXCEPT ![m.from] = AtLeast(@, m.match)], o)
  /\ UNCHANGED <<currentTerm, votedFor, log, snapIdx, wal, snapFile, msgs>>

\* Mutants: the conflict index is taken for the last one to keep, or for one
\* further back.
RetryBeforeConflict(i, m) ==
  /\ m.type = "AppendConflict" /\ Awaits(i, m)
  /\ nextIndex' = [nextIndex EXCEPT ![i][m.from] = m.index - 1]
  /\ UNCHANGED <<electionVars, logVars, matchIndex, diskVars, msgs, faults>>

RetryTwoBefore(i, m) ==
  /\ m.type = "AppendConflict" /\ Awaits(i, m)
  /\ nextIndex' = [nextIndex EXCEPT ![i][m.from] = m.index - 2]
  /\ UNCHANGED <<electionVars, logVars, matchIndex, diskVars, msgs, faults>>

HandleAppendConflict(i, m) ==
  /\ m.type = "AppendConflict" /\ Awaits(i, m)
  /\ nextIndex' = [nextIndex EXCEPT ![i][m.from] = m.index]
  /\ UNCHANGED <<electionVars, logVars, matchIndex, diskVars, msgs, faults>>

\* A response with a higher term (replicateToPeer, sendSnapshot, and stepDown in
\* startElection, which does not look whether the node has moved on meanwhile).
HandleRefused(i, m) ==
  /\ m.type = "Refused" /\ m.to = i
  /\ m.term > currentTerm[i] \/ role[i] = "Follower"
  /\ \E o \in Outcome : BecomeFollower(i, m.term, o)
  /\ UNCHANGED <<logVars, leaderVars, wal, snapFile, msgs>>

-----------------------------------------------------------------------------
(* Snapshots and restarts.                                                 *)

\* The apply loop snapshots the state machine at an applied, hence committed,
\* index and the log before it is dropped (applyReady, persistSnapshot).  A
\* failed call is not fatal: the node goes on with its log, also when the
\* snapshot file is already the new one.
PersistSnapshot(i, index) ==
  /\ SnapshotsOn
  /\ index > snapIdx[i] /\ index <= commitIndex[i]
  /\ \/ /\ snapIdx' = [snapIdx EXCEPT ![i] = index]
        /\ snapFile' = [snapFile EXCEPT ![i] = index]
        /\ wal' = [wal EXCEPT ![i] = log[i]]
        /\ UNCHANGED faults
     \/ /\ Try("clean")
        /\ UNCHANGED <<snapIdx, snapFile, wal>>
     \/ /\ Try("dirty")
        /\ snapFile' = [snapFile EXCEPT ![i] = index]
        /\ wal' \in {wal, [wal EXCEPT ![i] = log[i]]}
        /\ UNCHANGED snapIdx
  /\ UNCHANGED <<electionVars, log, commitIndex, leaderVars, hardState, msgs>>

AckSnapshot(m, i) == [type |-> "InstallOK", term |-> m.term, from |-> i,
                      to |-> m.from, match |-> LastIndex(m.body)]

\* A snapshot of entries that are already committed here is acknowledged and
\* not installed.
SkipSnapshot(i, m) ==
  /\ Follow(i, m)
  /\ LastIndex(m.body) <= commitIndex[i]
  /\ hardState' = [hardState EXCEPT ![i] = StateAfterStepDown(i, m)]
  /\ msgs' = msgs \cup {AckSnapshot(m, i)}
  /\ UNCHANGED <<fatal, logVars, leaderVars, wal, snapFile, faults>>

\* The last chunk of a snapshot: snapshot file, WAL and hard state are written
\* in this order, then memory changes.  With the snapshot file alone written,
\* Load already makes newLog of the old WAL.
InstallSnapshot(i, m) ==
  LET newLog    == AfterSnapshot(log[i], snapIdx[i], m.body)
      index     == LastIndex(m.body)
      installed == HardState(m.term, FollowerVote(i, m.term), index)
  IN  /\ Follow(i, m)
      /\ index > commitIndex[i]
      /\ \/ /\ log' = [log EXCEPT ![i] = newLog]
            /\ snapIdx' = [snapIdx EXCEPT ![i] = index]
            /\ commitIndex' = [commitIndex EXCEPT ![i] = index]
            /\ wal' = [wal EXCEPT ![i] = newLog]
            /\ snapFile' = [snapFile EXCEPT ![i] = index]
            /\ hardState' = [hardState EXCEPT ![i] = installed]
            /\ msgs' = msgs \cup {AckSnapshot(m, i)}
            /\ UNCHANGED <<fatal, faults>>
         \/ /\ \E o \in Outcome \ {"ok"} :
                 /\ wal' = [wal EXCEPT ![i] = Saved(o, @, newLog)]
                 /\ snapFile' = [snapFile EXCEPT ![i] = Saved(o, @, index)]
                 /\ \/ hardState' = [hardState EXCEPT ![i] = StateAfterStepDown(i, m)]
                    \/ /\ o = "dirty"
                       /\ hardState' = [hardState EXCEPT ![i] = installed]
                 /\ Try(o)
            /\ fatal' = [fatal EXCEPT ![i] = TRUE]
            /\ UNCHANGED <<logVars, msgs>>
      /\ UNCHANGED leaderVars

HandleInstallSnapshot(i, m) ==
  /\ m.type = "InstallSnapshot" /\ m.to = i
  /\ \/ Refuse(i, m)
     \/ StepsDown(i, m) /\ StepDownFails(i, m)
     \/ SkipSnapshot(i, m)
     \/ InstallSnapshot(i, m)

\* replicateToPeer after sendSnapshot; unlike an AppendEntries response this
\* does not advance the commit index.
HandleInstallOK(i, m) ==
  /\ m.type = "InstallOK" /\ Awaits(i, m)
  /\ Matched(i, m.from, m.match)
  /\ UNCHANGED <<electionVars, logVars, diskVars, msgs, faults>>

\* Mutant: the saved commit index is ignored.
LoadedCommitOfSnapshot(i) == snapFile[i]

\* The commit index NewNode starts with: no less than the snapshot, no more
\* than the log.
LoadedCommit(i) ==
  IF hardState[i].commit < snapFile[i] THEN snapFile[i]
  ELSE IF hardState[i].commit > LastIndex(wal[i]) THEN LastIndex(wal[i])
  ELSE hardState[i].commit

\* A crash, or Stop, and NewNode on the same directory.
Restart(i) ==
  LET commit == LoadedCommit(i)
  IN  /\ faults < MaxFaults /\ faults' = faults + 1
      /\ role' = [role EXCEPT ![i] = "Follower"]
      /\ currentTerm' = [currentTerm EXCEPT ![i] = hardState[i].term]
      /\ votedFor' = [votedFor EXCEPT ![i] = hardState[i].vote]
      /\ fatal' = [fatal EXCEPT ![i] = FALSE]
      /\ log' = [log EXCEPT ![i] = wal[i]]
      /\ snapIdx' = [snapIdx EXCEPT ![i] = snapFile[i]]
      /\ commitIndex' = [commitIndex EXCEPT ![i] = commit]
      /\ nextIndex' = [nextIndex EXCEPT ![i] = [j \in Node |-> 0]]
      /\ matchIndex' = [matchIndex EXCEPT ![i] = [j \in Node |-> 0]]
      /\ hardState' = [hardState EXCEPT ![i].commit = commit]
      /\ UNCHANGED <<wal, snapFile, msgs>>

-----------------------------------------------------------------------------
Receive(i, m) ==
  \/ HandleRequestVote(i, m)
  \/ HandleAppendEntries(i, m)
  \/ HandleAppendOK(i, m)
  \/ HandleAppendConflict(i, m)
  \/ HandleInstallSnapshot(i, m)
  \/ HandleInstallOK(i, m)
  \/ HandleRefused(i, m)

Next ==
  \E i \in Node :
    \/ StartElection(i)
    \/ BecomeLeader(i)
    \/ \E c \in Command : Propose(i, c)
    \/ \E j \in Node : ReplicateToPeer(i, j)
    \/ \E index \in 1..commitIndex[i] : PersistSnapshot(i, index)
    \/ Restart(i)
    \/ \E m \in msgs : Receive(i, m)

Spec == Init /\ [][Next]_vars

-----------------------------------------------------------------------------
(* Properties.                                                             *)

\* Every variable has its type: terms and indexes are naturals, a node's logs
\* are sequences of entries and only messages of the RPC types exist.
TypeOK ==
  /\ role \in [Node -> Role]
  /\ currentTerm \in [Node -> Term]
  /\ votedFor \in [Node -> Node \cup {None}]
  /\ fatal \in [Node -> BOOLEAN]
  /\ log \in [Node -> Log]
  /\ snapIdx \in [Node -> Index]
  /\ commitIndex \in [Node -> Index]
  /\ nextIndex \in [Node -> [Node -> Index]]
  /\ matchIndex \in [Node -> [Node -> Index]]
  /\ hardState \in [Node -> [term : Term, vote : Node \cup {None}, commit : Index]]
  /\ wal \in [Node -> Log]
  /\ snapFile \in [Node -> Index]
  /\ msgs \subseteq Message
  /\ faults \in Nat

\* Two nodes are never leader of the same term, although votes are saved in
\* two steps, saves fail and nodes forget everything that is not on disk.
ElectionSafety ==
  \A i, j \in Node :
    /\ role[i] = "Leader" /\ role[j] = "Leader"
    /\ currentTerm[i] = currentTerm[j]
    => i = j

\* A vote that was granted is on disk for as long as the voter's term on disk
\* is not past it: no crash lets HandleRequestVote vote again in that term.
GrantDurable ==
  \A m \in msgs :
    m.type = "VoteGranted" =>
      \/ hardState[m.from].term > m.term
      \/ hardState[m.from].term = m.term /\ hardState[m.from].vote = m.to

SamePrefix(a, b, n) == /\ n <= Len(a) /\ n <= Len(b)
                       /\ Prefix(a, n) = Prefix(b, n)

\* Two logs, in memory or on disk, that hold an entry of the same term at some
\* index are the same up to it: what the prevLogTerm check of
\* HandleAppendEntries, the truncation and the snapshots must preserve.
LogMatching ==
  \A a, b \in {log[i] : i \in Node} \cup {wal[i] : i \in Node} :
    \A n \in 1..Len(a) :
      n <= Len(b) /\ a[n].term = b[n].term => SamePrefix(a, b, n)

\* The entries committed on two nodes are the same, so their state machines
\* apply the same commands in the same order.
StateMachineSafety ==
  \A i, j \in Node :
    commitIndex[i] <= commitIndex[j] => SamePrefix(log[i], log[j], commitIndex[i])

\* A leader holds every entry that a node of its own or an earlier term knows
\* to be committed: what the up-to-date check of HandleRequestVote is for.
LeaderCompleteness ==
  \A i, j \in Node :
    role[i] = "Leader" /\ currentTerm[j] <= currentTerm[i] =>
      SamePrefix(log[i], log[j], commitIndex[j])

\* Whatever a node holds as committed is on the disks of a quorum: it outlives
\* the crash of every node.
CommittedDurable ==
  \A i \in Node :
    IsQuorum({j \in Node : SamePrefix(wal[j], log[i], commitIndex[i])})

\* matchIndex, which replicateToPeer raises when responses arrive, late and out
\* of order, only claims what is on the disk of a peer that has not moved on to
\* a later term.
MatchIndexHeld ==
  \A i, j \in Node :
    /\ role[i] = "Leader" /\ j # i
    /\ hardState[j].term <= currentTerm[i]
    => SamePrefix(wal[j], log[i], matchIndex[i][j])

\* A leader always has something to send to a peer: nextIndex stays within its
\* log although conflict responses move it back and forth, so the branches of
\* replicateToPeer for an unset or unknown index are never taken.
NextIndexInLog ==
  \A i, j \in Node :
    role[i] = "Leader" /\ j # i => nextIndex[i][j] \in 1..(LastIndex(log[i]) + 1)

\* A node in service has on disk what it has in memory, or a later snapshot of
\* what it has committed.
DiskInStep ==
  \A i \in Node :
    ~fatal[i] =>
      /\ wal[i] = log[i]
      /\ snapFile[i] \in snapIdx[i]..commitIndex[i]
      /\ hardState[i].term >= currentTerm[i]
      /\ hardState[i].commit >= commitIndex[i]

\* Only committed entries are compacted away and only entries of the log are
\* committed, also when a crash came between the writes of an InstallSnapshot.
IndexesOrdered ==
  \A i \in Node : snapIdx[i] <= commitIndex[i] /\ commitIndex[i] <= LastIndex(log[i])
=============================================================================
