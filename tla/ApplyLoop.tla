----------------------------- MODULE ApplyLoop ------------------------------
(***************************************************************************)
(* One node of internal/raft/node.go from the side of its clients: Propose *)
(* and its waiters, the apply loop, the state machine, the snapshots that  *)
(* the loop takes or that a leader installs, Stop and NewNode.             *)
(*                                                                         *)
(* An action is one critical section of Node.mu, except that ApplyNext     *)
(* also calls sm.Apply, which runs with applyMu only: applying # None is   *)
(* the time in which applyMu is held and Node.mu is not.                   *)
(*                                                                         *)
(* The rest of the cluster is the environment: it commits entries, takes   *)
(* the leadership away and sends logs and snapshots that agree with what   *)
(* this node has committed, which is what Raft establishes.  The log is    *)
(* the whole history, as in RaftLog; an entry holds the identity of the    *)
(* proposal it was made for.                                               *)
(*                                                                         *)
(* A write that fails leaves the disk with what memory holds, and          *)
(* persistSnapshot is one step: files that run ahead of memory are the     *)
(* subject of Raft, half-written ones and the steps of persistSnapshot     *)
(* that of DiskRecovery.                                                   *)
(***************************************************************************)
EXTENDS RaftLog, KVStateMachine

CONSTANTS
  Proposal,   \* the calls of Propose on this node
  CommandOf,  \* the command of each proposal, of Foreign and of NoOp
  Foreign,    \* an entry of another leader
  NoOp,       \* the entry a new leader appends
  None,
  Deadlines,  \* do the contexts of the clients end?
  SnapshotEvery, \* n.snapshotEvery
  MaxTerm, MaxLog \* bounds: terms of the node, entries of the log

ASSUME ProposalAssumption == Foreign \notin Proposal /\ NoOp \notin Proposal
ASSUME CommandOfAssumption == DOMAIN CommandOf = Proposal \cup {Foreign, NoOp}

VARIABLES
  role, term, fatal, stopped,
  log, snapIdx, snapData,       \* the log and n.snapshot
  commitIndex, lastApplied,
  data,                         \* the map of the state machine
  loop, applying, toPersist,    \* the apply loop and its locals
  pc, index, waiters, channel,  \* Propose: waiters are the registered ones
  reply                         \* what Propose returned

nodeVars   == <<role, term, fatal, stopped>>
logVars    == <<log, snapIdx, snapData, commitIndex>>
applyVars  == <<lastApplied, data, loop, applying, toPersist>>
clientVars == <<pc, index, waiters, channel, reply>>
vars == <<nodeVars, logVars, applyVars, clientVars>>

Entry == [term : Nat, by : Proposal \cup {Foreign, NoOp}]

\* What comes out of a waiter's channel, or of Propose without one.
Failed(why) == [kind |-> why, result |-> None]
Applied(r)  == [kind |-> "applied", result |-> r]

\* The commands of a log.
Commands(lg) == [n \in 1..Len(lg) |-> CommandOf[lg[n].by]]

\* The map that the first n entries of the log make.
MapAt(lg, n) == ApplyAll(EmptyMap, Commands(Prefix(lg, n)))

Init ==
  /\ role = "Follower" /\ term = 0 /\ fatal = FALSE /\ stopped = FALSE
  /\ log = <<>> /\ snapIdx = 0 /\ snapData = EmptyMap
  /\ commitIndex = 0 /\ lastApplied = 0
  /\ data = EmptyMap
  /\ loop = "wait" /\ applying = None /\ toPersist = None
  /\ pc = [p \in Proposal |-> "new"]
  /\ index = [p \in Proposal |-> 0]
  /\ waiters = {}
  /\ channel = [p \in Proposal |-> None]
  /\ reply = [p \in Proposal |-> None]

-----------------------------------------------------------------------------
(* Waiters.                                                                *)

\* Mutant: the waiters stay registered.
AnswerAgain(S, outcome) ==
  /\ channel' = [p \in Proposal |-> IF p \in S THEN outcome ELSE channel[p]]
  /\ UNCHANGED waiters

\* outcome is sent to the channels of the waiters S, which are forgotten.
Answer(S, outcome) ==
  /\ channel' = [p \in Proposal |-> IF p \in S THEN outcome ELSE channel[p]]
  /\ waiters' = waiters \ S

\* The waiters that failUncommittedWaitersLocked answers.
Uncommitted(commit) == {p \in waiters : index[p] > commit}

\* The node leaves the leader role (becomeFollowerLocked); a node that cannot
\* save its state fails closed (failStorageLocked), which does the same.
LeaveRole(t, failed) ==
  /\ role' = "Follower" /\ term' = t
  /\ fatal' = (fatal \/ failed)
  /\ IF role = "Leader" \/ failed THEN Answer(Uncommitted(commitIndex), Failed("notLeader"))
     ELSE UNCHANGED <<channel, waiters>>

-----------------------------------------------------------------------------
(* Propose.                                                                *)

Return(p, outcome) ==
  /\ pc' = [pc EXCEPT ![p] = "done"]
  /\ reply' = [reply EXCEPT ![p] = outcome]

\* proposeAppend refuses, or the entry cannot be written.
ProposeFails(p) ==
  /\ pc[p] = "new"
  /\ \/ /\ stopped \/ fatal \/ role # "Leader"
        /\ UNCHANGED <<nodeVars, channel, waiters>>
     \/ /\ ~stopped /\ ~fatal /\ role = "Leader"
        /\ LeaveRole(term, TRUE) /\ UNCHANGED stopped
  /\ Return(p, Failed("refused"))
  /\ UNCHANGED <<logVars, applyVars, index>>

\* proposeAppend: the entry is in the log and the waiter registered.
Propose(p) ==
  /\ pc[p] = "new"
  /\ ~stopped /\ ~fatal /\ role = "Leader"
  /\ Len(log) < MaxLog
  /\ log' = Append(log, [term |-> term, by |-> p])
  /\ index' = [index EXCEPT ![p] = Len(log) + 1]
  /\ waiters' = waiters \cup {p}
  /\ pc' = [pc EXCEPT ![p] = "waiting"]
  /\ UNCHANGED <<nodeVars, snapIdx, snapData, commitIndex, applyVars, channel, reply>>

\* The outcome arrives.
Receive(p) ==
  /\ pc[p] = "waiting" /\ channel[p] # None
  /\ Return(p, channel[p])
  /\ UNCHANGED <<nodeVars, logVars, applyVars, index, waiters, channel>>

\* The client's context ends, whether or not the outcome is there.
Expire(p) ==
  /\ Deadlines
  /\ pc[p] = "waiting"
  /\ pc' = [pc EXCEPT ![p] = "expired"]
  /\ UNCHANGED <<nodeVars, logVars, applyVars, index, waiters, channel, reply>>

\* Mutants: the outcome sent meanwhile is waited for for ever, or not looked at.
GiveUpRegistered(p) ==
  /\ pc[p] = "expired" /\ p \in waiters
  /\ waiters' = waiters \ {p}
  /\ Return(p, Failed("unknown"))
  /\ UNCHANGED <<nodeVars, logVars, applyVars, index, channel>>

GiveUpBlindly(p) ==
  /\ pc[p] = "expired"
  /\ waiters' = waiters \ {p}
  /\ Return(p, Failed("unknown"))
  /\ UNCHANGED <<nodeVars, logVars, applyVars, index, channel>>

\* removeWaiter, then a last look at the channel.
GiveUp(p) ==
  /\ pc[p] = "expired"
  /\ waiters' = waiters \ {p}
  /\ Return(p, IF channel[p] # None THEN channel[p] ELSE Failed("unknown"))
  /\ UNCHANGED <<nodeVars, logVars, applyVars, index, channel>>

-----------------------------------------------------------------------------
(* The node in the cluster.                                                *)

InService == ~stopped /\ ~fatal

\* startElection and becomeLeader.
BecomeLeader ==
  /\ InService /\ role = "Follower"
  /\ term < MaxTerm /\ Len(log) < MaxLog
  /\ role' = "Leader" /\ term' = term + 1
  /\ log' = Append(log, [term |-> term + 1, by |-> NoOp])
  /\ UNCHANGED <<fatal, stopped, snapIdx, snapData, commitIndex, applyVars, clientVars>>

\* advanceCommitLocked: the leader commits an entry of its term, or cannot
\* save the new commit index.
AdvanceCommit ==
  /\ role = "Leader"
  /\ \/ /\ \E n \in (commitIndex + 1)..Len(log) : log[n].term = term /\ commitIndex' = n
        /\ UNCHANGED <<nodeVars, channel, waiters>>
     \/ /\ LeaveRole(term, TRUE)
        /\ UNCHANGED <<stopped, commitIndex>>
  /\ UNCHANGED <<log, snapIdx, snapData, applyVars, pc, index, reply>>

\* A higher term is seen in a response or a vote request.  stopped is not
\* looked at: a response may come late.
StepDown ==
  /\ term < MaxTerm
  /\ \E failed \in BOOLEAN : LeaveRole(term + 1, failed)
  /\ UNCHANGED <<stopped, logVars, applyVars, pc, index, reply>>

\* The logs a leader of term t may make of this one: uncommitted entries may be
\* replaced by an entry of its own.
LeaderLogs(t) ==
  {log} \cup {Append(Prefix(log, k), [term |-> t, by |-> Foreign]) :
                k \in {k \in commitIndex..Len(log) : k < MaxLog}}

\* The terms of another leader that this node accepts.
LeaderTerms == {t \in term..MaxTerm : t > term \/ role # "Leader"}

\* HandleAppendEntries, or the write of the entries fails.
HandleAppendEntries ==
  /\ InService
  /\ \E t \in LeaderTerms, failed \in BOOLEAN :
       /\ LeaveRole(t, failed)
       /\ \/ failed /\ UNCHANGED <<log, commitIndex>>
          \/ /\ ~failed
             /\ log' \in LeaderLogs(t)
             /\ commitIndex' \in commitIndex..Len(log')
  /\ UNCHANGED <<stopped, snapIdx, snapData, applyVars, pc, index, reply>>

\* Mutant: without applyMu.
InstallSnapshotUnlocked ==
  /\ InService
  /\ \E t \in LeaderTerms : \E lg \in LeaderLogs(t) : \E n \in (commitIndex + 1)..Len(lg) :
       LET body == Prefix(lg, n)
       IN  /\ LeaveRole(t, FALSE)
           /\ log' = AfterSnapshot(log, snapIdx, body)
           /\ snapIdx' = n /\ commitIndex' = n /\ lastApplied' = n
           /\ snapData' = MapAt(body, n) /\ data' = MapAt(body, n)
  /\ UNCHANGED <<stopped, loop, applying, toPersist, pc, index, reply>>

\* The last chunk of HandleInstallSnapshot, which takes applyMu first: the
\* state machine and lastApplied jump to the snapshot, or it cannot be saved.
HandleInstallSnapshot ==
  /\ InService /\ applying = None
  /\ \E t \in LeaderTerms : \E lg \in LeaderLogs(t) : \E n \in (commitIndex + 1)..Len(lg) :
       LET body == Prefix(lg, n)
       IN  \/ /\ LeaveRole(t, FALSE)
              /\ log' = AfterSnapshot(log, snapIdx, body)
              /\ snapIdx' = n /\ commitIndex' = n /\ lastApplied' = n
              /\ snapData' = MapAt(body, n) /\ data' = MapAt(body, n)
           \/ /\ LeaveRole(t, TRUE)
              /\ UNCHANGED <<logVars, lastApplied, data>>
  /\ UNCHANGED <<stopped, loop, applying, toPersist, pc, index, reply>>

-----------------------------------------------------------------------------
(* The apply loop.                                                         *)

\* applyLoop calls applyReady at every tick and on every commit, until its select
\* picks the channel that Stop closed.
Wake ==
  /\ loop = "wait"
  /\ loop' = "ready" \/ (stopped /\ loop' = "exit")
  /\ UNCHANGED <<nodeVars, logVars, lastApplied, data, applying, toPersist, clientVars>>

\* applyReady has nothing left to apply, or jumps over the snapshot.
Skip ==
  /\ loop = "ready"
  /\ lastApplied >= commitIndex \/ lastApplied < snapIdx
  /\ IF lastApplied >= commitIndex
     THEN loop' = "wait" /\ UNCHANGED lastApplied
     ELSE lastApplied' = snapIdx /\ UNCHANGED loop
  /\ UNCHANGED <<nodeVars, logVars, data, applying, toPersist, clientVars>>

\* Mutant: off by one.
ApplyNextButLast ==
  /\ loop = "ready"
  /\ lastApplied + 1 < commitIndex /\ lastApplied >= snapIdx
  /\ LET entry == log[lastApplied + 1]
     IN  /\ applying' = [index |-> lastApplied + 1, term |-> entry.term,
                         result |-> Result(data, CommandOf[entry.by])]
         /\ data' = Apply(data, CommandOf[entry.by])
  /\ loop' = "applied"
  /\ UNCHANGED <<nodeVars, logVars, lastApplied, toPersist, clientVars>>

\* applyReady: the next entry is read with Node.mu and applied without it.
ApplyNext ==
  /\ loop = "ready"
  /\ lastApplied < commitIndex /\ lastApplied >= snapIdx
  /\ LET entry == log[lastApplied + 1]
     IN  /\ applying' = [index |-> lastApplied + 1, term |-> entry.term,
                         result |-> Result(data, CommandOf[entry.by])]
         /\ data' = Apply(data, CommandOf[entry.by])
  /\ loop' = "applied"
  /\ UNCHANGED <<nodeVars, logVars, lastApplied, toPersist, clientVars>>

\* Is the entry that was applied still the next one?
StillNext ==
  /\ applying.index = lastApplied + 1
  /\ applying.index <= commitIndex
  /\ applying.index > snapIdx /\ applying.index <= Len(log)
  /\ log[applying.index].term = applying.term

\* Mutant: the waiters of the entry after it are answered.
FinishedEarly(n) == {p \in waiters : index[p] = n + 1}

\* The waiters of entry n (finishWaitersLocked).
Finished(n) == {p \in waiters : index[p] = n}

\* applyReady after sm.Apply: publish the entry, answer its waiters and, when
\* the log is long, copy the state machine for a snapshot.
FinishApply ==
  /\ loop = "applied"
  /\ IF StillNext
     THEN /\ lastApplied' = applying.index
          /\ Answer(Finished(applying.index), Applied(applying.result))
          /\ IF SnapshotEvery > 0 /\ Len(log) - snapIdx > SnapshotEvery
             THEN /\ toPersist' = [index |-> applying.index, data |-> data]
                  /\ loop' = "snapshot"
             ELSE loop' = "ready" /\ UNCHANGED toPersist
     ELSE /\ loop' = "wait"
          /\ UNCHANGED <<lastApplied, toPersist, channel, waiters>>
  /\ applying' = None
  /\ UNCHANGED <<nodeVars, logVars, data, pc, index, reply>>

\* Mutant: the loop forgets that the snapshot is saved.
PersistSnapshotAgain ==
  /\ loop = "snapshot"
  /\ \/ /\ toPersist.index > snapIdx /\ toPersist.index <= lastApplied
        /\ snapIdx' = toPersist.index /\ snapData' = toPersist.data
     \/ UNCHANGED <<snapIdx, snapData>>
  /\ loop' = "ready" /\ UNCHANGED toPersist
  /\ UNCHANGED <<nodeVars, log, commitIndex, lastApplied, data, applying, clientVars>>

\* persistSnapshot, with applyMu released; the store call may fail.
PersistSnapshot ==
  /\ loop = "snapshot"
  /\ \/ /\ toPersist.index > snapIdx /\ toPersist.index <= lastApplied
        /\ snapIdx' = toPersist.index /\ snapData' = toPersist.data
     \/ UNCHANGED <<snapIdx, snapData>>
  /\ loop' = "ready" /\ toPersist' = None
  /\ UNCHANGED <<nodeVars, log, commitIndex, lastApplied, data, applying, clientVars>>

-----------------------------------------------------------------------------
(* Stop and restart.                                                       *)

\* Stop answers every waiter; the loops notice later.
Stop ==
  /\ ~stopped
  /\ stopped' = TRUE
  /\ Answer(waiters, Failed("stopped"))
  /\ UNCHANGED <<role, term, fatal, logVars, applyVars, pc, index, reply>>

\* The process ends, with its clients' calls, and NewNode restores the snapshot
\* and applies the entries up to the commit index.
Restart ==
  /\ stopped \/ fatal
  /\ role' = "Follower" /\ fatal' = FALSE /\ stopped' = FALSE
  /\ lastApplied' = commitIndex
  /\ data' = ApplyAll(snapData, Commands(SubSeq(log, snapIdx + 1, commitIndex)))
  /\ loop' = "wait" /\ applying' = None /\ toPersist' = None
  /\ waiters' = {}
  /\ channel' = [p \in Proposal |-> None]
  /\ pc' = [p \in Proposal |-> IF pc[p] = "new" THEN "new" ELSE "done"]
  /\ reply' = [p \in Proposal |-> IF pc[p] \in {"waiting", "expired"}
                                  THEN Failed("crashed") ELSE reply[p]]
  /\ UNCHANGED <<term, logVars, index>>

-----------------------------------------------------------------------------
Applier == Wake \/ Skip \/ ApplyNext \/ FinishApply \/ PersistSnapshot

Client(p) == ProposeFails(p) \/ Propose(p) \/ Receive(p) \/ Expire(p) \/ GiveUp(p)

Cluster == \/ BecomeLeader \/ AdvanceCommit \/ StepDown
           \/ HandleAppendEntries \/ HandleInstallSnapshot

Next == Applier \/ Cluster \/ Stop \/ Restart \/ \E p \in Proposal : Client(p)

\* The apply loop goes on, a client receives what is in its channel, and a
\* context that has a deadline ends.
Fairness ==
  /\ WF_vars(Applier)
  /\ \A p \in Proposal : WF_vars(Receive(p)) /\ WF_vars(Expire(p)) /\ WF_vars(GiveUp(p))

Spec == Init /\ [][Next]_vars /\ Fairness

-----------------------------------------------------------------------------
(* Properties.                                                             *)

\* Every variable has its type.
TypeOK ==
  /\ role \in {"Follower", "Leader"} /\ term \in Nat
  /\ fatal \in BOOLEAN /\ stopped \in BOOLEAN
  /\ log \in Seq(Entry)
  /\ snapIdx \in Nat /\ commitIndex \in Nat /\ lastApplied \in Nat
  /\ loop \in {"wait", "ready", "applied", "snapshot", "exit"}
  /\ (applying # None) = (loop = "applied") /\ (toPersist # None) = (loop = "snapshot")
  /\ pc \in [Proposal -> {"new", "waiting", "expired", "done"}]
  /\ index \in [Proposal -> Nat]
  /\ waiters \subseteq Proposal

\* The state machine holds the effect of each applied entry once and in order,
\* whatever snapshots, step-downs and restarts come between reading an entry,
\* applying it without Node.mu and publishing it; so does the snapshot.
StateMatchesLog ==
  /\ data = MapAt(log, IF loop = "applied" THEN applying.index ELSE lastApplied)
  /\ snapData = MapAt(log, snapIdx)

\* A client that is told its command was applied gets the result that this
\* command has at its place in the committed log, although indexes are reused
\* by other leaders' entries and answers race with the client's deadline.
OwnResult ==
  \A p \in Proposal :
    reply[p] # None /\ reply[p].kind = "applied" =>
      /\ index[p] \in 1..commitIndex /\ log[index[p]].by = p
      /\ reply[p].result = Result(MapAt(log, index[p] - 1), CommandOf[p])

\* "Unknown" is only returned for a waiter that was never answered: the outcome
\* sent between the end of the context and removeWaiter is not lost.
UnknownUnanswered ==
  \A p \in Proposal :
    reply[p] # None /\ reply[p].kind = "unknown" => channel[p] = None

\* A waiter is sent one outcome at most (a second send on its closed channel
\* would panic), also when a step-down, Stop and the apply loop race.
AnsweredOnce ==
  [][\A p \in Proposal : channel[p] # None => channel'[p] \in {channel[p], None}]_vars

\* Committed entries are applied unless the node stops: no early return of
\* applyReady leaves the loop waiting for ever.
CommittedApplied ==
  \A n \in 1..MaxLog : commitIndex >= n ~> lastApplied >= n \/ stopped

\* A call of Propose whose context has a deadline returns.
ProposeReturns == \A p \in Proposal : pc[p] = "waiting" ~> pc[p] = "done"

\* A waiter whose entry is committed is answered, deadline or not: what the
\* comments of proposeAppend and becomeFollowerWithTimerLocked say.
CommittedAnswered ==
  \A p \in Proposal :
    pc[p] = "waiting" /\ index[p] <= commitIndex ~> pc[p] = "done"
=============================================================================
