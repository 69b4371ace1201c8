------------------------------ MODULE RaftRead ------------------------------
(***************************************************************************)
(* Linearizable reads (LinearizableGet and ensureQuorum of                 *)
(* internal/raft/node.go) on top of the whole of Raft.                     *)
(*                                                                         *)
(* The state machine after the first n committed entries is the same on    *)
(* every node, so what a read returns is the number n of entries it sees.  *)
(* floor is kept for the property only: the highest index that any node    *)
(* held as committed when the read began, hence at least as high as every  *)
(* write acknowledged before and every read that returned before.          *)
(*                                                                         *)
(* A peer counts for the barrier once it has handled a request of the      *)
(* leader's term after the barrier began.  The code counts only responses  *)
(* to the requests of this barrier, so it counts no more peers than this.  *)
(***************************************************************************)
EXTENDS Raft

CONSTANT Reader \* concurrent calls of LinearizableGet

VARIABLE reads

allVars == <<vars, reads>>

NoRead == [pc |-> "idle", node |-> None, term |-> 0, heard |-> {},
           index |-> 0, floor |-> 0, value |-> 0]

ReadInit == Init /\ reads = [r \in Reader |-> NoRead]

\* The highest commit index of a set of nodes.
MaxCommit(S) == CHOOSE n \in {commitIndex[i] : i \in S} :
                  \A i \in S : commitIndex[i] <= n

\* ensureQuorum up to the RPCs.
BeginRead(r, i) ==
  /\ reads[r].pc = "idle"
  /\ role[i] = "Leader"
  /\ reads' = [reads EXCEPT ![r] =
       [NoRead EXCEPT !.pc = "barrier", !.node = i, !.term = currentTerm[i],
                      !.heard = {i}, !.floor = MaxCommit(Node)]]
  /\ UNCHANGED vars

\* Is the request m of this barrier acknowledged by i in this step?
Acknowledges(i, m) ==
  /\ Admits(i, m)
  /\ \/ /\ m.type = "AppendEntries"
        /\ AppendConflictAt(i, m) = 0
     \/ m.type = "InstallSnapshot"
  /\ fatal'[i] = FALSE

\* Mutant: a peer that acknowledged entries before counts as well.
HeardEver(i, m) ==
  [r \in Reader |->
     IF reads[r].pc = "barrier"
     THEN [reads[r] EXCEPT !.heard =
             @ \cup {j \in Node : matchIndex[reads[r].node][j] > 0}]
     ELSE reads[r]]

\* replicateToPeerForRead: the barriers that i's acknowledgement of m reaches.
Heard(i, m) ==
  [r \in Reader |->
     IF /\ reads[r].pc = "barrier"
        /\ m.type \in {"AppendEntries", "InstallSnapshot"}
        /\ m.from = reads[r].node /\ m.term = reads[r].term
        /\ Acknowledges(i, m)
     THEN [reads[r] EXCEPT !.heard = @ \cup {i}]
     ELSE reads[r]]

\* leaderNoopIndex of the leader i: its first entry of the term.
NoopIndex(i) ==
  CHOOSE n \in 1..LastIndex(log[i]) :
    /\ log[i][n].term = currentTerm[i]
    /\ \A k \in 1..(n - 1) : log[i][k].term # currentTerm[i]

\* Is the node of read r still the leader it was when the barrier began?
StillLeader(r) ==
  role[reads[r].node] = "Leader" /\ currentTerm[reads[r].node] = reads[r].term

\* The index a read has to wait for.
ReadIndex(i) == AtLeast(commitIndex[i], NoopIndex(i))

\* A quorum was heard: ensureQuorum and the step of LinearizableGet after it
\* both look whether the node is still leader, then the index is taken.
ConfirmRead(r) ==
  /\ reads[r].pc = "barrier"
  /\ IsQuorum(reads[r].heard)
  /\ StillLeader(r)
  /\ reads' = [reads EXCEPT ![r].pc = "confirmed", ![r].index = ReadIndex(reads[r].node)]
  /\ UNCHANGED vars

\* waitUntilAppliedAsLeader and the read: lastApplied is somewhere between the
\* index and the commit index, and the state machine may be one entry further.
FinishRead(r) ==
  /\ reads[r].pc = "confirmed"
  /\ StillLeader(r)
  /\ \E n \in reads[r].index..commitIndex[reads[r].node] :
       reads' = [reads EXCEPT ![r].pc = "done", ![r].value = n]
  /\ UNCHANGED vars

\* The read returned, or failed: no quorum, no longer leader, out of time.
EndRead(r) ==
  /\ reads[r].pc = "done" \/ (reads[r].pc # "idle" /\ ~StillLeader(r))
  /\ reads' = [reads EXCEPT ![r] = NoRead]
  /\ UNCHANGED vars

Local(i) ==
  \/ StartElection(i)
  \/ BecomeLeader(i)
  \/ \E c \in Command : Propose(i, c)
  \/ \E j \in Node : ReplicateToPeer(i, j)
  \/ \E index \in 1..commitIndex[i] : PersistSnapshot(i, index)
  \/ Restart(i)

ReadNext ==
  \/ \E i \in Node : Local(i) /\ UNCHANGED reads
  \/ \E i \in Node, m \in msgs : Receive(i, m) /\ reads' = Heard(i, m)
  \/ \E r \in Reader, i \in Node : BeginRead(r, i)
  \/ \E r \in Reader : ConfirmRead(r)
  \/ \E r \in Reader : FinishRead(r)
  \/ \E r \in Reader : EndRead(r)

ReadSpec == ReadInit /\ [][ReadNext]_allVars

-----------------------------------------------------------------------------
(* Properties.                                                             *)

\* A read sees every entry that was committed anywhere when it began, in
\* particular every write that was acknowledged and whatever an earlier read
\* saw: neither a leader that was replaced without noticing nor a new leader
\* that does not know yet what is committed may answer with less.
ReadsLinearizable ==
  \A r \in Reader : reads[r].pc = "done" => reads[r].value >= reads[r].floor
=============================================================================
