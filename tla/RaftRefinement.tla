--------------------------- MODULE RaftRefinement ---------------------------
(***************************************************************************)
(* Raft implements ReplicatedLog: the chosen log is the longest committed  *)
(* log of a node, and what a node has learned is its own committed log.    *)
(***************************************************************************)
EXTENDS Raft

\* The entries that node i holds as committed.
Learned(i) == Prefix(log[i], commitIndex[i])

\* The longest of them.
Chosen == Learned(CHOOSE i \in Node : \A j \in Node : commitIndex[j] <= commitIndex[i])

Abstract == INSTANCE ReplicatedLog
              WITH chosen <- Chosen, learned <- [i \in Node |-> Learned(i)]

\* Elections, replication, snapshots, failed writes and restarts together do
\* nothing but make one log grow and let the nodes learn it.
ImplementsReplicatedLog == Abstract!Spec
=============================================================================
