----------------------------- MODULE MCRaftRead -----------------------------
(***************************************************************************)
(* RaftRead for TLC, with the bounds of MCRaft and two more: the leader of *)
(* the first term sends few replication requests, which may carry its      *)
(* no-op or a client command with it, and later leaders propose nothing    *)
(* but their no-ops.                                                       *)
(***************************************************************************)
EXTENDS RaftRead, MCRaft

CONSTANT FirstAppends \* bound: different replication requests of the first term

ReadBounded ==
  /\ Bounded
  /\ Cardinality({m \in msgs : m.type = "AppendEntries" /\ m.term = 1}) <= FirstAppends
  /\ \A i \in Node : \A n \in 1..Len(log[i]) :
       log[i][n].term > 1 => log[i][n].command = NoOp
=============================================================================
