------------------------------- MODULE MCRaft -------------------------------
(***************************************************************************)
(* Raft for TLC.  Bounded, a state constraint, limits the number of        *)
(* different replication requests and of elections: a state with more of   *)
(* them is checked but not continued.  The nodes are interchangeable.      *)
(***************************************************************************)
EXTENDS RaftRefinement, TLC

CONSTANTS
  MaxAppends,  \* bound: different replication requests
  MaxElections \* bound: elections started

Symmetry == Permutations(Node)

Sent(types) == Cardinality({m \in msgs : m.type \in types})

Bounded ==
  /\ Sent({"AppendEntries", "InstallSnapshot"}) <= MaxAppends
  /\ Sent({"RequestVote"}) <= MaxElections
=============================================================================
