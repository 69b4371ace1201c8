------------------------- MODULE MCSnapshotTransfer -------------------------
(***************************************************************************)
(* SnapshotTransfer for TLC: a node that leads two terms and takes two     *)
(* snapshots, one with a shorter last chunk and one of a single chunk.     *)
(***************************************************************************)
EXTENDS SnapshotTransfer

CONSTANT a \* the leader

MCLeaderOf == <<a, a>>
MCSize     == <<3, 2>>
=============================================================================
