--------------------------- MODULE MCLeaderRetry ----------------------------
(***************************************************************************)
(* LeaderRetry for TLC: a compare-and-swap on a key that holds what it     *)
(* expects, in a cluster of which kvctl knows two addresses.               *)
(***************************************************************************)
EXTENDS LeaderRetry, TLC

CONSTANTS n1, n2, n3, n4, key, a, b

MCEndpoints == <<n1, n2>>
MCCommand   == [op |-> "cas", key |-> key, value |-> b, expected |-> a]
MCStart     == key :> a
=============================================================================
