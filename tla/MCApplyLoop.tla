---------------------------- MODULE MCApplyLoop -----------------------------
(***************************************************************************)
(* ApplyLoop for TLC: one client proposes a compare-and-swap, which finds  *)
(* what it expects only after the put of another leader.                   *)
(***************************************************************************)
EXTENDS ApplyLoop, TLC

CONSTANTS p, key, a, b \* a proposal, a key and two values

MCCommandOf ==
     p       :> [op |-> "cas", key |-> key, value |-> b, expected |-> a]
  @@ Foreign :> [op |-> "put", key |-> key, value |-> a, expected |-> Missing]
  @@ NoOp    :> [op |-> "noop", key |-> key, value |-> Missing, expected |-> Missing]
=============================================================================
