--------------------------- MODULE MCDiskRecovery ---------------------------
(***************************************************************************)
(* Leaders for DiskRecovery: one that stays, or two of which the second    *)
(* replaces what the first did not commit.                                 *)
(***************************************************************************)
EXTENDS DiskRecovery

CONSTANT TwoLeaders

E(t) == [term |-> t]

MCLeaderLog ==
  IF TwoLeaders THEN << <<E(1), E(1), E(1)>>, <<E(1), E(2), E(2)>> >>
                ELSE << <<E(1), E(1), E(1), E(1)>> >>

MCLeaderCommit == IF TwoLeaders THEN <<1, 3>> ELSE <<4>>
=============================================================================
