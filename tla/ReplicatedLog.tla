--------------------------- MODULE ReplicatedLog ----------------------------
(***************************************************************************)
(* What the cluster promises to the state machines: one log that only      *)
(* grows, of which every node knows a prefix that only grows.  No entry is *)
(* ever changed or lost, and no node ever has to take one back, crashes    *)
(* included.                                                               *)
(***************************************************************************)
EXTENDS Naturals, Sequences

CONSTANT Node

VARIABLES
  chosen, \* the entries that are committed for good
  learned \* of each node, the entries it knows to be committed

Extends(b, a) == Len(a) <= Len(b) /\ SubSeq(b, 1, Len(a)) = a

Init == chosen = <<>> /\ learned = [i \in Node |-> <<>>]

\* A node learns more of the log; it is the first to know what it adds to it.
Learn(i) ==
  /\ Extends(chosen', chosen)
  /\ Extends(learned'[i], learned[i])
  /\ chosen' \in {chosen, learned'[i]}
  /\ Extends(chosen', learned'[i])
  /\ \A j \in Node \ {i} : learned'[j] = learned[j]

Next == \E i \in Node : Learn(i)

Spec == Init /\ [][Next]_<<chosen, learned>>
=============================================================================
