------------------------- MODULE RaftElectionProofs -------------------------
(***************************************************************************)
(* Election safety: two nodes are never leader of the same term.           *)
(*                                                                         *)
(* The argument is about votes.  A granted vote stays the voter's vote of  *)
(* that term, in memory and on disk, whatever is saved, rolled back, lost  *)
(* in a crash or loaded again; so a node grants one vote per term, and two *)
(* leaders of a term would need quorums that do not meet.                  *)
(***************************************************************************)
EXTENDS RaftFollowerProofs, FiniteSetTheorems

-----------------------------------------------------------------------------
(* Quorums.                                                                *)

\* Two quorums have a node in common.
LEMMA QuorumsMeet ==
  ASSUME NEW S \in SUBSET Node, NEW T \in SUBSET Node, IsQuorum(S), IsQuorum(T)
  PROVE  \E j \in Node : j \in S /\ j \in T
<1>1. IsFiniteSet(Node) /\ IsFiniteSet(S) /\ IsFiniteSet(T)
  BY NodeAssumption, FS_Subset
<1>2. Cardinality(Node) \in Nat /\ Cardinality(S) \in Nat /\ Cardinality(T) \in Nat
  BY <1>1, FS_CardinalityType
<1>3. Cardinality(S) + Cardinality(T) > Cardinality(Node)
  BY <1>2 DEF IsQuorum, quorum
<1>4. S \cap T # {}
  BY <1>1, <1>3, FS_MajoritiesIntersect
<1> QED BY <1>4

\* A set of nodes that contains a quorum is one.
LEMMA QuorumGrows ==
  ASSUME NEW S, NEW T \in SUBSET Node, S \subseteq T, IsQuorum(S)
  PROVE  IsQuorum(T)
<1>1. IsFiniteSet(Node) /\ IsFiniteSet(T)
  BY NodeAssumption, FS_Subset
<1>2. IsFiniteSet(S) /\ Cardinality(S) <= Cardinality(T)
  BY <1>1, FS_Subset
<1>3. Cardinality(Node) \in Nat /\ Cardinality(S) \in Nat /\ Cardinality(T) \in Nat
  BY <1>1, <1>2, FS_CardinalityType
<1> QED BY <1>2, <1>3 DEF IsQuorum, quorum

-----------------------------------------------------------------------------
(* The invariant.                                                          *)

\* The term t and the vote v of a voter keep the vote g that it granted.
VoteKept(t, v, g) == t > g.term \/ (t = g.term /\ v = g.to)

\* Votes are kept in memory and on disk and are unique; a candidate has voted
\* for itself; a leader has the votes of a quorum.
VoteInv ==
  /\ \A g \in msgs : g.type = "VoteGranted" =>
       /\ VoteKept(currentTerm[g.from], votedFor[g.from], g)
       /\ VoteKept(hardState[g.from].term, hardState[g.from].vote, g)
  /\ \A g, h \in msgs :
       /\ g.type = "VoteGranted" /\ h.type = "VoteGranted"
       /\ g.from = h.from /\ g.term = h.term
       => g.to = h.to
  /\ \A i \in Node : role[i] # "Follower" => votedFor[i] = i
  /\ \A i \in Node : role[i] = "Leader" => IsQuorum(Voters(i))

\* A term and vote that follow t and v forget no vote.
Later(t, v, t2, v2) == t2 > t \/ (t2 = t /\ v \in {None, v2})

Justified(i, t, v) ==
  \/ Later(currentTerm[i], votedFor[i], t, v)
  \/ Later(hardState[i].term, hardState[i].vote, t, v)

\* What every action does to the votes: only node i changes, to a term and vote
\* that follow the ones it had in memory or on disk; a vote is granted only
\* when it is both in memory and on disk.
VoteMove(i) ==
  /\ \A j \in Node \ {i} : /\ role'[j] = role[j] /\ currentTerm'[j] = currentTerm[j]
                           /\ votedFor'[j] = votedFor[j] /\ hardState'[j] = hardState[j]
  /\ Justified(i, currentTerm'[i], votedFor'[i])
  /\ Justified(i, hardState'[i].term, hardState'[i].vote)
  /\ role'[i] # "Follower" => votedFor'[i] = i
  /\ role'[i] = "Leader" => /\ currentTerm'[i] = currentTerm[i]
                            /\ role[i] = "Leader" \/ IsQuorum(Voters(i))
  /\ msgs \subseteq msgs'
  /\ \A g \in msgs' : g.type = "VoteGranted" =>
       \/ g \in msgs
       \/ /\ g.from = i
          /\ g.term = currentTerm'[i] /\ g.to = votedFor'[i]
          /\ g.term = hardState'[i].term /\ g.to = hardState'[i].vote

LEMMA LaterKeeps ==
  ASSUME NEW t \in Nat, NEW v, NEW t2 \in Nat, NEW v2, NEW g, g.term \in Nat,
         g.to # None, VoteKept(t, v, g), Later(t, v, t2, v2)
  PROVE  VoteKept(t2, v2, g)
  BY DEF VoteKept, Later

\* The votes of a leader stay counted.
LEMMA VotersGrow ==
  ASSUME NEW i \in Node, IsQuorum(Voters(i)),
         currentTerm'[i] = currentTerm[i], msgs \subseteq msgs'
  PROVE  IsQuorum(Voters(i)')
<1>1. Voters(i) \subseteq Voters(i)' /\ Voters(i)' \subseteq Node
  BY DEF Voters
<1> HIDE DEF Voters
<1> QED BY <1>1, QuorumGrows

LEMMA VoteMoveInv ==
  ASSUME TypeOK, TypeOK', VoteInv, NEW i \in Node, VoteMove(i)
  PROVE  VoteInv'
<1>1. ASSUME NEW g \in msgs', g.type = "VoteGranted"
      PROVE  g.from \in Node /\ g.to \in Node /\ g.to # None /\ g.term \in Nat
  <2>1. g \in Message
    BY DEF TypeOK
  <2>2. g.from \in Node /\ g.to \in Node /\ g.term \in Nat
    BY <1>1, <2>1, MessageFields, Zenon
  <2> QED BY <2>2, NodeAssumption, Zenon
<1>2. ASSUME NEW j \in Node
      PROVE  /\ currentTerm[j] \in Nat /\ currentTerm'[j] \in Nat
             /\ hardState[j].term \in Nat /\ hardState'[j].term \in Nat
  BY DEF TypeOK, Term
<1>3. ASSUME NEW g \in msgs', g.type = "VoteGranted"
      PROVE  /\ VoteKept(currentTerm'[g.from], votedFor'[g.from], g)
             /\ VoteKept(hardState'[g.from].term, hardState'[g.from].vote, g)
  <2>1. CASE g \notin msgs
    <3>1. /\ g.from = i
          /\ g.term = currentTerm'[i] /\ g.to = votedFor'[i]
          /\ g.term = hardState'[i].term /\ g.to = hardState'[i].vote
      BY <1>3, <2>1, Zenon DEF VoteMove
    <3> QED BY <3>1, Zenon DEF VoteKept
  <2>2. CASE g \in msgs /\ g.from # i
    <3>1. /\ currentTerm'[g.from] = currentTerm[g.from]
          /\ votedFor'[g.from] = votedFor[g.from]
          /\ hardState'[g.from] = hardState[g.from]
      BY <1>1, <1>3, <2>2, Zenon DEF VoteMove
    <3> QED BY <1>3, <2>2, <3>1, Zenon DEF VoteInv
  <2>3. CASE g \in msgs /\ g.from = i
    <3>1. /\ VoteKept(currentTerm[i], votedFor[i], g)
          /\ VoteKept(hardState[i].term, hardState[i].vote, g)
      BY <1>3, <2>3, Zenon DEF VoteInv
    <3>2. ASSUME NEW t \in Nat, NEW v, Justified(i, t, v) PROVE VoteKept(t, v, g)
      BY <1>1, <1>2, <1>3, <3>1, <3>2, LaterKeeps, ZenonT(60) DEF Justified
    <3> QED BY <1>2, <2>3, <3>2, Zenon DEF VoteMove
  <2> QED BY <2>1, <2>2, <2>3, Zenon
<1>4. ASSUME NEW g \in msgs', NEW h \in msgs',
             g.type = "VoteGranted", h.type = "VoteGranted",
             g.from = h.from, g.term = h.term
      PROVE  g.to = h.to
  <2>1. ASSUME NEW a \in msgs', NEW b \in msgs', a.type = "VoteGranted",
               b.type = "VoteGranted", a.from = b.from, a.term = b.term, a \notin msgs
        PROVE  a.to = b.to
    <3>1. a.from = i /\ a.term = currentTerm'[i] /\ a.to = votedFor'[i]
      BY <2>1, Zenon DEF VoteMove
    <3>2. VoteKept(currentTerm'[i], votedFor'[i], b) /\ b.term = currentTerm'[i]
      BY <1>3, <2>1, <3>1, Zenon
    <3>3. ~(currentTerm'[i] > b.term)
      BY <1>2, <3>2
    <3> QED BY <3>1, <3>2, <3>3, Zenon DEF VoteKept
  <2>2. CASE g \in msgs /\ h \in msgs
    BY <1>4, <2>2, Zenon DEF VoteInv
  <2> QED BY <1>4, <2>1, <2>2, Zenon
<1>5. ASSUME NEW j \in Node, role'[j] # "Follower" PROVE votedFor'[j] = j
  BY <1>5, Zenon DEF VoteMove, VoteInv
<1>6. ASSUME NEW j \in Node, role'[j] = "Leader" PROVE IsQuorum(Voters(j)')
  <2>1. msgs \subseteq msgs'
    BY Zenon DEF VoteMove
  <2>2. currentTerm'[j] = currentTerm[j] /\ IsQuorum(Voters(j))
    BY <1>6, Zenon DEF VoteMove, VoteInv
  <2> QED BY <2>1, <2>2, VotersGrow, Zenon
<1> QED BY <1>3, <1>4, <1>5, <1>6 DEF VoteInv

-----------------------------------------------------------------------------
(* Every action is a VoteMove.                                             *)

\* An action that gives node i the role r, the term t, the vote v and the hard
\* state h.
LEMMA VoteMoveAt ==
  ASSUME TypeOK, NEW i \in Node, NEW r, NEW t, NEW v, NEW h,
         role' = [role EXCEPT ![i] = r],
         currentTerm' = [currentTerm EXCEPT ![i] = t],
         votedFor' = [votedFor EXCEPT ![i] = v],
         hardState' = [hardState EXCEPT ![i] = h],
         Justified(i, t, v), Justified(i, h.term, h.vote),
         r # "Follower" => v = i,
         r = "Leader" => /\ t = currentTerm[i]
                         /\ role[i] = "Leader" \/ IsQuorum(Voters(i)),
         msgs \subseteq msgs',
         \A g \in msgs' : g.type = "VoteGranted" =>
           \/ g \in msgs
           \/ /\ g.from = i /\ g.term = t /\ g.to = v
              /\ g.term = h.term /\ g.to = h.vote
  PROVE  VoteMove(i)
<1>1. \A j \in Node \ {i} :
        /\ role'[j] = role[j] /\ currentTerm'[j] = currentTerm[j]
        /\ votedFor'[j] = votedFor[j] /\ hardState'[j] = hardState[j]
  BY DEF TypeOK
<1>2. role'[i] = r /\ currentTerm'[i] = t /\ votedFor'[i] = v /\ hardState'[i] = h
  BY DEF TypeOK
<1> QED BY <1>1, <1>2, Zenon DEF VoteMove

\* What a node starts from.
LEMMA VoterState ==
  ASSUME TypeOK, NEW i \in Node
  PROVE  /\ currentTerm[i] \in Nat /\ hardState[i].term \in Nat
         /\ role = [role EXCEPT ![i] = role[i]]
         /\ currentTerm = [currentTerm EXCEPT ![i] = currentTerm[i]]
         /\ votedFor = [votedFor EXCEPT ![i] = votedFor[i]]
         /\ hardState = [hardState EXCEPT ![i] = hardState[i]]
         /\ Justified(i, currentTerm[i], votedFor[i])
         /\ Justified(i, hardState[i].term, hardState[i].vote)
<1>1. currentTerm[i] \in Nat /\ hardState[i].term \in Nat
  BY DEF TypeOK, Term
<1>2. /\ role = [role EXCEPT ![i] = role[i]]
      /\ currentTerm = [currentTerm EXCEPT ![i] = currentTerm[i]]
      /\ votedFor = [votedFor EXCEPT ![i] = votedFor[i]]
      /\ hardState = [hardState EXCEPT ![i] = hardState[i]]
  BY DEF TypeOK
<1>3. /\ Justified(i, currentTerm[i], votedFor[i])
      /\ Justified(i, hardState[i].term, hardState[i].vote)
  BY Zenon DEF Justified, Later
<1> QED BY <1>1, <1>2, <1>3

\* Stepping down, with or without a higher term, forgets no vote.
LEMMA FollowerJustified ==
  ASSUME TypeOK, NEW i \in Node, NEW t \in Nat
  PROVE  /\ Justified(i, FollowerState(i, t).term, FollowerState(i, t).vote)
         /\ t >= currentTerm[i] => Justified(i, t, FollowerVote(i, t))
<1>1. currentTerm[i] \in Nat
  BY DEF TypeOK, Term
<1>2. /\ FollowerState(i, t).vote = FollowerVote(i, t)
      /\ FollowerState(i, t).term = IF t > currentTerm[i] THEN t ELSE currentTerm[i]
  BY DEF FollowerState, HardState
<1>3. CASE t > currentTerm[i]
  BY <1>2, <1>3, Zenon DEF Justified, Later
<1>4. CASE ~(t > currentTerm[i])
  <2>1. FollowerVote(i, t) = votedFor[i] /\ FollowerState(i, t).term = currentTerm[i]
    BY <1>2, <1>4, Zenon DEF FollowerVote
  <2>2. t >= currentTerm[i] => t = currentTerm[i]
    BY <1>1, <1>4, NatOrder, Zenon
  <2> QED BY <1>2, <2>1, <2>2, Zenon DEF Justified, Later
<1> QED BY <1>3, <1>4

\* A step that changes no term, vote or role, and grants no vote.
LEMMA QuietVotes ==
  ASSUME TypeOK, VoteInv, NEW i \in Node,
         UNCHANGED <<electionVars, hardState>>, msgs \subseteq msgs',
         \A g \in msgs' : g.type = "VoteGranted" => g \in msgs
  PROVE  VoteMove(i)
<1>1. /\ role' = role /\ currentTerm' = currentTerm /\ votedFor' = votedFor
      /\ hardState' = hardState
  BY Zenon DEF electionVars
<1>2. role[i] # "Follower" => votedFor[i] = i
  BY Zenon DEF VoteInv
<1>3. \A j \in Node \ {i} : /\ role'[j] = role[j] /\ currentTerm'[j] = currentTerm[j]
                            /\ votedFor'[j] = votedFor[j] /\ hardState'[j] = hardState[j]
  BY <1>1, Zenon
<1>4. /\ role'[i] = role[i] /\ currentTerm'[i] = currentTerm[i]
      /\ votedFor'[i] = votedFor[i] /\ hardState'[i] = hardState[i]
  BY <1>1, Zenon
<1> QED BY <1>2, <1>3, <1>4, VoterState, Zenon DEF VoteMove

\* startElection votes for itself in a new term; a term that could not be saved
\* may still be on disk.
LEMMA StartElectionVotes ==
  ASSUME TypeOK, VoteInv, NEW i \in Node, StartElection(i)
  PROVE  VoteMove(i)
<1> DEFINE t == currentTerm[i] + 1
           own == HardState(t, i, commitIndex[i])
           m == [type |-> "RequestVote", term |-> t, from |-> i,
                 lastIndex |-> LastIndex(log[i]), lastTerm |-> LastTerm(log[i])]
<1>1. PICK o \in Outcome :
        /\ hardState' = [hardState EXCEPT ![i] = Saved(o, @, own)]
        /\ \/ /\ o = "ok"
              /\ role' = [role EXCEPT ![i] = "Candidate"]
              /\ currentTerm' = [currentTerm EXCEPT ![i] = t]
              /\ votedFor' = [votedFor EXCEPT ![i] = i]
              /\ msgs' = msgs \cup {m}
           \/ /\ o # "ok"
              /\ UNCHANGED <<role, currentTerm, votedFor, msgs>>
  BY Zenon DEF StartElection
<1>2. own.term = t /\ own.vote = i
  BY DEF HardState
<1>3. m.type # "VoteGranted"
  OBVIOUS
<1>4. Justified(i, t, i)
  <2>1. t > currentTerm[i]
    BY DEF TypeOK, Term
  <2> QED BY <2>1, Zenon DEF Justified, Later
<1> HIDE DEF t, own, m
<1>5. CASE o = "ok"
  <2>1. hardState' = [hardState EXCEPT ![i] = own]
    BY <1>1, <1>5, Zenon DEF Saved
  <2>2. /\ role' = [role EXCEPT ![i] = "Candidate"]
        /\ currentTerm' = [currentTerm EXCEPT ![i] = t]
        /\ votedFor' = [votedFor EXCEPT ![i] = i]
        /\ msgs' = msgs \cup {m}
    BY <1>1, <1>5, Zenon
  <2>3. /\ msgs \subseteq msgs'
        /\ \A g \in msgs' : g.type = "VoteGranted" => g \in msgs
    BY <1>3, <2>2, Zenon
  <2>4. "Candidate" # "Leader"
    OBVIOUS
  <2> QED BY <1>2, <1>4, <2>1, <2>2, <2>3, <2>4, VoteMoveAt, ZenonT(60)
<1>6. CASE o # "ok"
  <2>1. UNCHANGED <<role, currentTerm, votedFor, msgs>>
    BY <1>1, <1>6, Zenon
  <2>2. PICK h \in {hardState[i], own} : hardState' = [hardState EXCEPT ![i] = h]
    BY <1>1, Zenon DEF Saved
  <2>3. Justified(i, h.term, h.vote)
    BY <1>2, <1>4, <2>2, VoterState, Zenon
  <2>4. role[i] # "Follower" => votedFor[i] = i
    BY Zenon DEF VoteInv
  <2> QED BY <2>1, <2>2, <2>3, <2>4, VoterState, VoteMoveAt, ZenonT(60)
<1> QED BY <1>5, <1>6

\* becomeFollowerLocked, saved or not.
LEMMA BecomeFollowerVotes ==
  ASSUME TypeOK, VoteInv, NEW i \in Node, NEW t \in Nat, NEW o \in Outcome,
         BecomeFollower(i, t, o), UNCHANGED msgs
  PROVE  VoteMove(i)
<1> DEFINE new == FollowerState(i, t)
<1>1. /\ role' = [role EXCEPT ![i] = "Follower"]
      /\ currentTerm' = [currentTerm EXCEPT ![i] = new.term]
      /\ votedFor' = [votedFor EXCEPT ![i] = FollowerVote(i, t)]
      /\ hardState' = [hardState EXCEPT ![i] = Saved(o, @, new)]
  BY Zenon DEF BecomeFollower
<1>2. Justified(i, new.term, new.vote) /\ new.vote = FollowerVote(i, t)
  BY FollowerJustified, FollowerStateType, ZenonT(60)
<1> HIDE DEF new
<1>3. PICK h \in {hardState[i], new} : hardState' = [hardState EXCEPT ![i] = h]
  BY <1>1, Zenon DEF Saved
<1>4. Justified(i, h.term, h.vote)
  BY <1>2, <1>3, VoterState, Zenon
<1>5. "Follower" # "Leader"
  OBVIOUS
<1> QED BY <1>1, <1>2, <1>3, <1>4, <1>5, VoteMoveAt, ZenonT(60)

\* A handler that follows the sender of m and leaves a hard state that has the
\* handler's term and vote, or the ones on disk.
LEMMA FollowVotes ==
  ASSUME TypeOK, VoteInv, NEW i \in Node, NEW m, m.term \in Nat, Follow(i, m),
         NEW h, hardState' = [hardState EXCEPT ![i] = h],
         \/ h.term = m.term /\ h.vote = FollowerVote(i, m.term)
         \/ h.term = hardState[i].term /\ h.vote = hardState[i].vote,
         msgs \subseteq msgs',
         \A g \in msgs' : g.type = "VoteGranted" => g \in msgs
  PROVE  VoteMove(i)
<1>1. /\ currentTerm' = [currentTerm EXCEPT ![i] = m.term]
      /\ votedFor' = [votedFor EXCEPT ![i] = FollowerVote(i, m.term)]
      /\ role' = [role EXCEPT ![i] = "Follower"]
      /\ m.term >= currentTerm[i]
  BY Zenon DEF Follow, Admits
<1>2. Justified(i, m.term, FollowerVote(i, m.term))
  BY <1>1, FollowerJustified, Zenon
<1>3. Justified(i, h.term, h.vote)
  BY <1>2, VoterState, Zenon
<1>4. "Follower" # "Leader"
  OBVIOUS
<1> QED BY <1>1, <1>2, <1>3, <1>4, VoteMoveAt, ZenonT(60)

\* The hard state saved by a handler's step-down.
LEMMA StepDownPair ==
  ASSUME TypeOK, NEW i \in Node, NEW m, m.term \in Nat, Admits(i, m)
  PROVE  LET h == StateAfterStepDown(i, m)
         IN  \/ h.term = m.term /\ h.vote = FollowerVote(i, m.term)
             \/ h.term = hardState[i].term /\ h.vote = hardState[i].vote
<1>1. m.term >= currentTerm[i]
  BY Zenon DEF Admits
<1>2. /\ FollowerState(i, m.term).term = m.term
      /\ FollowerState(i, m.term).vote = FollowerVote(i, m.term)
  BY <1>1, FollowerStateType, Zenon
<1> QED BY <1>2, Zenon DEF StateAfterStepDown

\* HandleRequestVote: a vote is granted only when it follows what the node has
\* voted before, and never by a candidate or leader of the term.
LEMMA VoteVotes ==
  ASSUME TypeOK, VoteInv, NEW i \in Node, NEW m \in msgs,
         m.type = "RequestVote", m.from # i, Vote(i, m)
  PROVE  VoteMove(i)
<1> DEFINE r == IF m.term > currentTerm[i] THEN "Follower" ELSE role[i]
           kept == FollowerVote(i, m.term)
           hs == IF m.term > currentTerm[i] THEN FollowerState(i, m.term)
                                            ELSE hardState[i]
           voted == HardState(m.term, m.from, commitIndex[i])
           grant == [type |-> "VoteGranted", term |-> m.term,
                     from |-> i, to |-> m.from]
<1>1. m.term \in Nat /\ m.from \in Node
  BY MessageFields, Zenon DEF TypeOK
<1>2. /\ m.term >= currentTerm[i]
      /\ currentTerm' = [currentTerm EXCEPT ![i] = m.term]
      /\ role' = [role EXCEPT ![i] = r]
  BY Zenon DEF Vote, Admits
<1>3. Justified(i, m.term, kept)
  BY <1>1, <1>2, FollowerJustified, Zenon
<1>4. Justified(i, hs.term, hs.vote)
  BY <1>1, VoterState, FollowerJustified, Zenon
<1>5. GrantsVote(i, m) => Justified(i, m.term, m.from)
  <2>1. CASE m.term > currentTerm[i]
    BY <2>1, Zenon DEF Justified, Later
  <2>2. CASE ~(m.term > currentTerm[i])
    <3>1. m.term = currentTerm[i]
      BY <1>1, <1>2, <2>2, VoterState, NatOrder, Zenon
    <3>2. GrantsVote(i, m) => votedFor[i] \in {None, m.from}
      BY <2>2, Zenon DEF GrantsVote, FollowerVote
    <3> QED BY <3>1, <3>2, Zenon DEF Justified, Later
  <2> QED BY <2>1, <2>2
<1>6. voted.term = m.term /\ voted.vote = m.from
  BY DEF HardState
<1>7. r # "Follower" => kept = i
  BY Zenon DEF VoteInv, FollowerVote
<1>8. r = "Leader" => m.term = currentTerm[i] /\ role[i] = "Leader"
  BY <1>1, <1>2, VoterState, NatOrder, Zenon
<1>9. GrantsVote(i, m) => r = "Follower"
  <2>1. i # None
    BY NodeAssumption, Zenon
  <2> QED BY <1>7, <2>1, Zenon DEF GrantsVote
<1>10. "Follower" # "Leader"
  OBVIOUS
<1>11. grant.from = i /\ grant.term = m.term /\ grant.to = m.from
  OBVIOUS
<1> HIDE DEF r, kept, hs, voted, grant
<1>12. CASE /\ ~GrantsVote(i, m)
            /\ votedFor' = [votedFor EXCEPT ![i] = kept]
            /\ hardState' = [hardState EXCEPT ![i] = hs]
            /\ UNCHANGED msgs
  BY <1>2, <1>3, <1>4, <1>7, <1>8, <1>12, VoteMoveAt, ZenonT(60)
<1>13. CASE /\ GrantsVote(i, m)
            /\ votedFor' = [votedFor EXCEPT ![i] = m.from]
            /\ hardState' = [hardState EXCEPT ![i] = voted]
            /\ msgs' = msgs \cup {grant}
  <2>1. /\ msgs \subseteq msgs'
        /\ \A g \in msgs' : g \in msgs \/ g = grant
    BY <1>13, Zenon
  <2>2. \A g \in msgs' : g.type = "VoteGranted" =>
          \/ g \in msgs
          \/ /\ g.from = i /\ g.term = m.term /\ g.to = m.from
             /\ g.term = voted.term /\ g.to = voted.vote
    BY <1>6, <1>11, <2>1, Zenon
  <2>3. Justified(i, m.term, m.from) /\ r = "Follower"
    BY <1>5, <1>9, <1>13, Zenon
  <2>4. Justified(i, voted.term, voted.vote)
    BY <1>6, <2>3, Zenon
  <2>5. /\ role' = [role EXCEPT ![i] = "Follower"]
        /\ currentTerm' = [currentTerm EXCEPT ![i] = m.term]
        /\ votedFor' = [votedFor EXCEPT ![i] = m.from]
        /\ hardState' = [hardState EXCEPT ![i] = voted]
    BY <1>2, <1>13, <2>3, Zenon
  <2>6. \A j \in Node \ {i} :
          /\ role'[j] = role[j] /\ currentTerm'[j] = currentTerm[j]
          /\ votedFor'[j] = votedFor[j] /\ hardState'[j] = hardState[j]
    BY <2>5 DEF TypeOK
  <2>7. /\ role'[i] = "Follower" /\ currentTerm'[i] = m.term
        /\ votedFor'[i] = m.from /\ hardState'[i] = voted
    BY <2>5 DEF TypeOK
  <2> QED BY <1>10, <2>1, <2>2, <2>3, <2>4, <2>6, <2>7, Zenon DEF VoteMove
<1>14. CASE /\ GrantsVote(i, m)
            /\ votedFor' = [votedFor EXCEPT ![i] = kept]
            /\ \E o \in Outcome \ {"ok"} :
                 hardState' = [hardState EXCEPT ![i] = Saved(o, hs, voted)]
            /\ UNCHANGED msgs
  <2>1. PICK h \in {hs, voted} : hardState' = [hardState EXCEPT ![i] = h]
    BY <1>14, Zenon DEF Saved
  <2>2. Justified(i, h.term, h.vote)
    BY <1>4, <1>5, <1>6, <1>14, <2>1, Zenon
  <2> QED BY <1>2, <1>3, <1>7, <1>8, <1>14, <2>1, <2>2, VoteMoveAt, ZenonT(60)
<1> QED BY <1>12, <1>13, <1>14, Zenon DEF Vote, kept, hs, voted, grant

\* advanceCommitLocked saves the term and vote of memory, and a node is leader
\* after it only if it was.
LEMMA AdvanceCommitVotes ==
  ASSUME TypeOK, VoteInv, NEW i \in Node, role[i] # "Follower",
         role[i] = "Leader" \/ IsQuorum(Voters(i)),
         NEW lg, NEW match, NEW o \in Outcome, AdvanceCommit(i, lg, match, o),
         UNCHANGED <<currentTerm, votedFor, msgs>>
  PROVE  VoteMove(i)
<1> DEFINE n == NewCommit(i, lg, match)
           new == HardState(currentTerm[i], votedFor[i], n)
           r == IF o = "ok" THEN "Leader" ELSE "Follower"
<1>1. /\ role' = [role EXCEPT ![i] = r]
      /\ hardState' = [hardState EXCEPT ![i] = IF n = commitIndex[i] THEN @
                                               ELSE Saved(o, @, new)]
  BY Zenon DEF AdvanceCommit
<1>2. new.term = currentTerm[i] /\ new.vote = votedFor[i]
  BY DEF HardState
<1> HIDE DEF new, r, n
<1>3. PICK h \in {hardState[i], new} : hardState' = [hardState EXCEPT ![i] = h]
  BY <1>1, Zenon DEF Saved
<1>4. Justified(i, h.term, h.vote)
  BY <1>2, <1>3, VoterState, Zenon
<1>5. votedFor[i] = i
  BY Zenon DEF VoteInv
<1>6. /\ currentTerm' = [currentTerm EXCEPT ![i] = currentTerm[i]]
      /\ votedFor' = [votedFor EXCEPT ![i] = votedFor[i]]
      /\ Justified(i, currentTerm[i], votedFor[i])
  BY VoterState, Zenon
<1>7. role' = [role EXCEPT ![i] = r]
  BY <1>1, Zenon
<1> QED BY <1>3, <1>4, <1>5, <1>6, <1>7, VoteMoveAt, ZenonT(60)

LEMMA LeaderAppendVotes ==
  ASSUME TypeOK, VoteInv, NEW i \in Node, role[i] # "Follower",
         role[i] = "Leader" \/ IsQuorum(Voters(i)),
         NEW command, NEW match, LeaderAppend(i, command, match),
         UNCHANGED <<currentTerm, votedFor, msgs>>
  PROVE  VoteMove(i)
<1>1. \/ \E lg : \E o \in Outcome : AdvanceCommit(i, lg, match, o)
      \/ role' = [role EXCEPT ![i] = "Follower"] /\ UNCHANGED hardState
  BY Zenon DEF LeaderAppend
<1>2. CASE \E lg : \E o \in Outcome : AdvanceCommit(i, lg, match, o)
  BY <1>2, AdvanceCommitVotes, Zenon
<1>3. CASE role' = [role EXCEPT ![i] = "Follower"] /\ UNCHANGED hardState
  <2>1. "Follower" # "Leader"
    OBVIOUS
  <2> QED BY <1>3, <2>1, VoterState, VoteMoveAt, ZenonT(60)
<1> QED BY <1>1, <1>2, <1>3, Zenon

\* NewNode takes term and vote from the disk.
LEMMA RestartVotes ==
  ASSUME TypeOK, VoteInv, NEW i \in Node, Restart(i)
  PROVE  VoteMove(i)
<1>1. /\ role' = [role EXCEPT ![i] = "Follower"]
      /\ currentTerm' = [currentTerm EXCEPT ![i] = hardState[i].term]
      /\ votedFor' = [votedFor EXCEPT ![i] = hardState[i].vote]
      /\ hardState' = [hardState EXCEPT ![i].commit = LoadedCommit(i)]
      /\ UNCHANGED msgs
  BY Zenon DEF Restart
<1> DEFINE h == [hardState[i] EXCEPT !.commit = LoadedCommit(i)]
<1>2. h.term = hardState[i].term /\ h.vote = hardState[i].vote
  BY DEF TypeOK
<1>3. hardState' = [hardState EXCEPT ![i] = h]
  BY <1>1
<1> HIDE DEF h
<1>4. "Follower" # "Leader"
  OBVIOUS
<1> QED BY <1>1, <1>2, <1>3, <1>4, VoterState, VoteMoveAt, ZenonT(60)

\* A message that is not a granted vote.
LEMMA OtherMessage ==
  ASSUME NEW g, g.type # "VoteGranted", msgs' = msgs \cup {g}
  PROVE  /\ msgs \subseteq msgs'
         /\ \A f \in msgs' : f.type = "VoteGranted" => f \in msgs
BY Zenon

\* The handlers of AppendEntries and InstallSnapshot save the term and vote
\* of their step-down, or the same ones with a new commit index.
LEMMA FollowerVotes ==
  ASSUME TypeOK, VoteInv, NEW i \in Node, NEW m, m.term \in Nat, Follow(i, m),
         \/ hardState' = [hardState EXCEPT ![i] = StateAfterStepDown(i, m)]
         \/ \E c : hardState' = [hardState EXCEPT
                                   ![i] = HardState(m.term, FollowerVote(i, m.term), c)],
         msgs \subseteq msgs',
         \A g \in msgs' : g.type = "VoteGranted" => g \in msgs
  PROVE  VoteMove(i)
<1>1. CASE hardState' = [hardState EXCEPT ![i] = StateAfterStepDown(i, m)]
  <2> DEFINE h == StateAfterStepDown(i, m)
  <2>1. Admits(i, m)
    BY Zenon DEF Follow
  <2>2. \/ h.term = m.term /\ h.vote = FollowerVote(i, m.term)
        \/ h.term = hardState[i].term /\ h.vote = hardState[i].vote
    BY <2>1, StepDownPair, Zenon
  <2> HIDE DEF h
  <2>3. hardState' = [hardState EXCEPT ![i] = h]
    BY <1>1, Zenon DEF h
  <2> QED BY <2>2, <2>3, FollowVotes, Zenon
<1>2. ASSUME NEW c, hardState' = [hardState EXCEPT
                                    ![i] = HardState(m.term, FollowerVote(i, m.term), c)]
      PROVE  VoteMove(i)
  <2> DEFINE h == HardState(m.term, FollowerVote(i, m.term), c)
  <2>1. h.term = m.term /\ h.vote = FollowerVote(i, m.term)
    BY DEF HardState
  <2> HIDE DEF h
  <2>2. hardState' = [hardState EXCEPT ![i] = h]
    BY <1>2, Zenon DEF h
  <2> QED BY <2>1, <2>2, FollowVotes, Zenon
<1> QED BY <1>1, <1>2, Zenon

LEMMA AppendEntriesVotes ==
  ASSUME TypeOK, VoteInv, NEW i \in Node, NEW m \in msgs,
         RejectEntries(i, m) \/ AppendFails(i, m) \/ AcceptEntries(i, m)
  PROVE  VoteMove(i)
<1>1. m.term \in Nat
  BY MessageFields, Zenon DEF TypeOK
<1>2. Follow(i, m)
  BY Zenon DEF RejectEntries, AppendFails, AcceptEntries
<1> DEFINE conflict == [type |-> "AppendConflict", term |-> m.term, from |-> i,
                        to |-> m.from, index |-> AppendConflictAt(i, m)]
           ack == [type |-> "AppendOK", term |-> m.term, from |-> i,
                   to |-> m.from, match |-> LastNewIndex(m)]
           hs == StateAfterStepDown(i, m)
           advanced == HardState(m.term, FollowerVote(i, m.term), FollowerCommit(m))
<1>3. conflict.type # "VoteGranted" /\ ack.type # "VoteGranted"
  OBVIOUS
<1>4. msgs' = msgs \/ msgs' = msgs \cup {conflict} \/ msgs' = msgs \cup {ack}
  BY Zenon DEF RejectEntries, AppendFails, AcceptEntries
<1>5. \/ hardState' = [hardState EXCEPT ![i] = hs]
      \/ hardState' = [hardState EXCEPT ![i] = advanced]
      \/ \E o : hardState' = [hardState EXCEPT ![i] = Saved(o, hs, advanced)]
  BY Zenon DEF RejectEntries, AppendFails, AcceptEntries
<1> HIDE DEF conflict, ack
<1>6. /\ msgs \subseteq msgs'
      /\ \A g \in msgs' : g.type = "VoteGranted" => g \in msgs
  BY <1>3, <1>4, OtherMessage, Zenon
<1>7. \/ hardState' = [hardState EXCEPT ![i] = hs]
      \/ hardState' = [hardState EXCEPT ![i] = advanced]
  BY <1>5, Zenon DEF Saved
<1> QED BY <1>1, <1>2, <1>6, <1>7, FollowerVotes, Zenon

LEMMA InstallSnapshotVotes ==
  ASSUME TypeOK, VoteInv, NEW i \in Node, NEW m \in msgs,
         SkipSnapshot(i, m) \/ InstallSnapshot(i, m)
  PROVE  VoteMove(i)
<1>1. m.term \in Nat
  BY MessageFields, Zenon DEF TypeOK
<1>2. Follow(i, m)
  BY Zenon DEF SkipSnapshot, InstallSnapshot
<1>3. AckSnapshot(m, i).type # "VoteGranted"
  BY DEF AckSnapshot
<1>4. msgs' = msgs \/ msgs' = msgs \cup {AckSnapshot(m, i)}
  BY Zenon DEF SkipSnapshot, InstallSnapshot, logVars
<1>5. \/ hardState' = [hardState EXCEPT ![i] = StateAfterStepDown(i, m)]
      \/ hardState' = [hardState EXCEPT
                         ![i] = HardState(m.term, FollowerVote(i, m.term),
                                          LastIndex(m.body))]
  BY Zenon DEF SkipSnapshot, InstallSnapshot
<1>6. /\ msgs \subseteq msgs'
      /\ \A g \in msgs' : g.type = "VoteGranted" => g \in msgs
  BY <1>3, <1>4, OtherMessage, Zenon
<1> QED BY <1>1, <1>2, <1>5, <1>6, FollowerVotes, Zenon

\* Refusals and the sending of requests.
LEMMA RefuseVotes ==
  ASSUME TypeOK, VoteInv, NEW i \in Node, NEW m, Refuse(i, m)
  PROVE  VoteMove(i)
<1> DEFINE g == [type |-> "Refused", term |-> currentTerm[i], to |-> m.from]
<1>1. g.type # "VoteGranted"
  OBVIOUS
<1>2. msgs' = msgs \/ msgs' = msgs \cup {g}
  BY Zenon DEF Refuse
<1> HIDE DEF g
<1>3. /\ msgs \subseteq msgs'
      /\ \A f \in msgs' : f.type = "VoteGranted" => f \in msgs
  BY <1>1, <1>2, OtherMessage, Zenon
<1>4. UNCHANGED <<electionVars, hardState>>
  BY Zenon DEF Refuse, diskVars
<1> QED BY <1>3, <1>4, QuietVotes, Zenon

LEMMA ReplicateVotes ==
  ASSUME TypeOK, VoteInv, NEW i \in Node, NEW j \in Node, ReplicateToPeer(i, j)
  PROVE  VoteMove(i)
<1> DEFINE next == IF nextIndex[i][j] = 0 THEN LastIndex(log[i]) + 1
                                          ELSE nextIndex[i][j]
           snap == [type |-> "InstallSnapshot", term |-> currentTerm[i],
                    from |-> i, to |-> j, body |-> Prefix(log[i], snapIdx[i])]
           append == [type |-> "AppendEntries", term |-> currentTerm[i],
                      from |-> i, to |-> j, prevIndex |-> next - 1,
                      prevTerm |-> TermAt(log[i], next - 1),
                      entries |-> EntriesFrom(log[i], next),
                      commit |-> commitIndex[i]]
<1>1. snap.type # "VoteGranted" /\ append.type # "VoteGranted"
  OBVIOUS
<1>2. msgs' = msgs \/ msgs' = msgs \cup {snap} \/ msgs' = msgs \cup {append}
  BY Zenon DEF ReplicateToPeer
<1> HIDE DEF snap, append
<1>3. /\ msgs \subseteq msgs'
      /\ \A f \in msgs' : f.type = "VoteGranted" => f \in msgs
  BY <1>1, <1>2, OtherMessage, Zenon
<1>4. UNCHANGED <<electionVars, hardState>>
  BY Zenon DEF ReplicateToPeer, diskVars
<1> QED BY <1>3, <1>4, QuietVotes, Zenon

\* The steps that touch neither votes nor terms.
LEMMA OtherVotes ==
  ASSUME TypeOK, VoteInv, NEW i \in Node,
         \/ \E m : HandleAppendConflict(i, m) \/ HandleInstallOK(i, m)
         \/ \E index : PersistSnapshot(i, index)
  PROVE  VoteMove(i)
<1>1. UNCHANGED <<electionVars, hardState>> /\ UNCHANGED msgs
  BY Zenon DEF HandleAppendConflict, HandleInstallOK, PersistSnapshot, diskVars
<1>2. /\ msgs \subseteq msgs'
      /\ \A f \in msgs' : f.type = "VoteGranted" => f \in msgs
  BY <1>1, Zenon
<1> QED BY <1>1, <1>2, QuietVotes, Zenon

\* The leader's own steps.
LEMMA LeaderVotes ==
  ASSUME TypeOK, VoteInv, NEW i \in Node,
         \/ BecomeLeader(i)
         \/ \E c : Propose(i, c)
         \/ \E m : HandleAppendOK(i, m)
  PROVE  VoteMove(i)
<1>1. CASE BecomeLeader(i)
  <2>1. /\ role[i] = "Candidate" /\ IsQuorum(Voters(i))
        /\ \E match : LeaderAppend(i, NoOp, match)
        /\ UNCHANGED <<currentTerm, votedFor, msgs>>
    BY <1>1, Zenon DEF BecomeLeader
  <2>2. role[i] # "Follower"
    BY <2>1
  <2> QED BY <2>1, <2>2, LeaderAppendVotes, Zenon
<1>2. CASE \E c : Propose(i, c)
  <2>1. /\ role[i] = "Leader"
        /\ \E c, match : LeaderAppend(i, c, match)
        /\ UNCHANGED <<currentTerm, votedFor, msgs>>
    BY <1>2, Zenon DEF Propose
  <2>2. role[i] # "Follower"
    BY <2>1
  <2> QED BY <2>1, <2>2, LeaderAppendVotes, Zenon
<1>3. CASE \E m : HandleAppendOK(i, m)
  <2>1. /\ role[i] = "Leader"
        /\ \E lg, match : \E o \in Outcome : AdvanceCommit(i, lg, match, o)
        /\ UNCHANGED <<currentTerm, votedFor, msgs>>
    BY <1>3, Zenon DEF HandleAppendOK, Awaits
  <2>2. role[i] # "Follower"
    BY <2>1
  <2> QED BY <2>1, <2>2, AdvanceCommitVotes, Zenon
<1> QED BY <1>1, <1>2, <1>3

\* A step-down that is all the action does.
LEMMA StepDownVotes ==
  ASSUME TypeOK, VoteInv, NEW i \in Node, NEW m \in msgs,
         StepDownFails(i, m) \/ HandleRefused(i, m)
  PROVE  VoteMove(i)
<1>1. m.term \in Nat
  BY MessageFields, Zenon DEF TypeOK
<1>2. (\E o \in Outcome : BecomeFollower(i, m.term, o)) /\ UNCHANGED msgs
  BY Zenon DEF StepDownFails, HandleRefused
<1> QED BY <1>1, <1>2, BecomeFollowerVotes, Zenon

LEMMA ReceiveVotes ==
  ASSUME TypeOK, VoteInv, NEW i \in Node, NEW m \in msgs, Receive(i, m)
  PROVE  VoteMove(i)
<1>1. CASE HandleRequestVote(i, m)
  <2>1. m.type = "RequestVote" /\ m.from # i
    BY <1>1, Zenon DEF HandleRequestVote
  <2>2. Refuse(i, m) \/ StepDownFails(i, m) \/ Vote(i, m)
    BY <1>1, Zenon DEF HandleRequestVote
  <2> QED BY <2>1, <2>2, RefuseVotes, StepDownVotes, VoteVotes, Zenon
<1>2. CASE HandleAppendEntries(i, m)
  <2>1. \/ Refuse(i, m) \/ StepDownFails(i, m)
        \/ RejectEntries(i, m) \/ AppendFails(i, m) \/ AcceptEntries(i, m)
    BY <1>2, Zenon DEF HandleAppendEntries
  <2> QED BY <2>1, RefuseVotes, StepDownVotes, AppendEntriesVotes, Zenon
<1>3. CASE HandleInstallSnapshot(i, m)
  <2>1. \/ Refuse(i, m) \/ StepDownFails(i, m)
        \/ SkipSnapshot(i, m) \/ InstallSnapshot(i, m)
    BY <1>3, Zenon DEF HandleInstallSnapshot
  <2> QED BY <2>1, RefuseVotes, StepDownVotes, InstallSnapshotVotes, Zenon
<1>4. CASE HandleAppendConflict(i, m) \/ HandleInstallOK(i, m)
  BY <1>4, OtherVotes, Zenon
<1>5. CASE HandleAppendOK(i, m)
  BY <1>5, LeaderVotes, Zenon
<1>6. CASE HandleRefused(i, m)
  BY <1>6, StepDownVotes, Zenon
<1> QED BY <1>1, <1>2, <1>3, <1>4, <1>5, <1>6, Zenon DEF Receive

-----------------------------------------------------------------------------
(* The theorems.                                                           *)

LEMMA VoteInit == Init => VoteInv
BY DEF Init, VoteInv

LEMMA VoteNext == StorageInv /\ VoteInv /\ [Next]_vars => VoteInv'
<1> SUFFICES ASSUME StorageInv, VoteInv, [Next]_vars PROVE VoteInv'
  OBVIOUS
<1>1. TypeOK
  BY Zenon DEF StorageInv
<1>2. TypeOK'
  <2>1. StorageInv'
    BY StorageNext, Zenon
  <2> QED BY <2>1, Zenon DEF StorageInv
<1>3. CASE Next
  <2>1. PICK i \in Node :
          \/ StartElection(i)
          \/ BecomeLeader(i)
          \/ \E c \in Command : Propose(i, c)
          \/ \E j \in Node : ReplicateToPeer(i, j)
          \/ \E index \in 1..commitIndex[i] : PersistSnapshot(i, index)
          \/ Restart(i)
          \/ \E m \in msgs : Receive(i, m)
    BY <1>3, Zenon DEF Next
  <2>2. VoteMove(i)
    BY <1>1, <2>1, StartElectionVotes, LeaderVotes, ReplicateVotes, OtherVotes,
       RestartVotes, ReceiveVotes, Zenon
  <2> QED BY <1>1, <1>2, <2>2, VoteMoveInv, Zenon
<1>4. CASE UNCHANGED vars
  <2>1. UNCHANGED <<electionVars, hardState>> /\ UNCHANGED msgs
    BY <1>4, Zenon DEF vars, diskVars
  <2>2. PICK i \in Node : TRUE
    BY NodeAssumption, Zenon
  <2>3. /\ msgs \subseteq msgs'
        /\ \A f \in msgs' : f.type = "VoteGranted" => f \in msgs
    BY <2>1, Zenon
  <2>4. VoteMove(i)
    BY <1>1, <2>1, <2>3, QuietVotes, Zenon
  <2> QED BY <1>1, <1>2, <2>4, VoteMoveInv, Zenon
<1> QED BY <1>3, <1>4

\* The vote invariant holds in every reachable state of every cluster.
THEOREM VoteSafety == Spec => []VoteInv
<1> QED BY StorageInit, StorageNext, VoteInit, VoteNext, PTL DEF Spec

\* A granted vote is never forgotten: HandleRequestVote answers only once the
\* vote is on disk, and nothing written later undoes it in the same term.
THEOREM GrantsAreDurable == Spec => []GrantDurable
<1>1. VoteInv => GrantDurable
  BY DEF VoteInv, VoteKept, GrantDurable
<1> QED BY <1>1, VoteSafety, PTL

\* Election safety, for every number of nodes, with lost, duplicated and late
\* messages, failing stores and restarts.
THEOREM ElectionIsSafe == Spec => []ElectionSafety
<1>1. TypeOK /\ VoteInv => ElectionSafety
  <2> SUFFICES ASSUME TypeOK, VoteInv, NEW i \in Node, NEW k \in Node,
                      role[i] = "Leader", role[k] = "Leader",
                      currentTerm[i] = currentTerm[k]
               PROVE  i = k
    BY Zenon DEF ElectionSafety
  <2> DEFINE vote(j, c) == [type |-> "VoteGranted", term |-> currentTerm[i],
                            from |-> j, to |-> c]
  <2>1. /\ IsQuorum(Voters(i)) /\ IsQuorum(Voters(k))
        /\ votedFor[i] = i /\ votedFor[k] = k
    BY DEF VoteInv
  <2>2. Voters(i) \in SUBSET Node /\ Voters(k) \in SUBSET Node
    BY DEF Voters
  <2>3. PICK j \in Node : j \in Voters(i) /\ j \in Voters(k)
    BY <2>1, <2>2, QuorumsMeet, Zenon
  <2>4. /\ j = i \/ vote(j, i) \in msgs
        /\ j = k \/ vote(j, k) \in msgs
    BY <2>3 DEF Voters
  <2>5. \A c : /\ vote(j, c).type = "VoteGranted"
               /\ vote(j, c).term = currentTerm[i]
               /\ vote(j, c).from = j /\ vote(j, c).to = c
    OBVIOUS
  <2> HIDE DEF vote
  <2>6. CASE vote(j, i) \in msgs /\ vote(j, k) \in msgs
    <3>1. \A g, h \in msgs :
            /\ g.type = "VoteGranted" /\ h.type = "VoteGranted"
            /\ g.from = h.from /\ g.term = h.term
            => g.to = h.to
      BY Zenon DEF VoteInv
    <3>2. vote(j, i).to = vote(j, k).to
      BY <2>5, <2>6, <3>1
    <3> QED BY <2>5, <3>2
  <2>7. CASE j = k /\ vote(j, i) \in msgs
    <3>1. VoteKept(currentTerm[k], votedFor[k], vote(j, i))
      BY <2>5, <2>7, Zenon DEF VoteInv
    <3>2. ~(currentTerm[k] > vote(j, i).term)
      BY <2>5 DEF TypeOK, Term
    <3> QED BY <2>1, <2>5, <2>7, <3>1, <3>2, Zenon DEF VoteKept
  <2>8. CASE j = i /\ vote(j, k) \in msgs
    <3>1. VoteKept(currentTerm[i], votedFor[i], vote(j, k))
      BY <2>5, <2>8, Zenon DEF VoteInv
    <3>2. ~(currentTerm[i] > vote(j, k).term)
      BY <2>5 DEF TypeOK, Term
    <3> QED BY <2>1, <2>5, <2>8, <3>1, <3>2, Zenon DEF VoteKept
  <2> QED BY <2>4, <2>6, <2>7, <2>8, Zenon
<1> QED BY <1>1, TypeSafety, VoteSafety, PTL
=============================================================================
