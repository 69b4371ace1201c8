------------------------- MODULE RaftStorageProofs --------------------------
(***************************************************************************)
(* StorageInv, the inductive invariant behind TypeOK and DiskInStep of     *)
(* Raft, and the proofs that elections, the leader's steps, the apply      *)
(* loop's snapshots and restarts preserve it.  The steps of followers and  *)
(* the theorem are in RaftFollowerProofs.                                  *)
(***************************************************************************)
EXTENDS Raft, RaftLogProofs

-----------------------------------------------------------------------------
(* Messages.                                                               *)

\* The fields of a message, by type.
LEMMA MessageFields ==
  ASSUME NEW m \in Message
  PROVE  /\ m.term \in Nat
         /\ m.type = "RequestVote" =>
              m.from \in Node /\ m.lastIndex \in Nat /\ m.lastTerm \in Nat
         /\ m.type = "VoteGranted" => m.from \in Node /\ m.to \in Node
         /\ m.type = "AppendEntries" =>
              /\ m.from \in Node
              /\ m.prevIndex \in Nat /\ m.prevTerm \in Nat
              /\ m.entries \in Log /\ m.commit \in Nat
         /\ m.type = "AppendOK" => m.from \in Node /\ m.match \in Nat
         /\ m.type = "AppendConflict" => m.from \in Node /\ m.index \in Nat
         /\ m.type = "InstallSnapshot" =>
              m.from \in Node /\ m.body \in Log
         /\ m.type = "InstallOK" => m.from \in Node /\ m.match \in Nat
  BY DEF Message, Term, Index

\* The messages the actions build.
LEMMA MessageTypes ==
  /\ \A t, n, u \in Nat, i \in Node :
       [type |-> "RequestVote", term |-> t, from |-> i,
        lastIndex |-> n, lastTerm |-> u] \in Message
  /\ \A t \in Nat, i, j \in Node :
       [type |-> "VoteGranted", term |-> t, from |-> i, to |-> j] \in Message
  /\ \A t, n, u, c \in Nat, i, j \in Node, s \in Log :
       [type |-> "AppendEntries", term |-> t, from |-> i, to |-> j,
        prevIndex |-> n, prevTerm |-> u, entries |-> s, commit |-> c] \in Message
  /\ \A t, n \in Nat, i, j \in Node :
       [type |-> "AppendOK", term |-> t, from |-> i, to |-> j,
        match |-> n] \in Message
  /\ \A t, n \in Nat, i, j \in Node :
       [type |-> "AppendConflict", term |-> t, from |-> i, to |-> j,
        index |-> n] \in Message
  /\ \A t \in Nat, i, j \in Node, s \in Log :
       [type |-> "InstallSnapshot", term |-> t, from |-> i, to |-> j,
        body |-> s] \in Message
  /\ \A t, n \in Nat, i, j \in Node :
       [type |-> "InstallOK", term |-> t, from |-> i, to |-> j,
        match |-> n] \in Message
  /\ \A t \in Nat, i \in Node :
       [type |-> "Refused", term |-> t, to |-> i] \in Message
<1>1. \A t, n, u \in Nat, i \in Node :
       [type |-> "RequestVote", term |-> t, from |-> i,
        lastIndex |-> n, lastTerm |-> u] \in Message
  BY DEF Message, Term, Index
<1>2. \A t \in Nat, i, j \in Node :
       [type |-> "VoteGranted", term |-> t, from |-> i, to |-> j] \in Message
  BY DEF Message, Term, Index
<1>3. \A t, n, u, c \in Nat, i, j \in Node, s \in Log :
       [type |-> "AppendEntries", term |-> t, from |-> i, to |-> j,
        prevIndex |-> n, prevTerm |-> u, entries |-> s, commit |-> c] \in Message
  BY DEF Message, Term, Index
<1>4. \A t, n \in Nat, i, j \in Node :
       [type |-> "AppendOK", term |-> t, from |-> i, to |-> j,
        match |-> n] \in Message
  BY DEF Message, Term, Index
<1>5. \A t, n \in Nat, i, j \in Node :
       [type |-> "AppendConflict", term |-> t, from |-> i, to |-> j,
        index |-> n] \in Message
  BY DEF Message, Term, Index
<1>6. \A t \in Nat, i, j \in Node, s \in Log :
       [type |-> "InstallSnapshot", term |-> t, from |-> i, to |-> j,
        body |-> s] \in Message
  BY DEF Message, Term, Index
<1>7. \A t, n \in Nat, i, j \in Node :
       [type |-> "InstallOK", term |-> t, from |-> i, to |-> j,
        match |-> n] \in Message
  BY DEF Message, Term, Index
<1>8. \A t \in Nat, i \in Node :
       [type |-> "Refused", term |-> t, to |-> i] \in Message
  BY DEF Message, Term, Index
<1> QED BY <1>1, <1>2, <1>3, <1>4, <1>5, <1>6, <1>7, <1>8, Zenon

-----------------------------------------------------------------------------
(* Types, indexes and the disk.                                            *)

\* The indexes of a node are in order, in memory and on disk; a candidate or
\* leader is in service; and a node in service has on disk what it has in
\* memory, or a later snapshot.
NodeStorage(i) ==
  /\ snapIdx[i] <= commitIndex[i]
  /\ commitIndex[i] <= LastIndex(log[i])
  /\ commitIndex[i] <= LastIndex(wal[i])
  /\ snapFile[i] <= LastIndex(wal[i])
  /\ role[i] # "Follower" => ~fatal[i]
  /\ ~fatal[i] => /\ wal[i] = log[i]
                  /\ snapIdx[i] <= snapFile[i] /\ snapFile[i] <= commitIndex[i]
                  /\ hardState[i].term >= currentTerm[i]
                  /\ hardState[i].commit >= commitIndex[i]

\* The inductive invariant behind TypeOK and DiskInStep.
StorageInv == TypeOK /\ \A i \in Node : NodeStorage(i)

\* What NodeStorage speaks of does not change at node j.
Untouched(j) ==
  /\ role'[j] = role[j] /\ fatal'[j] = fatal[j]
  /\ currentTerm'[j] = currentTerm[j] /\ hardState'[j] = hardState[j]
  /\ log'[j] = log[j] /\ snapIdx'[j] = snapIdx[j]
  /\ commitIndex'[j] = commitIndex[j]
  /\ wal'[j] = wal[j] /\ snapFile'[j] = snapFile[j]

LEMMA StorageStep ==
  ASSUME StorageInv, TypeOK', NEW i \in Node, NodeStorage(i)',
         \A j \in Node \ {i} : Untouched(j)
  PROVE  StorageInv'
<1>1. ASSUME NEW j \in Node \ {i} PROVE NodeStorage(j)'
  <2>1. NodeStorage(j) /\ Untouched(j)
    BY DEF StorageInv
  <2> QED BY <2>1 DEF NodeStorage, Untouched
<1> QED BY <1>1 DEF StorageInv

HardStates == [term : Term, vote : Node \cup {None}, commit : Index]

\* Arithmetic, for the steps that have no other.
LEMMA LeqTransitive ==
  ASSUME NEW a \in Nat, NEW b \in Nat, NEW c \in Nat, a <= b, b <= c
  PROVE  a <= c
  OBVIOUS

LEMMA NatOrder ==
  ASSUME NEW a \in Nat, NEW b \in Nat
  PROVE  /\ a <= a /\ a >= a
         /\ a >= b /\ ~(a > b) => a = b
  OBVIOUS

\* The indexes and terms of a log.
LEMMA LogTerms ==
  ASSUME NEW lg \in Log
  PROVE  /\ LastIndex(lg) \in Nat
         /\ LastTerm(lg) \in Nat
         /\ \A n \in 0..LastIndex(lg) : TermAt(lg, n) \in Nat
<1> USE DEF Log, LastIndex
<1>1. \A n \in 1..Len(lg) : lg[n].term \in Nat
  <2>1. \A n \in 1..Len(lg) : lg[n] \in Entry
    OBVIOUS
  <2> QED BY <2>1 DEF Entry, Term
<1>2. lg # <<>> => Len(lg) \in 1..Len(lg)
  OBVIOUS
<1>3. LastTerm(lg) \in Nat
  BY <1>1, <1>2 DEF LastTerm
<1>4. \A n \in 0..Len(lg) : TermAt(lg, n) \in Nat
  BY <1>1 DEF TermAt
<1> QED BY <1>3, <1>4

\* What a leader sends is made of entries, and so is the log it appends to.
LEMMA LogParts ==
  ASSUME NEW lg \in Log
  PROVE  /\ \A n \in Nat : n <= LastIndex(lg) => Prefix(lg, n) \in Log
         /\ \A n \in Nat \ {0} : EntriesFrom(lg, n) \in Log
         /\ \A e \in Entry : /\ <<e>> \in Log /\ Append(lg, e) \in Log
                             /\ LastIndex(lg) <= LastIndex(Append(lg, e))
<1> USE DEF Log, LastIndex
<1>1. ASSUME NEW n \in Nat, n <= Len(lg) PROVE Prefix(lg, n) \in Seq(Entry)
  <2>1. \A k \in 1..n : lg[k] \in Entry
    BY <1>1
  <2> QED BY <1>1, <2>1 DEF Prefix
<1>2. ASSUME NEW n \in Nat \ {0} PROVE EntriesFrom(lg, n) \in Seq(Entry)
  BY DEF EntriesFrom
<1>3. ASSUME NEW e \in Entry
      PROVE  /\ <<e>> \in Seq(Entry) /\ Append(lg, e) \in Seq(Entry)
             /\ Len(lg) <= Len(Append(lg, e))
  <2>1. Len(Append(lg, e)) = Len(lg) + 1 /\ Len(lg) \in Nat
    OBVIOUS
  <2>2. Len(lg) <= Len(Append(lg, e))
    BY <2>1
  <2> QED BY <2>2
<1> QED BY <1>1, <1>2, <1>3

\* The index a follower answers with when it cannot append.
LEMMA LogConflict ==
  ASSUME NEW lg \in Log, NEW snap \in Nat, NEW prev \in Nat,
         snap <= LastIndex(lg)
  PROVE  ConflictIndex(lg, snap, prev) \in Nat /\ ConflictIndex(lg, snap, prev) # 0
<1>1. ConflictIndex(lg, snap, prev) \in (snap + 1)..(Len(lg) + 1)
  BY ConflictIndexInLog, Zenon DEF Log, LastIndex
<1> QED BY <1>1

\* What a follower keeps when it is sent entries.
LEMMA LogMerge ==
  ASSUME NEW lg \in Log, NEW entries \in Log,
         NEW commit \in Nat, NEW prev \in Nat, commit <= LastIndex(lg)
  PROVE  LET r == MergeEntries(lg, commit, prev, entries)
         IN  /\ r.log \in Log /\ r.appended \in Log /\ r.conflict \in Nat
             /\ commit <= LastIndex(r.log)
             /\ prev <= LastIndex(lg) /\ r.conflict = 0
                  => prev + Len(entries) <= LastIndex(r.log)
<1> USE DEF Log, LastIndex
<1> DEFINE r == MergeEntries(lg, commit, prev, entries)
<1>1. /\ r.log \in Seq(Entry) /\ r.appended \in Seq(Entry) /\ r.conflict \in Nat
      /\ prev <= Len(lg) /\ r.conflict = 0 => Len(r.log) >= prev + Len(entries)
      /\ Len(r.log) >= commit
  BY MergeEntriesSpec, Zenon
<1> HIDE DEF r
<1>3. Len(r.log) \in Nat /\ Len(entries) \in Nat
  BY <1>1
<1>4. /\ commit <= Len(r.log)
      /\ prev <= Len(lg) /\ r.conflict = 0 => prev + Len(entries) <= Len(r.log)
  BY <1>1, <1>3
<1> QED BY <1>1, <1>4, Zenon DEF r

\* What a follower keeps of its log when it installs a snapshot.
LEMMA LogAfterSnapshot ==
  ASSUME NEW lg \in Log, NEW snap \in Nat, NEW body \in Log
  PROVE  /\ AfterSnapshot(lg, snap, body) \in Log
         /\ LastIndex(body) <= LastIndex(AfterSnapshot(lg, snap, body))
<1> USE DEF Log, LastIndex
<1> DEFINE lg2 == AfterSnapshot(lg, snap, body)
<1>1. lg2 \in Seq(Entry) /\ Len(lg2) >= Len(body)
  BY AfterSnapshotSpec, Zenon
<1> HIDE DEF lg2
<1>2. Len(body) <= Len(lg2)
  BY <1>1
<1> QED BY <1>1, <1>2, Zenon DEF lg2

\* The hard state a node saves when it steps down.
LEMMA FollowerStateType ==
  ASSUME TypeOK, NEW i \in Node, NEW t \in Nat
  PROVE  /\ FollowerVote(i, t) \in Node \cup {None}
         /\ FollowerState(i, t) \in HardStates
         /\ FollowerState(i, t).commit = commitIndex[i]
         /\ FollowerState(i, t).vote = FollowerVote(i, t)
         /\ FollowerState(i, t).term >= currentTerm[i]
         /\ t >= currentTerm[i] => FollowerState(i, t).term = t
<1>1. FollowerVote(i, t) \in Node \cup {None}
  BY DEF FollowerVote, TypeOK
<1>2. currentTerm[i] \in Nat /\ commitIndex[i] \in Nat
  BY DEF TypeOK, Term, Index
<1>3. /\ FollowerState(i, t).commit = commitIndex[i]
      /\ FollowerState(i, t).vote = FollowerVote(i, t)
      /\ FollowerState(i, t).term = IF t > currentTerm[i] THEN t ELSE currentTerm[i]
  BY DEF FollowerState, HardState
<1>4. FollowerState(i, t) \in HardStates
  BY <1>1, <1>2 DEF FollowerState, HardState, HardStates, Term, Index
<1> QED BY <1>1, <1>2, <1>3, <1>4

\* becomeFollowerLocked leaves a node that is out of service or has its term
\* and commit index on disk.
LEMMA BecomeFollowerStorage ==
  ASSUME StorageInv, NEW i \in Node, NEW t \in Nat, NEW o \in Outcome,
         BecomeFollower(i, t, o),
         UNCHANGED <<logVars, leaderVars, wal, snapFile, msgs>>
  PROVE  StorageInv'
<1> USE DEF BecomeFollower
<1>0. TypeOK /\ NodeStorage(i)
  BY DEF StorageInv
<1>1. FollowerVote(i, t) \in Node \cup {None} /\ FollowerState(i, t) \in HardStates
  BY <1>0, FollowerStateType
<1>2. TypeOK'
  <2>1. /\ role' \in [Node -> Role]
        /\ currentTerm' \in [Node -> Term]
        /\ votedFor' \in [Node -> Node \cup {None}]
        /\ faults' \in Nat
    BY <1>0, <1>1 DEF TypeOK, Role, Term, Try, HardStates
  <2>2. fatal' \in [Node -> BOOLEAN]
    BY <1>0 DEF TypeOK
  <2>3. hardState' \in [Node -> HardStates]
    BY <1>0, <1>1 DEF TypeOK, Saved, HardStates
  <2> QED BY <1>0, <2>1, <2>2, <2>3, Zenon DEF TypeOK, HardStates, logVars, leaderVars
<1>3. NodeStorage(i)'
  <2>1. ~fatal'[i] => ~fatal[i] /\ o = "ok"
    BY <1>0, Zenon DEF TypeOK
  <2>2. role'[i] = "Follower" /\ currentTerm'[i] = FollowerState(i, t).term
    BY <1>0 DEF TypeOK
  <2>3. o = "ok" => hardState'[i] = FollowerState(i, t)
    BY <1>0 DEF TypeOK, Saved
  <2>4. FollowerState(i, t).commit = commitIndex[i]
    BY <1>0, FollowerStateType
  <2>5. FollowerState(i, t).term \in Nat /\ commitIndex[i] \in Nat
    BY <1>0, <1>1 DEF TypeOK, HardStates, Term, Index
  <2>6. /\ FollowerState(i, t).term >= FollowerState(i, t).term
        /\ commitIndex[i] >= commitIndex[i]
    BY <2>5
  <2> QED BY <1>0, <2>1, <2>2, <2>3, <2>4, <2>6, Zenon DEF NodeStorage, logVars
<1>4. \A j \in Node \ {i} : Untouched(j)
  BY <1>0 DEF TypeOK, Untouched, logVars
<1> QED BY <1>2, <1>3, <1>4, StorageStep

\* startElection.
LEMMA StartElectionStorage ==
  ASSUME StorageInv, NEW i \in Node, StartElection(i)
  PROVE  StorageInv'
<1> DEFINE t == currentTerm[i] + 1
           m == [type |-> "RequestVote", term |-> t, from |-> i,
                 lastIndex |-> LastIndex(log[i]), lastTerm |-> LastTerm(log[i])]
<1>0. TypeOK /\ NodeStorage(i)
  BY DEF StorageInv
<1>1. PICK o \in Outcome :
        /\ hardState' = [hardState EXCEPT
                           ![i] = Saved(o, @, HardState(t, i, commitIndex[i]))]
        /\ Try(o)
        /\ \/ /\ o = "ok"
              /\ role' = [role EXCEPT ![i] = "Candidate"]
              /\ currentTerm' = [currentTerm EXCEPT ![i] = t]
              /\ votedFor' = [votedFor EXCEPT ![i] = i]
              /\ msgs' = msgs \cup {m}
           \/ /\ o # "ok"
              /\ UNCHANGED <<role, currentTerm, votedFor, msgs>>
  BY Zenon DEF StartElection
<1>2. ~fatal[i] /\ UNCHANGED <<fatal, logVars, leaderVars, wal, snapFile>>
  BY DEF StartElection
<1>3. m \in Message
  <2>1. log[i] \in Log /\ t \in Nat
    BY <1>0 DEF TypeOK, Term
  <2> QED BY <2>1, LogTerms, MessageTypes, Zenon
<1>4. t \in Nat /\ HardState(t, i, commitIndex[i]) \in HardStates
  BY <1>0 DEF TypeOK, HardState, HardStates, Term, Index
<1> HIDE DEF m
<1>5. TypeOK'
  <2>1. hardState' \in [Node -> HardStates] /\ faults' \in Nat
    BY <1>0, <1>1, <1>4 DEF TypeOK, Saved, HardStates, Try
  <2>2. /\ role' \in [Node -> Role]
        /\ currentTerm' \in [Node -> Term]
        /\ votedFor' \in [Node -> Node \cup {None}]
        /\ msgs' \subseteq Message
    <3> HIDE DEF t
    <3>1. CASE o = "ok"
      <4>1. role' \in [Node -> Role]
        BY <1>0, <1>1, <3>1, Zenon DEF TypeOK, Role
      <4>2. currentTerm' \in [Node -> Term]
        BY <1>0, <1>1, <1>4, <3>1, Zenon DEF TypeOK, Term
      <4>3. votedFor' \in [Node -> Node \cup {None}]
        <5>1. votedFor' = [votedFor EXCEPT ![i] = i]
          BY <1>1, <3>1
        <5> QED BY <1>0, <5>1 DEF TypeOK
      <4>4. msgs' \subseteq Message
        BY <1>0, <1>1, <1>3, <3>1 DEF TypeOK
      <4> QED BY <4>1, <4>2, <4>3, <4>4
    <3>2. CASE o # "ok"
      BY <1>0, <1>1, <3>2 DEF TypeOK
    <3> QED BY <3>1, <3>2
  <2> QED BY <1>0, <1>2, <2>1, <2>2 DEF TypeOK, HardStates, logVars, leaderVars
<1>6. NodeStorage(i)'
  <2>1. hardState'[i] \in {hardState[i], HardState(t, i, commitIndex[i])}
    BY <1>0, <1>1 DEF TypeOK, Saved
  <2>2. CASE o = "ok"
    BY <1>0, <1>1, <1>2, <2>2
       DEF NodeStorage, TypeOK, Saved, HardState, Term, Index, logVars
  <2>3. CASE o # "ok"
    BY <1>0, <1>1, <1>2, <2>1, <2>3
       DEF NodeStorage, TypeOK, HardState, Term, Index, logVars
  <2> QED BY <2>2, <2>3
<1>7. \A j \in Node \ {i} : Untouched(j)
  BY <1>0, <1>1, <1>2 DEF TypeOK, Untouched, logVars
<1> QED BY <1>5, <1>6, <1>7, StorageStep

\* An update of one node keeps the type of a variable.
LEMMA UpdateType ==
  ASSUME NEW S, NEW T, NEW f \in [S -> T], NEW s \in S, NEW v \in T
  PROVE  [f EXCEPT ![s] = v] \in [S -> T]
  OBVIOUS

\* A request that is not admitted changes nothing but the messages.
LEMMA RefuseStorage ==
  ASSUME StorageInv, NEW i \in Node, NEW m \in msgs, m.from \in Node, Refuse(i, m)
  PROVE  StorageInv'
<1>1. TypeOK /\ UNCHANGED <<electionVars, logVars, leaderVars, diskVars, faults>>
  BY DEF StorageInv, Refuse
<1>2. [type |-> "Refused", term |-> currentTerm[i], to |-> m.from] \in Message
  BY <1>1, MessageTypes, Zenon DEF TypeOK, Term
<1>3. msgs' \subseteq Message
  BY <1>1, <1>2 DEF TypeOK, Refuse
<1>4. TypeOK'
  BY <1>1, <1>3 DEF TypeOK, electionVars, logVars, leaderVars, diskVars
<1>5. \A j \in Node : Untouched(j)
  BY <1>1 DEF Untouched, electionVars, logVars, diskVars
<1>6. NodeStorage(i)'
  BY <1>5 DEF StorageInv, NodeStorage, Untouched
<1> QED BY <1>4, <1>5, <1>6, StorageStep

\* HandleRequestVote: the hard state it leaves has the request's term.
LEMMA VoteStorage ==
  ASSUME StorageInv, NEW i \in Node, NEW m \in msgs,
         m.type = "RequestVote", Vote(i, m)
  PROVE  StorageInv'
<1> DEFINE hs == IF m.term > currentTerm[i] THEN FollowerState(i, m.term)
                                            ELSE hardState[i]
           voted == HardState(m.term, m.from, commitIndex[i])
           grant == [type |-> "VoteGranted", term |-> m.term,
                     from |-> i, to |-> m.from]
           Fit(h) == /\ h \in HardStates
                     /\ h.term >= m.term /\ h.commit >= commitIndex[i]
<1>0. TypeOK /\ NodeStorage(i)
  BY DEF StorageInv
<1>1. m.term \in Nat /\ m.from \in Node
  BY <1>0, MessageFields DEF TypeOK
<1>2. /\ ~fatal[i] /\ m.term >= currentTerm[i]
      /\ UNCHANGED <<fatal, logVars, leaderVars, wal, snapFile>>
      /\ currentTerm' = [currentTerm EXCEPT ![i] = m.term]
      /\ role' = [role EXCEPT ![i] = IF m.term > currentTerm[i] THEN "Follower" ELSE @]
  BY DEF Vote, Admits
<1>3. currentTerm[i] \in Nat /\ commitIndex[i] \in Nat /\ hardState[i] \in HardStates
  BY <1>0 DEF TypeOK, Term, Index, HardStates
<1>4. Fit(hs)
  <2>1. CASE m.term > currentTerm[i]
    <3>1. /\ FollowerState(i, m.term) \in HardStates
          /\ FollowerState(i, m.term).commit = commitIndex[i]
          /\ m.term >= currentTerm[i] => FollowerState(i, m.term).term = m.term
      BY <1>0, <1>1, FollowerStateType
    <3> QED BY <1>1, <1>3, <2>1, <3>1
  <2>2. CASE ~(m.term > currentTerm[i])
    BY <1>0, <1>1, <1>2, <1>3, <2>2 DEF NodeStorage, HardStates, Term, Index
  <2> QED BY <2>1, <2>2
<1>5. Fit(voted)
  BY <1>1, <1>3 DEF HardState, HardStates, Term, Index
<1>6. FollowerVote(i, m.term) \in Node \cup {None}
  BY <1>0, <1>1, FollowerStateType
<1>7. grant \in Message
  BY <1>1 DEF Message, Term
<1> HIDE DEF hs, voted, grant
<1>8. /\ \E h : Fit(h) /\ hardState' = [hardState EXCEPT ![i] = h]
      /\ \E v \in Node \cup {None} : votedFor' = [votedFor EXCEPT ![i] = v]
      /\ msgs' \in {msgs, msgs \cup {grant}}
      /\ faults' \in {faults, faults + 1}
  <2>1. CASE ~GrantsVote(i, m)
    BY <1>4, <1>6, <2>1 DEF Vote, hs
  <2>2. CASE /\ GrantsVote(i, m)
             /\ votedFor' = [votedFor EXCEPT ![i] = m.from]
             /\ hardState' = [hardState EXCEPT ![i] = voted]
             /\ msgs' = msgs \cup {grant}
             /\ UNCHANGED faults
    BY <1>1, <1>5, <2>2, Zenon
  <2>3. CASE /\ GrantsVote(i, m)
             /\ votedFor' = [votedFor EXCEPT ![i] = FollowerVote(i, m.term)]
             /\ \E o \in Outcome \ {"ok"} :
                  /\ hardState' = [hardState EXCEPT ![i] = Saved(o, hs, voted)]
                  /\ Try(o)
             /\ UNCHANGED msgs
    BY <1>4, <1>5, <1>6, <2>3, Zenon DEF Saved, Try
  <2> QED BY <2>1, <2>2, <2>3, Zenon DEF Vote, hs, voted, grant
<1>9. PICK h : Fit(h) /\ hardState' = [hardState EXCEPT ![i] = h]
  BY <1>8, Zenon
<1>10. TypeOK'
  <2>1. role' \in [Node -> Role]
    BY <1>0, <1>2 DEF TypeOK, Role
  <2>2. currentTerm' \in [Node -> Term]
    BY <1>0, <1>1, <1>2 DEF TypeOK, Term
  <2>3. votedFor' \in [Node -> Node \cup {None}]
    BY <1>0, <1>8, UpdateType DEF TypeOK
  <2>4. hardState' \in [Node -> HardStates]
    BY <1>0, <1>9 DEF TypeOK, HardStates
  <2>5. msgs' \subseteq Message /\ faults' \in Nat
    BY <1>0, <1>7, <1>8 DEF TypeOK
  <2> QED BY <1>0, <1>2, <2>1, <2>2, <2>3, <2>4, <2>5, Zenon
          DEF TypeOK, HardStates, logVars, leaderVars
<1>11. NodeStorage(i)'
  <2>1. hardState'[i] = h /\ currentTerm'[i] = m.term
    BY <1>0, <1>2, <1>9 DEF TypeOK
  <2> QED BY <1>0, <1>1, <1>2, <1>9, <2>1 DEF NodeStorage, logVars
<1>12. \A j \in Node \ {i} : Untouched(j)
  BY <1>0, <1>2, <1>9 DEF TypeOK, Untouched, logVars
<1> QED BY <1>10, <1>11, <1>12, StorageStep

\* advanceCommitLocked never moves the commit index back or past the log, and
\* when it moves it, to an entry of the current term that a quorum holds.
LEMMA NewCommitSpec ==
  ASSUME NEW i \in Node, NEW lg \in Log, NEW match,
         LastIndex(lg) \in Nat, commitIndex[i] \in Nat, commitIndex[i] <= LastIndex(lg)
  PROVE  LET n == NewCommit(i, lg, match)
         IN  /\ n \in Nat /\ commitIndex[i] <= n /\ n <= LastIndex(lg)
             /\ n # commitIndex[i] =>
                  /\ lg[n].term = currentTerm[i]
                  /\ IsQuorum({i} \cup {j \in Node \ {i} : match[j] >= n})
<1> DEFINE Held(n) == /\ lg[n].term = currentTerm[i]
                      /\ IsQuorum({i} \cup {j \in Node \ {i} : match[j] >= n})
           held == {n \in (commitIndex[i] + 1)..LastIndex(lg) : Held(n)}
<1>1. CASE held = {}
  <2>1. NewCommit(i, lg, match) = commitIndex[i]
    BY <1>1, Zenon DEF NewCommit
  <2> QED BY <2>1
<1>2. CASE held # {}
  <2>1. held \subseteq Nat /\ \A n \in held : n <= LastIndex(lg)
    OBVIOUS
  <2>2. \E n \in held : \A k \in held : k <= n
    <3> HIDE DEF held
    <3> QED BY <1>2, <2>1, GreatestNatural, Zenon
  <2>3. NewCommit(i, lg, match) = CHOOSE n \in held : \A k \in held : k <= n
    BY <1>2, Zenon DEF NewCommit
  <2>4. NewCommit(i, lg, match) \in held
    <3> HIDE DEF held
    <3> QED BY <2>2, <2>3
  <2> QED BY <2>4
<1> QED BY <1>1, <1>2, Zenon

\* The leader's step: log and WAL get lg, then the commit index follows.
LEMMA AdvanceCommitStorage ==
  ASSUME StorageInv, NEW i \in Node, role[i] # "Follower",
         NEW lg \in Log, LastIndex(log[i]) <= LastIndex(lg),
         NEW match, NEW o \in Outcome, AdvanceCommit(i, lg, match, o),
         log' = [log EXCEPT ![i] = lg], wal' = [wal EXCEPT ![i] = lg],
         UNCHANGED <<currentTerm, votedFor, snapIdx, snapFile, msgs>>,
         nextIndex' \in [Node -> [Node -> Index]],
         matchIndex' \in [Node -> [Node -> Index]]
  PROVE  StorageInv'
<1> DEFINE n == NewCommit(i, lg, match)
<1>0. TypeOK /\ NodeStorage(i)
  BY DEF StorageInv
<1>1. /\ commitIndex[i] \in Nat /\ currentTerm[i] \in Nat
      /\ LastIndex(log[i]) \in Nat /\ LastIndex(lg) \in Nat
      /\ votedFor[i] \in Node \cup {None} /\ hardState[i] \in HardStates
  BY <1>0, LogTerms DEF TypeOK, Term, Index, HardStates
<1>2. ~fatal[i] /\ commitIndex[i] <= LastIndex(lg) /\ snapIdx[i] <= LastIndex(lg)
  <2>1. /\ ~fatal[i] /\ snapIdx[i] \in Nat
        /\ commitIndex[i] <= LastIndex(log[i]) /\ snapIdx[i] <= commitIndex[i]
    BY <1>0 DEF NodeStorage, TypeOK, Index
  <2> QED BY <1>1, <2>1
<1>3. n \in Nat /\ commitIndex[i] <= n /\ n <= LastIndex(lg)
  BY <1>1, <1>2, NewCommitSpec, Zenon
<1> HIDE DEF n
<1>4. /\ commitIndex' = [commitIndex EXCEPT ![i] = IF o = "ok" THEN n ELSE @]
      /\ role' = [role EXCEPT ![i] = IF o = "ok" THEN "Leader" ELSE "Follower"]
      /\ fatal' = [fatal EXCEPT ![i] = o # "ok"]
      /\ Try(o)
  BY DEF AdvanceCommit, n
<1>5. \E h \in HardStates :
        /\ hardState' = [hardState EXCEPT ![i] = h]
        /\ o = "ok" => h.term >= currentTerm[i] /\ h.commit >= n
  <2>1. CASE n = commitIndex[i]
    <3>1. hardState' = [hardState EXCEPT ![i] = hardState[i]]
      BY <2>1 DEF AdvanceCommit, n
    <3> QED BY <1>0, <1>1, <1>2, <2>1, <3>1, Zenon DEF NodeStorage
  <2>2. CASE n # commitIndex[i]
    <3> DEFINE new == HardState(currentTerm[i], votedFor[i], n)
    <3>1. hardState' = [hardState EXCEPT ![i] = Saved(o, hardState[i], new)]
      BY <2>2 DEF AdvanceCommit, n
    <3>2. new \in HardStates /\ new.term = currentTerm[i] /\ new.commit = n
      BY <1>1, <1>3, Zenon DEF HardState, HardStates, Term, Index
    <3> HIDE DEF new
    <3> DEFINE h == Saved(o, hardState[i], new)
    <3>3. /\ h \in HardStates
          /\ o = "ok" => h.term >= currentTerm[i] /\ h.commit >= n
      BY <1>1, <1>3, <3>2 DEF Saved
    <3> QED BY <3>1, <3>3, Zenon
  <2> QED BY <2>1, <2>2
<1>6. PICK h \in HardStates :
        /\ hardState' = [hardState EXCEPT ![i] = h]
        /\ o = "ok" => h.term >= currentTerm[i] /\ h.commit >= n
  BY <1>5, Zenon
<1>7. TypeOK'
  <2>1. role' \in [Node -> Role] /\ commitIndex' \in [Node -> Index] /\ faults' \in Nat
    BY <1>0, <1>3, <1>4 DEF TypeOK, Role, Index, Try
  <2>2. fatal' \in [Node -> BOOLEAN]
    BY <1>0, <1>4 DEF TypeOK
  <2>3. hardState' \in [Node -> HardStates]
    BY <1>0, <1>6 DEF TypeOK, HardStates
  <2>4. log' \in [Node -> Log] /\ wal' \in [Node -> Log]
    BY <1>0 DEF TypeOK
  <2> QED BY <1>0, <2>1, <2>2, <2>3, <2>4, Zenon DEF TypeOK, HardStates
<1>8. NodeStorage(i)'
  <2>1. /\ log'[i] = lg /\ wal'[i] = lg /\ hardState'[i] = h
        /\ commitIndex'[i] = IF o = "ok" THEN n ELSE commitIndex[i]
        /\ role'[i] = IF o = "ok" THEN "Leader" ELSE "Follower"
    BY <1>0, <1>4, <1>6 DEF TypeOK
  <2>2. fatal'[i] <=> o # "ok"
    BY <1>0, <1>4, Zenon DEF TypeOK
  <2>3. /\ snapIdx[i] \in Nat /\ snapIdx[i] <= commitIndex[i]
        /\ snapFile[i] \in Nat /\ snapIdx[i] <= snapFile[i] /\ snapFile[i] <= commitIndex[i]
    BY <1>0, <1>2, Zenon DEF TypeOK, Index, NodeStorage
  <2>4. /\ snapIdx[i] <= n /\ snapFile[i] <= n /\ n <= n
        /\ snapFile[i] <= LastIndex(lg)
    <3>1. n <= n
      BY <1>3, NatOrder, Zenon
    <3>2. /\ snapIdx[i] <= n /\ snapFile[i] <= n
          /\ snapFile[i] <= LastIndex(lg)
      BY <1>1, <1>2, <1>3, <2>3, LeqTransitive, Zenon
    <3> QED BY <3>1, <3>2
  <2>5. CASE o = "ok"
    BY <1>3, <1>6, <2>1, <2>2, <2>3, <2>4, <2>5, Zenon DEF NodeStorage
  <2>6. CASE o # "ok"
    BY <1>2, <2>1, <2>2, <2>3, <2>4, <2>6, Zenon DEF NodeStorage
  <2> QED BY <2>5, <2>6
<1>9. \A j \in Node \ {i} : Untouched(j)
  BY <1>0, <1>4, <1>6 DEF TypeOK, Untouched
<1> QED BY <1>7, <1>8, <1>9, StorageStep

\* A store call that writes a log change leaves the new log or one that begins
\* with the old.
LEMMA WalOutcomesSpec ==
  ASSUME NEW o \in Outcome, NEW old \in Log, NEW merge,
         merge.log \in Log, merge.appended \in Log,
         NEW w \in WalOutcomes(o, old, merge)
  PROVE  /\ w \in Log
         /\ w = merge.log \/ LastIndex(old) <= LastIndex(w)
<1>1. ASSUME NEW x \in Log PROVE old \o x \in Log /\ LastIndex(old) <= LastIndex(old \o x)
  <2>1. /\ old \o x \in Log /\ Len(old \o x) = Len(old) + Len(x)
        /\ Len(x) \in Nat /\ Len(old) \in Nat
    BY DEF Log
  <2> QED BY <2>1 DEF LastIndex
<1>2. CASE o = "ok"
  <2>1. w = merge.log \/ w = old \o merge.appended
    BY <1>2 DEF WalOutcomes
  <2> QED BY <1>1, <2>1, Zenon
<1>3. CASE o = "clean"
  <2>1. w = old /\ LastIndex(old) \in Nat
    BY <1>3, LogTerms DEF WalOutcomes
  <2> QED BY <2>1
<1>4. CASE o = "dirty"
  <2>1. CASE merge.replaced
    BY <1>4, <2>1 DEF WalOutcomes
  <2>2. CASE ~merge.replaced
    <3>1. PICK n \in 1..Len(merge.appended) : w = old \o SubSeq(merge.appended, 1, n)
      BY <1>4, <2>2, Zenon DEF WalOutcomes
    <3>2. SubSeq(merge.appended, 1, n) \in Log
      BY DEF Log
    <3> QED BY <1>1, <3>1, <3>2
  <2> QED BY <2>1, <2>2
<1> QED BY <1>2, <1>3, <1>4 DEF Outcome

\* becomeLeader and proposeAppend.
LEMMA LeaderAppendStorage ==
  ASSUME StorageInv, NEW i \in Node, role[i] # "Follower",
         NEW command \in Command \cup {NoOp}, NEW match,
         LeaderAppend(i, command, match),
         UNCHANGED <<currentTerm, votedFor, snapIdx, snapFile, msgs>>,
         nextIndex' \in [Node -> [Node -> Index]],
         matchIndex' \in [Node -> [Node -> Index]]
  PROVE  StorageInv'
<1> DEFINE e == [term |-> currentTerm[i], command |-> command]
           merge == Appending(log[i], e)
<1>0. TypeOK /\ NodeStorage(i)
  BY DEF StorageInv
<1>1. ~fatal[i] /\ wal[i] = log[i] /\ log[i] \in Log
  BY <1>0 DEF NodeStorage, TypeOK
<1>2. e \in Entry
  BY <1>0 DEF TypeOK, Entry, Term
<1> HIDE DEF e
<1>3. /\ merge.log = Append(log[i], e)
      /\ merge.appended = <<e>>
  BY DEF Appending
<1>4. /\ Append(log[i], e) \in Log /\ <<e>> \in Log
      /\ LastIndex(log[i]) <= LastIndex(Append(log[i], e))
      /\ LastIndex(log[i]) \in Nat
  BY <1>1, <1>2, LogTerms, LogParts
<1> HIDE DEF merge
<1>5. CASE /\ wal' = [wal EXCEPT ![i] = Append(@, e)]
           /\ log' = [log EXCEPT ![i] = merge.log]
           /\ \E o \in Outcome : AdvanceCommit(i, merge.log, match, o)
  <2> DEFINE lg == Append(log[i], e)
  <2>1. lg \in Log /\ LastIndex(log[i]) <= LastIndex(lg)
    BY <1>4
  <2>2. wal' = [wal EXCEPT ![i] = lg] /\ log' = [log EXCEPT ![i] = lg]
    BY <1>1, <1>3, <1>5, Zenon
  <2>3. PICK o \in Outcome : AdvanceCommit(i, lg, match, o)
    BY <1>3, <1>5
  <2> HIDE DEF lg
  <2> QED BY <2>1, <2>2, <2>3, AdvanceCommitStorage, Zenon
<1>6. CASE \E o \in Outcome \ {"ok"} :
             /\ \E w \in WalOutcomes(o, wal[i], merge) : wal' = [wal EXCEPT ![i] = w]
             /\ role' = [role EXCEPT ![i] = "Follower"]
             /\ fatal' = [fatal EXCEPT ![i] = TRUE]
             /\ Try(o)
             /\ UNCHANGED <<log, commitIndex, hardState>>
  <2>0. PICK o \in Outcome \ {"ok"} :
             /\ \E w \in WalOutcomes(o, wal[i], merge) : wal' = [wal EXCEPT ![i] = w]
             /\ role' = [role EXCEPT ![i] = "Follower"]
             /\ fatal' = [fatal EXCEPT ![i] = TRUE]
             /\ Try(o)
             /\ UNCHANGED <<log, commitIndex, hardState>>
    BY <1>6, Zenon
  <2>1. PICK w \in WalOutcomes(o, wal[i], merge) : wal' = [wal EXCEPT ![i] = w]
    BY <2>0, Zenon
  <2>2. w \in Log /\ LastIndex(log[i]) <= LastIndex(w)
    <3>1. w \in Log /\ (w = merge.log \/ LastIndex(wal[i]) <= LastIndex(w))
      BY <1>1, <1>3, <1>4, WalOutcomesSpec, Zenon
    <3>2. LastIndex(log[i]) <= LastIndex(merge.log)
      BY <1>3, <1>4, Zenon
    <3> QED BY <1>1, <3>1, <3>2, Zenon
  <2>3. TypeOK'
    <3>1. wal' \in [Node -> Log]
      BY <1>0, <2>1, <2>2 DEF TypeOK
    <3>2. role' \in [Node -> Role] /\ fatal' \in [Node -> BOOLEAN] /\ faults' \in Nat
      BY <1>0, <2>0, <2>1 DEF TypeOK, Role, Try
    <3> QED BY <1>0, <2>0, <2>1, <3>1, <3>2, Zenon DEF TypeOK
  <2>4. NodeStorage(i)'
    <3>1. wal'[i] = w /\ role'[i] = "Follower" /\ fatal'[i]
      BY <1>0, <2>0, <2>1 DEF TypeOK
    <3>2. /\ LastIndex(w) \in Nat /\ LastIndex(log[i]) \in Nat
          /\ snapFile[i] \in Nat /\ snapFile[i] <= LastIndex(log[i])
          /\ commitIndex[i] \in Nat /\ commitIndex[i] <= LastIndex(log[i])
      <4>1. snapFile[i] \in Nat /\ commitIndex[i] \in Nat
        BY <1>0, Zenon DEF TypeOK, Index
      <4>2. LastIndex(w) \in Nat /\ LastIndex(log[i]) \in Nat
        BY <1>1, <2>2, LogTerms, Zenon
      <4>3. snapFile[i] <= LastIndex(log[i]) /\ commitIndex[i] <= LastIndex(log[i])
        BY <1>0, <1>1, Zenon DEF NodeStorage
      <4> QED BY <4>1, <4>2, <4>3, Zenon
    <3>3. snapFile[i] <= LastIndex(w) /\ commitIndex[i] <= LastIndex(w)
      BY <2>2, <3>2, LeqTransitive, Zenon
    <3> QED BY <1>0, <2>0, <3>1, <3>3, Zenon DEF NodeStorage
  <2>5. \A j \in Node \ {i} : Untouched(j)
    BY <1>0, <2>0, <2>1 DEF TypeOK, Untouched
  <2> QED BY <2>3, <2>4, <2>5, StorageStep, Zenon
<1> QED BY <1>5, <1>6, Zenon DEF LeaderAppend, e, merge

LEMMA BecomeLeaderStorage ==
  ASSUME StorageInv, NEW i \in Node, BecomeLeader(i)
  PROVE  StorageInv'
<1>1. log[i] \in Log /\ TypeOK
  BY DEF StorageInv, TypeOK
<1>2. LastIndex(log[i]) + 1 \in Nat
  BY <1>1, LogTerms
<1>3. nextIndex' \in [Node -> [Node -> Index]] /\ matchIndex' \in [Node -> [Node -> Index]]
  BY <1>1, <1>2 DEF BecomeLeader, TypeOK, Index
<1> QED BY <1>3, LeaderAppendStorage, Zenon DEF BecomeLeader

LEMMA ProposeStorage ==
  ASSUME StorageInv, NEW i \in Node, NEW c \in Command, Propose(i, c)
  PROVE  StorageInv'
<1>1. nextIndex' \in [Node -> [Node -> Index]] /\ matchIndex' \in [Node -> [Node -> Index]]
  BY DEF Propose, StorageInv, TypeOK, leaderVars
<1> QED BY <1>1, LeaderAppendStorage, Zenon DEF Propose

\* A leader's own bookkeeping and the messages it sends do not concern the
\* disk.
LEMMA LeaderVarsStorage ==
  ASSUME StorageInv, UNCHANGED <<electionVars, logVars, diskVars, faults>>,
         nextIndex' \in [Node -> [Node -> Index]],
         matchIndex' \in [Node -> [Node -> Index]],
         msgs' \subseteq Message
  PROVE  StorageInv'
<1>1. TypeOK'
  BY DEF StorageInv, TypeOK, electionVars, logVars, diskVars
<1>2. ASSUME NEW j \in Node PROVE NodeStorage(j)'
  <2>1. NodeStorage(j)
    BY DEF StorageInv
  <2> QED BY <2>1 DEF NodeStorage, electionVars, logVars, diskVars
<1> QED BY <1>1, <1>2 DEF StorageInv

LEMMA MatchedType ==
  ASSUME TypeOK, NEW i \in Node, NEW j \in Node, NEW match \in Nat,
         Matched(i, j, match)
  PROVE  /\ nextIndex' \in [Node -> [Node -> Index]]
         /\ matchIndex' \in [Node -> [Node -> Index]]
<1>1. AtLeast(matchIndex[i][j], match) \in Nat /\ AtLeast(nextIndex[i][j], match + 1) \in Nat
  BY DEF AtLeast, TypeOK, Index
<1> QED BY <1>1 DEF Matched, TypeOK, Index

LEMMA HandleAppendOKStorage ==
  ASSUME StorageInv, NEW i \in Node, NEW m \in msgs, HandleAppendOK(i, m)
  PROVE  StorageInv'
<1>0. TypeOK /\ NodeStorage(i)
  BY DEF StorageInv
<1>1. m.from \in Node /\ m.match \in Nat
  BY <1>0, MessageFields, Zenon DEF TypeOK, HandleAppendOK
<1>2. /\ role[i] = "Leader"
      /\ UNCHANGED <<currentTerm, votedFor, log, snapIdx, wal, snapFile, msgs>>
      /\ \E o \in Outcome :
           AdvanceCommit(i, log[i],
             [matchIndex[i] EXCEPT ![m.from] = AtLeast(@, m.match)], o)
  BY Zenon DEF HandleAppendOK, Awaits
<1>3. nextIndex' \in [Node -> [Node -> Index]] /\ matchIndex' \in [Node -> [Node -> Index]]
  BY <1>0, <1>1, MatchedType, Zenon DEF HandleAppendOK
<1>4. /\ log[i] \in Log /\ LastIndex(log[i]) <= LastIndex(log[i])
      /\ log' = [log EXCEPT ![i] = log[i]]
      /\ wal' = [wal EXCEPT ![i] = log[i]]
  BY <1>0, <1>2, LogTerms DEF TypeOK, NodeStorage
<1> QED BY <1>2, <1>3, <1>4, AdvanceCommitStorage, Zenon

LEMMA HandleAppendConflictStorage ==
  ASSUME StorageInv, NEW i \in Node, NEW m \in msgs, HandleAppendConflict(i, m)
  PROVE  StorageInv'
<1>1. TypeOK
  BY DEF StorageInv
<1>2. m.from \in Node /\ m.index \in Nat
  BY <1>1, MessageFields, Zenon DEF TypeOK, HandleAppendConflict
<1>3. /\ nextIndex' = [nextIndex EXCEPT ![i][m.from] = m.index]
      /\ UNCHANGED <<electionVars, logVars, matchIndex, diskVars, msgs, faults>>
  BY DEF HandleAppendConflict
<1>4. /\ nextIndex' \in [Node -> [Node -> Index]] /\ matchIndex' \in [Node -> [Node -> Index]]
      /\ msgs' \subseteq Message
  BY <1>1, <1>2, <1>3 DEF TypeOK, Index
<1> QED BY <1>3, <1>4, LeaderVarsStorage

LEMMA HandleInstallOKStorage ==
  ASSUME StorageInv, NEW i \in Node, NEW m \in msgs, HandleInstallOK(i, m)
  PROVE  StorageInv'
<1>1. TypeOK
  BY DEF StorageInv
<1>2. m.from \in Node /\ m.match \in Nat
  BY <1>1, MessageFields, Zenon DEF TypeOK, HandleInstallOK
<1>3. /\ nextIndex' \in [Node -> [Node -> Index]] /\ matchIndex' \in [Node -> [Node -> Index]]
  BY <1>1, <1>2, MatchedType DEF HandleInstallOK
<1>4. msgs' \subseteq Message
  BY <1>1 DEF HandleInstallOK, TypeOK
<1> QED BY <1>3, <1>4, LeaderVarsStorage DEF HandleInstallOK

\* replicateToPeer sends well-formed requests.
LEMMA ReplicateToPeerStorage ==
  ASSUME StorageInv, NEW i \in Node, NEW j \in Node, ReplicateToPeer(i, j)
  PROVE  StorageInv'
<1> DEFINE next == IF nextIndex[i][j] = 0 THEN LastIndex(log[i]) + 1
                                          ELSE nextIndex[i][j]
           install == [type |-> "InstallSnapshot", term |-> currentTerm[i],
                       from |-> i, to |-> j, body |-> Prefix(log[i], snapIdx[i])]
           append == [type |-> "AppendEntries", term |-> currentTerm[i],
                      from |-> i, to |-> j, prevIndex |-> next - 1,
                      prevTerm |-> TermAt(log[i], next - 1),
                      entries |-> EntriesFrom(log[i], next),
                      commit |-> commitIndex[i]]
           known == HasTermAt(log[i], snapIdx[i], next - 1)
<1>0. TypeOK /\ NodeStorage(i)
  BY DEF StorageInv
<1>1. /\ log[i] \in Log /\ nextIndex[i][j] \in Nat /\ currentTerm[i] \in Nat
      /\ snapIdx[i] \in Nat /\ commitIndex[i] \in Nat
      /\ LastIndex(log[i]) \in Nat
  BY <1>0, LogTerms DEF TypeOK, Term, Index
<1>2. next \in Nat /\ next >= 1 /\ snapIdx[i] <= LastIndex(log[i])
  BY <1>0, <1>1 DEF NodeStorage, TypeOK, Index
<1> HIDE DEF next
<1>3. install \in Message
  <2>1. Prefix(log[i], snapIdx[i]) \in Log
    BY <1>1, <1>2, LogParts, Zenon
  <2> QED BY <1>1, <2>1, MessageTypes, Zenon
<1>4. known => append \in Message
  <2> SUFFICES ASSUME known PROVE append \in Message
    BY Zenon
  <2>1. next - 1 \in 0..LastIndex(log[i])
    BY <1>1, <1>2 DEF HasTermAt, LastIndex
  <2>2. TermAt(log[i], next - 1) \in Nat
    BY <1>1, <2>1, LogTerms
  <2>3. EntriesFrom(log[i], next) \in Log
    <3>1. next \in Nat \ {0}
      BY <1>2
    <3> QED BY <1>1, <3>1, LogParts, Zenon
  <2>4. next - 1 \in Nat
    BY <1>2
  <2> QED BY <1>1, <2>2, <2>3, <2>4, MessageTypes, Zenon
<1> HIDE DEF install, append
<1>5. /\ UNCHANGED <<electionVars, logVars, matchIndex, diskVars, faults>>
      /\ \/ /\ msgs' = msgs \cup {install}
            /\ nextIndex' = [nextIndex EXCEPT ![i][j] = next]
         \/ /\ known
            /\ msgs' = msgs \cup {append}
            /\ nextIndex' = [nextIndex EXCEPT ![i][j] = next]
         \/ /\ nextIndex' = [nextIndex EXCEPT ![i][j] = snapIdx[i] + 1]
            /\ UNCHANGED msgs
  BY Zenon DEF ReplicateToPeer, next, install, append
<1>6. \E n \in Nat : nextIndex' = [nextIndex EXCEPT ![i][j] = n]
  <2>1. snapIdx[i] + 1 \in Nat
    BY <1>1
  <2> QED BY <1>2, <1>5, <2>1, Zenon
<1>7. nextIndex' \in [Node -> [Node -> Index]]
  <2>1. PICK n \in Nat : nextIndex' = [nextIndex EXCEPT ![i][j] = n]
    BY <1>6, Zenon
  <2>2. nextIndex \in [Node -> [Node -> Index]]
    BY <1>0 DEF TypeOK
  <2> QED BY <2>1, <2>2 DEF Index
<1>8. matchIndex' \in [Node -> [Node -> Index]] /\ msgs' \subseteq Message
  BY <1>0, <1>3, <1>4, <1>5 DEF TypeOK
<1> QED BY <1>5, <1>7, <1>8, LeaderVarsStorage

LEMMA HandleRefusedStorage ==
  ASSUME StorageInv, NEW i \in Node, NEW m \in msgs, HandleRefused(i, m)
  PROVE  StorageInv'
<1>1. m.term \in Nat
  BY MessageFields, Zenon DEF StorageInv, TypeOK
<1> QED BY <1>1, BecomeFollowerStorage DEF HandleRefused

LEMMA StepDownFailsStorage ==
  ASSUME StorageInv, NEW i \in Node, NEW m \in msgs, StepDownFails(i, m)
  PROVE  StorageInv'
<1>1. m.term \in Nat
  BY MessageFields DEF StorageInv, TypeOK
<1> QED BY <1>1, BecomeFollowerStorage DEF StepDownFails

\* persistSnapshot, also by a node out of service.
LEMMA PersistSnapshotStorage ==
  ASSUME StorageInv, NEW i \in Node, NEW index \in 1..commitIndex[i],
         PersistSnapshot(i, index)
  PROVE  StorageInv'
<1>0. TypeOK /\ NodeStorage(i)
  BY DEF StorageInv
<1>1. /\ UNCHANGED <<electionVars, log, commitIndex, leaderVars, hardState, msgs>>
      /\ \/ /\ snapIdx' = [snapIdx EXCEPT ![i] = index]
            /\ snapFile' = [snapFile EXCEPT ![i] = index]
            /\ wal' = [wal EXCEPT ![i] = log[i]]
            /\ UNCHANGED faults
         \/ /\ Try("clean")
            /\ UNCHANGED <<snapIdx, snapFile, wal>>
         \/ /\ Try("dirty")
            /\ snapFile' = [snapFile EXCEPT ![i] = index]
            /\ wal' \in {wal, [wal EXCEPT ![i] = log[i]]}
            /\ UNCHANGED snapIdx
  BY Zenon DEF PersistSnapshot
<1>2. index \in Nat /\ snapIdx[i] <= index /\ index <= commitIndex[i] /\ log[i] \in Log
  BY <1>0 DEF TypeOK, Index, PersistSnapshot
<1>3. TypeOK'
  <2>1. snapIdx' \in [Node -> Index] /\ snapFile' \in [Node -> Index]
    <3>1. /\ snapIdx' \in {snapIdx, [snapIdx EXCEPT ![i] = index]}
          /\ snapFile' \in {snapFile, [snapFile EXCEPT ![i] = index]}
      BY <1>1, Zenon
    <3>2. /\ [snapIdx EXCEPT ![i] = index] \in [Node -> Index]
          /\ [snapFile EXCEPT ![i] = index] \in [Node -> Index]
      BY <1>0, <1>2 DEF TypeOK, Index
    <3> QED BY <1>0, <3>1, <3>2, Zenon DEF TypeOK
  <2>2. wal' \in [Node -> Log]
    <3>1. wal' \in {wal, [wal EXCEPT ![i] = log[i]]}
      BY <1>1, Zenon
    <3>2. [wal EXCEPT ![i] = log[i]] \in [Node -> Log]
      BY <1>0, <1>2 DEF TypeOK
    <3> QED BY <1>0, <3>1, <3>2, Zenon DEF TypeOK
  <2>3. faults' \in Nat
    BY <1>0, <1>1 DEF TypeOK, Try
  <2> QED BY <1>0, <1>1, <2>1, <2>2, <2>3 DEF TypeOK, electionVars, leaderVars
<1>4. NodeStorage(i)'
  <2>1. commitIndex[i] \in Nat /\ LastIndex(log[i]) \in Nat
    BY <1>0, <1>2, LogTerms DEF TypeOK, Index
  <2>2. CASE UNCHANGED <<snapIdx, snapFile, wal>>
    BY <1>0, <1>1, <2>2, Zenon DEF NodeStorage, electionVars
  <2>3. CASE /\ snapIdx' = [snapIdx EXCEPT ![i] = index]
             /\ snapFile' = [snapFile EXCEPT ![i] = index]
             /\ wal' = [wal EXCEPT ![i] = log[i]]
    <3>1. snapIdx'[i] = index /\ snapFile'[i] = index /\ wal'[i] = log[i]
      BY <1>0, <2>3 DEF TypeOK
    <3>2. commitIndex[i] <= LastIndex(log[i]) /\ index <= LastIndex(log[i])
      BY <1>0, <1>2, <2>1, LeqTransitive, Zenon DEF NodeStorage
    <3>3. index <= index
      BY <1>2
    <3> QED BY <1>0, <1>1, <1>2, <3>1, <3>2, <3>3, Zenon DEF NodeStorage, electionVars
  <2>4. CASE /\ snapFile' = [snapFile EXCEPT ![i] = index]
             /\ wal' \in {wal, [wal EXCEPT ![i] = log[i]]}
             /\ UNCHANGED snapIdx
    <3>1. snapFile'[i] = index /\ wal'[i] \in {wal[i], log[i]}
      BY <1>0, <2>4 DEF TypeOK
    <3>2. LastIndex(wal[i]) \in Nat /\ commitIndex[i] <= LastIndex(wal[i])
      BY <1>0, LogTerms DEF TypeOK, NodeStorage
    <3>3. /\ commitIndex[i] <= LastIndex(log[i]) /\ index <= LastIndex(log[i])
          /\ index <= LastIndex(wal[i])
      BY <1>0, <1>2, <2>1, <3>2, LeqTransitive, Zenon DEF NodeStorage
    <3> QED BY <1>0, <1>1, <1>2, <2>4, <3>1, <3>2, <3>3, Zenon DEF NodeStorage, electionVars
  <2> QED BY <1>1, <2>2, <2>3, <2>4
<1>5. \A j \in Node \ {i} : Untouched(j)
  BY <1>0, <1>1 DEF TypeOK, Untouched, electionVars
<1> QED BY <1>3, <1>4, <1>5, StorageStep

\* NewNode: memory is what is on disk.
LEMMA RestartStorage ==
  ASSUME StorageInv, NEW i \in Node, Restart(i)
  PROVE  StorageInv'
<1> DEFINE commit == LoadedCommit(i)
<1>0. TypeOK /\ NodeStorage(i)
  BY DEF StorageInv
<1>1. /\ hardState[i] \in HardStates /\ wal[i] \in Log
      /\ snapFile[i] \in Nat /\ hardState[i].commit \in Nat /\ LastIndex(wal[i]) \in Nat
  BY <1>0, LogTerms DEF TypeOK, HardStates, Index
<1>2. commit \in Nat /\ snapFile[i] <= commit /\ commit <= LastIndex(wal[i])
  BY <1>0, <1>1 DEF LoadedCommit, NodeStorage, TypeOK, Index
<1> HIDE DEF commit
<1>3. /\ faults' = faults + 1
      /\ role' = [role EXCEPT ![i] = "Follower"]
      /\ currentTerm' = [currentTerm EXCEPT ![i] = hardState[i].term]
      /\ votedFor' = [votedFor EXCEPT ![i] = hardState[i].vote]
      /\ fatal' = [fatal EXCEPT ![i] = FALSE]
      /\ log' = [log EXCEPT ![i] = wal[i]]
      /\ snapIdx' = [snapIdx EXCEPT ![i] = snapFile[i]]
      /\ commitIndex' = [commitIndex EXCEPT ![i] = commit]
      /\ nextIndex' = [nextIndex EXCEPT ![i] = [j \in Node |-> 0]]
      /\ matchIndex' = [matchIndex EXCEPT ![i] = [j \in Node |-> 0]]
      /\ hardState' = [hardState EXCEPT ![i].commit = commit]
      /\ UNCHANGED <<wal, snapFile, msgs>>
  BY DEF Restart, commit
<1>4. TypeOK'
  <2>1. /\ role' \in [Node -> Role] /\ fatal' \in [Node -> BOOLEAN]
        /\ faults' \in Nat
    BY <1>0, <1>3 DEF TypeOK, Role
  <2>2. currentTerm' \in [Node -> Term]
    BY <1>0, <1>1, <1>3 DEF TypeOK, HardStates
  <2>3. votedFor' \in [Node -> Node \cup {None}]
    <3>1. hardState[i].vote \in Node \cup {None}
      BY <1>1, Zenon DEF HardStates
    <3> QED BY <1>0, <1>3, <3>1 DEF TypeOK
  <2>4. log' \in [Node -> Log]
    BY <1>0, <1>1, <1>3 DEF TypeOK
  <2>5. snapIdx' \in [Node -> Index] /\ commitIndex' \in [Node -> Index]
    BY <1>0, <1>1, <1>2, <1>3 DEF TypeOK, Index
  <2>6. nextIndex' \in [Node -> [Node -> Index]] /\ matchIndex' \in [Node -> [Node -> Index]]
    BY <1>0, <1>3 DEF TypeOK, Index
  <2>7. hardState' \in [Node -> HardStates]
    BY <1>0, <1>1, <1>2, <1>3, Zenon DEF TypeOK, HardStates, Index
  <2> QED BY <1>0, <1>3, <2>1, <2>2, <2>3, <2>4, <2>5, <2>6, <2>7, Zenon
          DEF TypeOK, HardStates
<1>5. NodeStorage(i)'
  <2>1. /\ role'[i] = "Follower" /\ log'[i] = wal[i] /\ snapIdx'[i] = snapFile[i]
        /\ commitIndex'[i] = commit /\ currentTerm'[i] = hardState[i].term
    BY <1>0, <1>3 DEF TypeOK
  <2>2. hardState'[i].term = hardState[i].term /\ hardState'[i].commit = commit
    BY <1>0, <1>1, <1>3 DEF TypeOK, HardStates
  <2>3. hardState[i].term \in Nat
    BY <1>1, Zenon DEF HardStates, Term
  <2> QED BY <1>1, <1>2, <1>3, <2>1, <2>2, <2>3 DEF NodeStorage
<1>6. \A j \in Node \ {i} : Untouched(j)
  BY <1>0, <1>3 DEF TypeOK, Untouched
<1> QED BY <1>4, <1>5, <1>6, StorageStep
=============================================================================
