------------------------- MODULE RaftFollowerProofs -------------------------
(***************************************************************************)
(* The handlers of the leader's requests preserve StorageInv, and with the *)
(* steps of RaftStorageProofs: every node of every cluster always has its  *)
(* types, and on disk what it has in memory while it is in service.        *)
(***************************************************************************)
EXTENDS RaftStorageProofs

\* The hard state on disk after a handler's step-down.
LEMMA StateAfterStepDownSpec ==
  ASSUME StorageInv, NEW i \in Node, NEW m, m.term \in Nat, Admits(i, m)
  PROVE  /\ StateAfterStepDown(i, m) \in HardStates
         /\ StateAfterStepDown(i, m).term >= m.term
         /\ StateAfterStepDown(i, m).commit >= commitIndex[i]
<1>0. TypeOK /\ NodeStorage(i)
  BY DEF StorageInv
<1>1. /\ currentTerm[i] \in Nat /\ commitIndex[i] \in Nat /\ hardState[i] \in HardStates
      /\ ~fatal[i] /\ m.term >= currentTerm[i]
  BY <1>0 DEF TypeOK, Term, Index, HardStates, Admits
<1>2. /\ FollowerState(i, m.term) \in HardStates
      /\ FollowerState(i, m.term).commit = commitIndex[i]
      /\ FollowerState(i, m.term).term = m.term
  BY <1>0, <1>1, FollowerStateType, Zenon
<1>3. CASE StepsDown(i, m)
  <2>1. m.term >= m.term /\ commitIndex[i] >= commitIndex[i]
    BY <1>1, NatOrder, Zenon
  <2> QED BY <1>2, <1>3, <2>1, Zenon DEF StateAfterStepDown
<1>4. CASE ~StepsDown(i, m)
  <2>1. m.term = currentTerm[i]
    BY <1>1, <1>4, NatOrder, Zenon DEF StepsDown
  <2> QED BY <1>0, <1>1, <1>4, <2>1, Zenon DEF StateAfterStepDown, NodeStorage
<1> QED BY <1>3, <1>4

\* A handler that follows the sender of m and leaves node i with the given
\* state.
LEMMA FollowStorage ==
  ASSUME StorageInv, NEW i \in Node, NEW m, m.term \in Nat, Follow(i, m),
         NEW h \in HardStates, NEW lg \in Log, NEW w \in Log,
         NEW sn \in Nat, NEW sf \in Nat, NEW ci \in Nat, NEW b \in BOOLEAN,
         hardState' = [hardState EXCEPT ![i] = h],
         log' = [log EXCEPT ![i] = lg], wal' = [wal EXCEPT ![i] = w],
         snapIdx' = [snapIdx EXCEPT ![i] = sn],
         snapFile' = [snapFile EXCEPT ![i] = sf],
         commitIndex' = [commitIndex EXCEPT ![i] = ci],
         fatal' = [fatal EXCEPT ![i] = b],
         UNCHANGED leaderVars, msgs' \subseteq Message, faults' \in Nat,
         sn <= ci, ci <= LastIndex(lg), ci <= LastIndex(w), sf <= LastIndex(w),
         ~b => /\ w = lg /\ sn <= sf /\ sf <= ci
               /\ h.term >= m.term /\ h.commit >= ci
  PROVE  StorageInv'
<1>0. TypeOK /\ NodeStorage(i)
  BY DEF StorageInv
<1>1. /\ currentTerm' = [currentTerm EXCEPT ![i] = m.term]
      /\ votedFor' = [votedFor EXCEPT ![i] = FollowerVote(i, m.term)]
      /\ role' = [role EXCEPT ![i] = "Follower"]
  BY DEF Follow
<1>2. TypeOK'
  <2>1. role' \in [Node -> Role] /\ currentTerm' \in [Node -> Term]
    BY <1>0, <1>1 DEF TypeOK, Role, Term
  <2>2. votedFor' \in [Node -> Node \cup {None}]
    <3>1. FollowerVote(i, m.term) \in Node \cup {None}
      BY <1>0, FollowerStateType, Zenon
    <3> QED BY <1>0, <1>1, <3>1 DEF TypeOK
  <2>3. fatal' \in [Node -> BOOLEAN]
    BY <1>0 DEF TypeOK
  <2>4. log' \in [Node -> Log] /\ wal' \in [Node -> Log]
    BY <1>0 DEF TypeOK
  <2>5. /\ snapIdx' \in [Node -> Index] /\ snapFile' \in [Node -> Index]
        /\ commitIndex' \in [Node -> Index]
    BY <1>0 DEF TypeOK, Index
  <2>6. hardState' \in [Node -> HardStates]
    BY <1>0 DEF TypeOK, HardStates
  <2> QED BY <1>0, <2>1, <2>2, <2>3, <2>4, <2>5, <2>6, Zenon
          DEF TypeOK, HardStates, leaderVars
<1>3. NodeStorage(i)'
  <2>1. /\ role'[i] = "Follower" /\ currentTerm'[i] = m.term
        /\ log'[i] = lg /\ wal'[i] = w /\ snapIdx'[i] = sn /\ snapFile'[i] = sf
        /\ commitIndex'[i] = ci /\ hardState'[i] = h
    BY <1>0, <1>1 DEF TypeOK
  <2>2. fatal'[i] = b
    BY <1>0 DEF TypeOK
  <2> QED BY <2>1, <2>2, Zenon DEF NodeStorage
<1>4. \A j \in Node \ {i} : Untouched(j)
  BY <1>0, <1>1 DEF TypeOK, Untouched
<1> QED BY <1>2, <1>3, <1>4, StorageStep

\* What a handler of the leader's requests finds.
LEMMA HandlerState ==
  ASSUME StorageInv, NEW i \in Node
  PROVE  /\ log[i] \in Log /\ wal[i] \in Log
         /\ snapIdx[i] \in Nat /\ snapFile[i] \in Nat /\ commitIndex[i] \in Nat
         /\ LastIndex(log[i]) \in Nat /\ fatal[i] \in BOOLEAN
         /\ snapIdx[i] <= commitIndex[i] /\ commitIndex[i] <= LastIndex(log[i])
         /\ snapIdx[i] <= LastIndex(log[i])
         /\ log = [log EXCEPT ![i] = log[i]] /\ wal = [wal EXCEPT ![i] = wal[i]]
         /\ snapIdx = [snapIdx EXCEPT ![i] = snapIdx[i]]
         /\ snapFile = [snapFile EXCEPT ![i] = snapFile[i]]
         /\ commitIndex = [commitIndex EXCEPT ![i] = commitIndex[i]]
         /\ fatal = [fatal EXCEPT ![i] = fatal[i]]
         /\ snapFile[i] <= LastIndex(wal[i])
         /\ ~fatal[i] => /\ wal[i] = log[i]
                         /\ snapIdx[i] <= snapFile[i] /\ snapFile[i] <= commitIndex[i]
<1>0. TypeOK /\ NodeStorage(i)
  BY DEF StorageInv
<1>1. /\ log[i] \in Log /\ wal[i] \in Log /\ LastIndex(log[i]) \in Nat
      /\ snapIdx[i] \in Nat /\ snapFile[i] \in Nat /\ commitIndex[i] \in Nat
  BY <1>0, LogTerms DEF TypeOK, Index
<1>2. fatal[i] \in BOOLEAN
  BY <1>0 DEF TypeOK
<1>3. /\ log = [log EXCEPT ![i] = log[i]] /\ wal = [wal EXCEPT ![i] = wal[i]]
      /\ snapIdx = [snapIdx EXCEPT ![i] = snapIdx[i]]
      /\ snapFile = [snapFile EXCEPT ![i] = snapFile[i]]
      /\ commitIndex = [commitIndex EXCEPT ![i] = commitIndex[i]]
      /\ fatal = [fatal EXCEPT ![i] = fatal[i]]
  BY <1>0 DEF TypeOK
<1>4. /\ snapIdx[i] <= commitIndex[i] /\ commitIndex[i] <= LastIndex(log[i])
      /\ snapFile[i] <= LastIndex(wal[i])
      /\ ~fatal[i] => /\ wal[i] = log[i]
                      /\ snapIdx[i] <= snapFile[i] /\ snapFile[i] <= commitIndex[i]
  BY <1>0 DEF NodeStorage
<1> QED BY <1>1, <1>2, <1>3, <1>4

\* A handler that only follows the sender.
LEMMA FollowOnlyStorage ==
  ASSUME StorageInv, NEW i \in Node, NEW m, m.term \in Nat, Follow(i, m),
         hardState' = [hardState EXCEPT ![i] = StateAfterStepDown(i, m)],
         UNCHANGED <<fatal, logVars, leaderVars, wal, snapFile, faults>>,
         msgs' \subseteq Message
  PROVE  StorageInv'
<1>1. Admits(i, m) /\ faults \in Nat
  BY DEF Follow, StorageInv, TypeOK
<1>2. /\ ~fatal[i] /\ fatal[i] \in BOOLEAN
      /\ log[i] \in Log /\ wal[i] = log[i]
      /\ snapIdx[i] \in Nat /\ snapFile[i] \in Nat /\ commitIndex[i] \in Nat
      /\ snapIdx[i] <= snapFile[i] /\ snapFile[i] <= commitIndex[i]
      /\ snapFile[i] <= LastIndex(log[i]) /\ snapIdx[i] <= commitIndex[i] /\ commitIndex[i] <= LastIndex(log[i])
      /\ snapIdx[i] <= LastIndex(log[i])
  BY <1>1, HandlerState DEF Admits
<1>3. /\ log' = [log EXCEPT ![i] = log[i]] /\ wal' = [wal EXCEPT ![i] = log[i]]
      /\ snapIdx' = [snapIdx EXCEPT ![i] = snapIdx[i]]
      /\ snapFile' = [snapFile EXCEPT ![i] = snapFile[i]]
      /\ commitIndex' = [commitIndex EXCEPT ![i] = commitIndex[i]]
      /\ fatal' = [fatal EXCEPT ![i] = fatal[i]]
  BY <1>1, <1>2, HandlerState DEF logVars
<1>4. /\ StateAfterStepDown(i, m) \in HardStates
      /\ StateAfterStepDown(i, m).term >= m.term
      /\ StateAfterStepDown(i, m).commit >= commitIndex[i]
  BY <1>1, StateAfterStepDownSpec
<1> QED BY <1>1, <1>2, <1>3, <1>4, FollowStorage, ZenonT(60)

\* The conflict index that HandleAppendEntries answers with.
LEMMA AppendConflictAtType ==
  ASSUME StorageInv, NEW i \in Node, NEW m \in msgs, m.type = "AppendEntries"
  PROVE  AppendConflictAt(i, m) \in Nat
<1>1. /\ log[i] \in Log /\ snapIdx[i] \in Nat /\ commitIndex[i] \in Nat
      /\ snapIdx[i] <= LastIndex(log[i]) /\ commitIndex[i] <= LastIndex(log[i])
  BY HandlerState
<1>2. m.prevIndex \in Nat /\ m.entries \in Log
  BY MessageFields DEF StorageInv, TypeOK
<1>3. /\ ConflictIndex(log[i], snapIdx[i], m.prevIndex) \in Nat
      /\ MergeEntries(log[i], commitIndex[i], m.prevIndex, m.entries).conflict \in Nat
  BY <1>1, <1>2, LogConflict, LogMerge, Zenon
<1>4. snapIdx[i] + 1 \in Nat
  BY <1>1
<1> QED BY <1>3, <1>4, Zenon DEF AppendConflictAt

LEMMA RejectEntriesStorage ==
  ASSUME StorageInv, NEW i \in Node, NEW m \in msgs, m.type = "AppendEntries",
         RejectEntries(i, m)
  PROVE  StorageInv'
<1>1. /\ Follow(i, m) /\ Admits(i, m)
      /\ hardState' = [hardState EXCEPT ![i] = StateAfterStepDown(i, m)]
      /\ UNCHANGED <<fatal, logVars, leaderVars, wal, snapFile, faults>>
  BY DEF RejectEntries, Follow
<1>2. m.term \in Nat /\ m.from \in Node /\ msgs \subseteq Message /\ faults \in Nat
  BY MessageFields, Zenon DEF StorageInv, TypeOK
<1>3. msgs' \subseteq Message
  <2>1. AppendConflictAt(i, m) \in Nat
    BY AppendConflictAtType
  <2>2. [type |-> "AppendConflict", term |-> m.term, from |-> i, to |-> m.from,
         index |-> AppendConflictAt(i, m)] \in Message
    BY <1>2, <2>1, MessageTypes, Zenon
  <2> QED BY <1>2, <2>2 DEF RejectEntries
<1> QED BY <1>1, <1>2, <1>3, FollowOnlyStorage, Zenon

LEMMA AppendFailsStorage ==
  ASSUME StorageInv, NEW i \in Node, NEW m \in msgs, m.type = "AppendEntries",
         AppendFails(i, m)
  PROVE  StorageInv'
<1> DEFINE merge == MergeEntries(log[i], commitIndex[i], m.prevIndex, m.entries)
<1>1. /\ Follow(i, m) /\ Admits(i, m)
      /\ hardState' = [hardState EXCEPT ![i] = StateAfterStepDown(i, m)]
      /\ fatal' = [fatal EXCEPT ![i] = TRUE]
      /\ UNCHANGED <<logVars, leaderVars, snapFile, msgs>>
  BY Zenon DEF AppendFails, Follow
<1>2. /\ m.term \in Nat /\ msgs \subseteq Message /\ faults \in Nat
      /\ m.prevIndex \in Nat /\ m.entries \in Log
  BY MessageFields, Zenon DEF StorageInv, TypeOK
<1>3. PICK o \in Outcome \ {"ok"} :
        /\ \E w \in WalOutcomes(o, wal[i], merge) : wal' = [wal EXCEPT ![i] = w]
        /\ Try(o)
  BY Zenon DEF AppendFails
<1>4. PICK w \in WalOutcomes(o, wal[i], merge) : wal' = [wal EXCEPT ![i] = w]
  BY <1>3, Zenon
<1>5. /\ log[i] \in Log /\ wal[i] = log[i] /\ snapFile[i] <= commitIndex[i]
      /\ snapIdx[i] \in Nat /\ snapFile[i] \in Nat /\ commitIndex[i] \in Nat
      /\ snapIdx[i] <= commitIndex[i] /\ commitIndex[i] <= LastIndex(log[i])
      /\ snapIdx[i] <= LastIndex(log[i])
  BY <1>1, HandlerState DEF Admits
<1>6. /\ merge.log \in Log /\ merge.appended \in Log
      /\ commitIndex[i] <= LastIndex(merge.log)
  BY <1>2, <1>5, LogMerge, Zenon
<1> HIDE DEF merge
<1>7. w \in Log /\ commitIndex[i] <= LastIndex(w) /\ snapFile[i] <= LastIndex(w)
  <2>1. w \in Log /\ (w = merge.log \/ LastIndex(wal[i]) <= LastIndex(w))
    BY <1>4, <1>5, <1>6, WalOutcomesSpec, Zenon
  <2>2. LastIndex(w) \in Nat /\ LastIndex(log[i]) \in Nat
    BY <1>5, <2>1, LogTerms, Zenon
  <2>4. LastIndex(wal[i]) <= LastIndex(w) => commitIndex[i] <= LastIndex(w)
    BY <1>5, <2>2, LeqTransitive, Zenon
  <2>5. commitIndex[i] <= LastIndex(w)
    BY <1>6, <2>1, <2>4, Zenon
  <2> QED BY <1>5, <2>1, <2>2, <2>5, LeqTransitive, Zenon
<1>8. faults' \in Nat
  BY <1>2, <1>3 DEF Try
<1>9. /\ log' = [log EXCEPT ![i] = log[i]]
      /\ snapIdx' = [snapIdx EXCEPT ![i] = snapIdx[i]]
      /\ snapFile' = [snapFile EXCEPT ![i] = snapFile[i]]
      /\ commitIndex' = [commitIndex EXCEPT ![i] = commitIndex[i]]
      /\ UNCHANGED leaderVars /\ msgs' \subseteq Message
  BY <1>1, <1>2, HandlerState, Zenon DEF logVars
<1>10. StateAfterStepDown(i, m) \in HardStates
  BY <1>1, <1>2, StateAfterStepDownSpec, Zenon
<1>11. /\ Follow(i, m) /\ m.term \in Nat /\ TRUE \in BOOLEAN
       /\ hardState' = [hardState EXCEPT ![i] = StateAfterStepDown(i, m)]
       /\ fatal' = [fatal EXCEPT ![i] = TRUE]
  BY <1>1, <1>2, Zenon
<1> QED BY <1>4, <1>5, <1>7, <1>8, <1>9, <1>10, <1>11, FollowStorage, ZenonT(60)

LEMMA AcceptEntriesStorage ==
  ASSUME StorageInv, NEW i \in Node, NEW m \in msgs, m.type = "AppendEntries",
         AcceptEntries(i, m)
  PROVE  StorageInv'
<1> DEFINE merge == MergeEntries(log[i], commitIndex[i], m.prevIndex, m.entries)
           newCommit == FollowerCommit(m)
           hs == StateAfterStepDown(i, m)
           advanced == HardState(m.term, FollowerVote(i, m.term), newCommit)
           ack == [type |-> "AppendOK", term |-> m.term, from |-> i,
                   to |-> m.from, match |-> LastNewIndex(m)]
<1>1. /\ Follow(i, m) /\ Admits(i, m) /\ AppendConflictAt(i, m) = 0
      /\ UNCHANGED <<fatal, snapIdx, leaderVars, snapFile>>
  BY DEF AcceptEntries, Follow
<1>2. /\ m.term \in Nat /\ m.from \in Node /\ msgs \subseteq Message /\ faults \in Nat
      /\ m.prevIndex \in Nat /\ m.entries \in Log /\ m.commit \in Nat
  BY MessageFields DEF StorageInv, TypeOK
<1>3. /\ ~fatal[i] /\ fatal[i] \in BOOLEAN
      /\ log[i] \in Log /\ wal[i] = log[i]
      /\ snapIdx[i] \in Nat /\ commitIndex[i] \in Nat /\ LastIndex(log[i]) \in Nat
      /\ snapFile[i] \in Nat /\ snapIdx[i] <= snapFile[i] /\ snapFile[i] <= commitIndex[i]
      /\ snapIdx[i] <= commitIndex[i] /\ commitIndex[i] <= LastIndex(log[i])
      /\ snapIdx[i] <= LastIndex(log[i])
  BY <1>1, HandlerState DEF Admits
<1>4. /\ merge.log \in Log /\ merge.appended \in Log
      /\ commitIndex[i] <= LastIndex(merge.log)
      /\ merge.conflict = 0 =>
           merge.log = IF merge.replaced THEN merge.log ELSE log[i] \o merge.appended
      /\ m.prevIndex <= LastIndex(log[i]) /\ merge.conflict = 0
           => m.prevIndex + Len(m.entries) <= LastIndex(merge.log)
  <2>1. /\ merge.log \in Log /\ merge.appended \in Log
        /\ commitIndex[i] <= LastIndex(merge.log)
    BY <1>2, <1>3, LogMerge, Zenon
  <2>2. merge.conflict = 0 =>
          merge.log = IF merge.replaced THEN merge.log ELSE log[i] \o merge.appended
    <3> SUFFICES ASSUME merge.conflict = 0
                 PROVE  merge.log = IF merge.replaced THEN merge.log
                                    ELSE log[i] \o merge.appended
      BY Zenon
    <3>1. log[i] \in Seq(Entry)
      BY <1>3 DEF Log
    <3> QED BY <3>1, MergeAppends
  <2>3. m.prevIndex <= LastIndex(log[i]) /\ merge.conflict = 0
          => m.prevIndex + Len(m.entries) <= LastIndex(merge.log)
    BY <1>2, <1>3, LogMerge, Zenon
  <2> QED BY <2>1, <2>2, <2>3, Zenon
<1>5. merge.conflict = 0 /\ m.prevIndex <= LastIndex(log[i])
  <2>1. snapIdx[i] + 1 # 0
    BY <1>3
  <2>2. ConflictIndex(log[i], snapIdx[i], m.prevIndex) # 0
    BY <1>2, <1>3, LogConflict, Zenon
  <2>3. merge.conflict = 0 /\ HasTermAt(log[i], snapIdx[i], m.prevIndex)
    BY <1>1, <2>1, <2>2, Zenon DEF AppendConflictAt
  <2> HIDE DEF merge
  <2> QED BY <1>2, <1>3, <2>3 DEF HasTermAt, LastIndex
<1>6. log' = [log EXCEPT ![i] = merge.log] /\ wal' = [wal EXCEPT ![i] = merge.log]
  <2>1. /\ log' = [log EXCEPT ![i] = merge.log]
        /\ wal' = [wal EXCEPT ![i] = IF merge.replaced THEN merge.log
                                     ELSE @ \o merge.appended]
    BY Zenon DEF AcceptEntries
  <2> HIDE DEF merge
  <2> QED BY <1>3, <1>4, <1>5, <2>1, Zenon
<1> HIDE DEF merge
<1>7. LastNewIndex(m) \in Nat /\ newCommit \in Nat /\ newCommit <= LastIndex(merge.log)
  <2>1. LastNewIndex(m) \in Nat
    BY <1>2 DEF LastNewIndex, Log
  <2>2. LastNewIndex(m) <= LastIndex(merge.log)
    BY <1>4, <1>5, Zenon DEF LastNewIndex
  <2>3. LastIndex(merge.log) \in Nat
    BY <1>4, LogTerms
  <2>4. newCommit \in Nat /\ newCommit <= LastNewIndex(m)
    BY <1>2, <2>1 DEF FollowerCommit
  <2> HIDE DEF newCommit
  <2> QED BY <2>1, <2>2, <2>3, <2>4, LeqTransitive, Zenon
<1>8. ack \in Message
  BY <1>2, <1>7, MessageTypes, Zenon
<1>9. /\ hs \in HardStates /\ hs.term >= m.term /\ hs.commit >= commitIndex[i]
  BY <1>1, <1>2, StateAfterStepDownSpec
<1>10. /\ advanced \in HardStates /\ advanced.term = m.term
       /\ advanced.commit = newCommit
  <2>1. FollowerVote(i, m.term) \in Node \cup {None}
    BY <1>2, FollowerStateType DEF StorageInv
  <2> HIDE DEF newCommit
  <2> QED BY <1>2, <1>7, <2>1 DEF HardState, HardStates, Term, Index
<1>11. /\ snapIdx' = [snapIdx EXCEPT ![i] = snapIdx[i]]
       /\ snapFile' = [snapFile EXCEPT ![i] = snapFile[i]]
       /\ fatal' = [fatal EXCEPT ![i] = fatal[i]]
       /\ commitIndex = [commitIndex EXCEPT ![i] = commitIndex[i]]
  BY <1>1, <1>3, HandlerState
<1> HIDE DEF hs, advanced, ack, newCommit
<1>12. msgs' \subseteq Message /\ faults' \in Nat
  <2>1. msgs' \in {msgs, msgs \cup {ack}} /\ faults' \in {faults, faults + 1}
    BY DEF AcceptEntries, ack, Try
  <2> QED BY <1>2, <1>8, <2>1
<1>13. ASSUME NEW ci \in Nat, NEW h \in HardStates,
              commitIndex' = [commitIndex EXCEPT ![i] = ci],
              hardState' = [hardState EXCEPT ![i] = h],
              commitIndex[i] <= ci, ci <= LastIndex(merge.log),
              h.term >= m.term, h.commit >= ci
       PROVE  StorageInv'
  <2>1. Follow(i, m) /\ m.term \in Nat /\ UNCHANGED leaderVars
    BY <1>1, <1>2
  <2>2. /\ merge.log \in Log /\ fatal[i] \in BOOLEAN
        /\ snapIdx[i] \in Nat /\ snapFile[i] \in Nat /\ snapIdx[i] <= snapFile[i]
        /\ snapIdx[i] <= ci /\ snapFile[i] <= ci /\ snapFile[i] <= LastIndex(merge.log)
    <3>1. /\ merge.log \in Log /\ fatal[i] \in BOOLEAN
          /\ snapIdx[i] \in Nat /\ snapFile[i] \in Nat /\ commitIndex[i] \in Nat
          /\ snapIdx[i] <= snapFile[i] /\ snapFile[i] <= commitIndex[i]
      BY <1>3, <1>4, Zenon
    <3>2. LastIndex(merge.log) \in Nat
      BY <3>1, LogTerms, Zenon
    <3>3. snapFile[i] <= ci
      BY <1>13, <3>1, LeqTransitive, Zenon
    <3>4. snapIdx[i] <= ci
      BY <1>13, <3>1, <3>3, LeqTransitive, Zenon
    <3>5. snapFile[i] <= LastIndex(merge.log)
      BY <1>13, <3>1, <3>2, <3>3, LeqTransitive, Zenon
    <3> QED BY <3>1, <3>3, <3>4, <3>5, Zenon
  <2>3. /\ log' = [log EXCEPT ![i] = merge.log]
        /\ wal' = [wal EXCEPT ![i] = merge.log]
        /\ snapIdx' = [snapIdx EXCEPT ![i] = snapIdx[i]]
        /\ snapFile' = [snapFile EXCEPT ![i] = snapFile[i]]
        /\ fatal' = [fatal EXCEPT ![i] = fatal[i]]
    BY <1>6, <1>11
  <2> QED BY <1>12, <1>13, <2>1, <2>2, <2>3, FollowStorage, ZenonT(60)
<1>14. CASE /\ newCommit <= commitIndex[i]
            /\ hardState' = [hardState EXCEPT ![i] = hs]
            /\ UNCHANGED commitIndex
  <2>1. commitIndex[i] <= commitIndex[i]
    BY <1>3
  <2> QED BY <1>3, <1>4, <1>9, <1>11, <1>13, <1>14, <2>1, Zenon
<1>15. CASE /\ newCommit > commitIndex[i]
            /\ hardState' = [hardState EXCEPT ![i] = advanced]
            /\ commitIndex' = [commitIndex EXCEPT ![i] = newCommit]
  <2>1. commitIndex[i] <= newCommit /\ newCommit >= newCommit /\ m.term >= m.term
    BY <1>2, <1>3, <1>7, <1>15
  <2> QED BY <1>7, <1>10, <1>13, <1>15, <2>1, Zenon
<1>16. CASE /\ newCommit > commitIndex[i]
            /\ \E o \in Outcome \ {"ok"} :
                 hardState' = [hardState EXCEPT ![i] = Saved(o, hs, advanced)]
            /\ UNCHANGED commitIndex
  <2>1. PICK h \in {hs, advanced} : hardState' = [hardState EXCEPT ![i] = h]
    BY <1>16, Zenon DEF Saved
  <2>2. h \in HardStates /\ h.term >= m.term /\ h.commit >= commitIndex[i]
    BY <1>2, <1>3, <1>7, <1>9, <1>10, <1>16
  <2>3. commitIndex[i] <= commitIndex[i]
    BY <1>3
  <2> QED BY <1>3, <1>4, <1>11, <1>13, <1>16, <2>1, <2>2, <2>3, Zenon
<1> QED BY <1>14, <1>15, <1>16 DEF AcceptEntries, hs, advanced, newCommit

LEMMA SkipSnapshotStorage ==
  ASSUME StorageInv, NEW i \in Node, NEW m \in msgs, m.type = "InstallSnapshot",
         SkipSnapshot(i, m)
  PROVE  StorageInv'
<1>1. /\ Follow(i, m)
      /\ hardState' = [hardState EXCEPT ![i] = StateAfterStepDown(i, m)]
      /\ msgs' = msgs \cup {AckSnapshot(m, i)}
      /\ UNCHANGED <<fatal, logVars, leaderVars, wal, snapFile, faults>>
  BY Zenon DEF SkipSnapshot
<1>2. /\ m.term \in Nat /\ m.from \in Node /\ m.body \in Log /\ msgs \subseteq Message
  BY MessageFields, Zenon DEF StorageInv, TypeOK
<1>3. AckSnapshot(m, i) \in Message
  BY <1>2, LogTerms, MessageTypes, Zenon DEF AckSnapshot
<1>4. msgs' \subseteq Message
  BY <1>1, <1>2, <1>3
<1> QED BY <1>1, <1>2, <1>4, FollowOnlyStorage, Zenon

LEMMA InstallSnapshotStorage ==
  ASSUME StorageInv, NEW i \in Node, NEW m \in msgs, m.type = "InstallSnapshot",
         InstallSnapshot(i, m)
  PROVE  StorageInv'
<1> DEFINE newLog == AfterSnapshot(log[i], snapIdx[i], m.body)
           index == LastIndex(m.body)
           installed == HardState(m.term, FollowerVote(i, m.term), index)
<1>1. Follow(i, m) /\ Admits(i, m) /\ UNCHANGED leaderVars
  BY Zenon DEF InstallSnapshot, Follow
<1>2. /\ m.term \in Nat /\ m.from \in Node /\ m.body \in Log
      /\ msgs \subseteq Message /\ faults \in Nat
  BY MessageFields, Zenon DEF StorageInv, TypeOK
<1>3. /\ log[i] \in Log /\ wal[i] \in Log /\ wal[i] = log[i]
      /\ snapIdx[i] \in Nat /\ snapFile[i] \in Nat /\ snapFile[i] <= LastIndex(wal[i])
      /\ commitIndex[i] \in Nat /\ snapIdx[i] <= LastIndex(log[i])
      /\ snapIdx[i] <= commitIndex[i] /\ commitIndex[i] <= LastIndex(log[i])
      /\ ~fatal[i] /\ fatal[i] \in BOOLEAN
  BY <1>1, HandlerState, Zenon DEF Admits
<1>4. newLog \in Log /\ index \in Nat /\ index <= LastIndex(newLog)
  BY <1>2, <1>3, LogAfterSnapshot, LogTerms, Zenon
<1>4a. installed \in HardStates /\ installed.term = m.term /\ installed.commit = index
  <2>1. FollowerVote(i, m.term) \in Node \cup {None}
    BY <1>2, FollowerStateType, Zenon DEF StorageInv
  <2> HIDE DEF index, newLog
  <2> QED BY <1>2, <1>4, <2>1 DEF HardState, HardStates, Term, Index
<1>5. CASE /\ log' = [log EXCEPT ![i] = newLog]
           /\ snapIdx' = [snapIdx EXCEPT ![i] = index]
           /\ commitIndex' = [commitIndex EXCEPT ![i] = index]
           /\ wal' = [wal EXCEPT ![i] = newLog]
           /\ snapFile' = [snapFile EXCEPT ![i] = index]
           /\ hardState' = [hardState EXCEPT ![i] = installed]
           /\ msgs' = msgs \cup {AckSnapshot(m, i)}
           /\ UNCHANGED <<fatal, faults>>
  <2>1. AckSnapshot(m, i) \in Message
    BY <1>2, LogTerms, MessageTypes, Zenon DEF AckSnapshot
  <2>2. msgs' \subseteq Message /\ faults' \in Nat
    BY <1>2, <1>5, <2>1
  <2> HIDE DEF index, newLog, installed
  <2>3. index <= index /\ m.term >= m.term /\ index >= index
    BY <1>2, <1>4, NatOrder, Zenon
  <2>4. fatal' = [fatal EXCEPT ![i] = fatal[i]]
    BY <1>5, HandlerState, Zenon
  <2> QED BY <1>1, <1>2, <1>3, <1>4, <1>4a, <1>5, <2>2, <2>3, <2>4, FollowStorage, ZenonT(60)
<1>6. CASE /\ \E o \in Outcome \ {"ok"} :
                /\ wal' = [wal EXCEPT ![i] = Saved(o, @, newLog)]
                /\ snapFile' = [snapFile EXCEPT ![i] = Saved(o, @, index)]
                /\ \/ hardState' = [hardState EXCEPT ![i] = StateAfterStepDown(i, m)]
                   \/ /\ o = "dirty"
                      /\ hardState' = [hardState EXCEPT ![i] = installed]
                /\ Try(o)
           /\ fatal' = [fatal EXCEPT ![i] = TRUE]
           /\ UNCHANGED <<logVars, msgs>>
  <2> HIDE DEF index, newLog, installed
  <2>1. faults' \in Nat
    BY <1>2, <1>6 DEF Try
  <2>2. \/ /\ wal' = [wal EXCEPT ![i] = wal[i]]
           /\ snapFile' = [snapFile EXCEPT ![i] = snapFile[i]]
        \/ /\ wal' = [wal EXCEPT ![i] = newLog]
           /\ snapFile' = [snapFile EXCEPT ![i] = index]
    BY <1>6, Zenon DEF Saved
  <2>3. /\ log' = [log EXCEPT ![i] = log[i]]
        /\ snapIdx' = [snapIdx EXCEPT ![i] = snapIdx[i]]
        /\ commitIndex' = [commitIndex EXCEPT ![i] = commitIndex[i]]
        /\ msgs' \subseteq Message
    BY <1>2, <1>6, HandlerState, Zenon DEF logVars
  <2>4. PICK h \in HardStates : hardState' = [hardState EXCEPT ![i] = h]
    BY <1>1, <1>2, <1>4a, <1>6, StateAfterStepDownSpec, Zenon
  <2>5. ASSUME NEW w \in Log, NEW sf \in Nat, commitIndex[i] <= LastIndex(w), sf <= LastIndex(w),
               wal' = [wal EXCEPT ![i] = w], snapFile' = [snapFile EXCEPT ![i] = sf]
        PROVE  StorageInv'
    BY <1>1, <1>2, <1>3, <1>6, <2>1, <2>3, <2>4, <2>5, FollowStorage, ZenonT(60)
  <2>6. commitIndex[i] <= LastIndex(wal[i]) /\ commitIndex[i] <= LastIndex(newLog)
    <3>1. commitIndex[i] <= index /\ LastIndex(newLog) \in Nat
      BY <1>3, <1>4, LogTerms DEF InstallSnapshot, index
    <3> QED BY <1>3, <1>4, <3>1, LeqTransitive, Zenon
  <2> QED BY <1>3, <1>4, <2>2, <2>5, <2>6, Zenon
<1> QED BY <1>5, <1>6, Zenon DEF InstallSnapshot

-----------------------------------------------------------------------------
(* The theorems.                                                           *)

LEMMA StorageInit == Init => StorageInv
<1> SUFFICES ASSUME Init PROVE StorageInv
  OBVIOUS
<1>1. <<>> \in Log /\ LastIndex(<<>>) = 0
  BY DEF Log, LastIndex
<1>2. TypeOK
  BY <1>1 DEF Init, TypeOK, Role, Term, Index
<1>3. ASSUME NEW i \in Node PROVE NodeStorage(i)
  BY <1>1 DEF Init, NodeStorage
<1> QED BY <1>2, <1>3 DEF StorageInv

LEMMA StorageReceive ==
  ASSUME StorageInv, NEW i \in Node, NEW m \in msgs, Receive(i, m)
  PROVE  StorageInv'
<1>1. CASE HandleRequestVote(i, m)
  <2>1. m.from \in Node
    BY <1>1, MessageFields, Zenon DEF HandleRequestVote, StorageInv, TypeOK
  <2> QED BY <1>1, <2>1, RefuseStorage, StepDownFailsStorage, VoteStorage, Zenon
          DEF HandleRequestVote
<1>2. CASE HandleAppendEntries(i, m)
  <2>1. m.from \in Node
    BY <1>2, MessageFields, Zenon DEF HandleAppendEntries, StorageInv, TypeOK
  <2> QED BY <1>2, <2>1, RefuseStorage, StepDownFailsStorage, RejectEntriesStorage,
             AppendFailsStorage, AcceptEntriesStorage, Zenon
          DEF HandleAppendEntries
<1>3. CASE HandleInstallSnapshot(i, m)
  <2>1. m.from \in Node
    BY <1>3, MessageFields, Zenon DEF HandleInstallSnapshot, StorageInv, TypeOK
  <2> QED BY <1>3, <2>1, RefuseStorage, StepDownFailsStorage, SkipSnapshotStorage,
             InstallSnapshotStorage, Zenon
          DEF HandleInstallSnapshot
<1> QED BY <1>1, <1>2, <1>3, HandleAppendOKStorage, HandleAppendConflictStorage,
           HandleInstallOKStorage, HandleRefusedStorage, Zenon DEF Receive

\* Every step of the cluster, whichever store call of it fails, preserves the
\* types and the order of a node's indexes in memory and on disk.
LEMMA StorageNext == StorageInv /\ [Next]_vars => StorageInv'
<1> SUFFICES ASSUME StorageInv, [Next]_vars PROVE StorageInv'
  OBVIOUS
<1>1. CASE Next
  <2>1. PICK i \in Node :
          \/ StartElection(i)
          \/ BecomeLeader(i)
          \/ \E c \in Command : Propose(i, c)
          \/ \E j \in Node : ReplicateToPeer(i, j)
          \/ \E index \in 1..commitIndex[i] : PersistSnapshot(i, index)
          \/ Restart(i)
          \/ \E m \in msgs : Receive(i, m)
    BY <1>1, Zenon DEF Next
  <2> QED BY <2>1, StartElectionStorage, BecomeLeaderStorage, ProposeStorage,
             ReplicateToPeerStorage, PersistSnapshotStorage, RestartStorage,
             StorageReceive, Zenon
<1>2. CASE UNCHANGED vars
  <2>1. /\ UNCHANGED <<electionVars, logVars, diskVars, faults>>
        /\ UNCHANGED leaderVars /\ UNCHANGED msgs
    BY <1>2, Zenon DEF vars
  <2>2. /\ nextIndex' \in [Node -> [Node -> Index]]
        /\ matchIndex' \in [Node -> [Node -> Index]]
        /\ msgs' \subseteq Message
    BY <2>1, Zenon DEF leaderVars, StorageInv, TypeOK
  <2> QED BY <2>1, <2>2, LeaderVarsStorage, Zenon
<1> QED BY <1>1, <1>2

\* StorageInv holds in every reachable state of every cluster.
THEOREM StorageSafety == Spec => []StorageInv
<1> QED BY StorageInit, StorageNext, PTL DEF Spec

\* Type correctness, for every cluster and every value of the bounds.
THEOREM TypeSafety == Spec => []TypeOK
<1>1. StorageInv => TypeOK
  BY DEF StorageInv
<1> QED BY <1>1, StorageSafety, PTL

\* A node that has not failed closed has on disk what it has in memory, so a
\* crash loses nothing it has acknowledged.
THEOREM DiskSafety == Spec => []DiskInStep
<1>1. StorageInv => DiskInStep
  <2> SUFFICES ASSUME StorageInv, NEW i \in Node, ~fatal[i]
               PROVE  /\ wal[i] = log[i]
                      /\ snapFile[i] \in snapIdx[i]..commitIndex[i]
                      /\ hardState[i].term >= currentTerm[i]
                      /\ hardState[i].commit >= commitIndex[i]
    BY Zenon DEF DiskInStep
  <2>1. snapIdx[i] \in Nat /\ snapFile[i] \in Nat /\ commitIndex[i] \in Nat
    BY DEF StorageInv, TypeOK, Index
  <2>2. /\ wal[i] = log[i] /\ snapIdx[i] <= snapFile[i] /\ snapFile[i] <= commitIndex[i]
        /\ hardState[i].term >= currentTerm[i]
        /\ hardState[i].commit >= commitIndex[i]
    BY Zenon DEF StorageInv, NodeStorage
  <2>3. snapFile[i] \in snapIdx[i]..commitIndex[i]
    BY <2>1, <2>2
  <2> QED BY <2>2, <2>3
<1> QED BY <1>1, StorageSafety, PTL

\* Compacted entries were committed and committed entries are in the log, in
\* every cluster and through every crash.
THEOREM IndexesAreOrdered == Spec => []IndexesOrdered
<1>1. StorageInv => IndexesOrdered
  BY DEF StorageInv, NodeStorage, IndexesOrdered
<1> QED BY <1>1, StorageSafety, PTL
=============================================================================
