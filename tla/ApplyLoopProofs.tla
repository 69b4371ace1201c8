--------------------------- MODULE ApplyLoopProofs --------------------------
(***************************************************************************)
(* Proofs about the waiters of ApplyLoop, for every number of proposals,   *)
(* every length of the log and whatever the commands are.                  *)
(***************************************************************************)
EXTENDS ApplyLoop, TLAPS

\* Waiter p: registered and not answered yet; or answered, with an outcome that
\* is known; and a call that returned "unknown" is never answered later.
WaiterOK(p) ==
  /\ p \in waiters => channel[p] = None /\ pc[p] \in {"waiting", "expired"}
  /\ pc[p] = "new" => channel[p] = None
  /\ channel[p] # None => channel[p].kind # "unknown"
  /\ reply[p] # None /\ reply[p].kind = "unknown" => pc[p] = "done" /\ channel[p] = None

IInv ==
  /\ waiters \subseteq Proposal
  /\ DOMAIN pc = Proposal /\ DOMAIN reply = Proposal
  /\ \A p \in Proposal : WaiterOK(p)

\* No waiter is sent a second outcome in this step.
Once == \A p \in Proposal : channel[p] # None => channel'[p] \in {channel[p], None}

\* Some registered waiters are answered in this step, or none.
Sends ==
  \/ UNCHANGED <<channel, waiters>>
  \/ \E S \in SUBSET waiters : \E o : o.kind # "unknown" /\ Answer(S, o)

-----------------------------------------------------------------------------
LEMMA InitInv == Init => IInv
  BY DEF Init, IInv, WaiterOK

LEMMA SendsOnce == ASSUME IInv, Sends PROVE Once /\ waiters' \subseteq waiters
  BY DEF IInv, WaiterOK, Once, Sends, Answer

\* The waiters' side of every step in which no call returns.
LEMMA SendsInv == ASSUME IInv, Sends, UNCHANGED <<pc, reply>> PROVE IInv'
  <1>1. waiters' \subseteq Proposal
    BY SendsOnce DEF IInv
  <1>2. ASSUME NEW p \in Proposal PROVE WaiterOK(p)'
    <2>1. CASE UNCHANGED <<channel, waiters>>
      BY <2>1 DEF IInv, WaiterOK
    <2>2. ASSUME NEW S \in SUBSET waiters, NEW o, o.kind # "unknown", Answer(S, o)
          PROVE  WaiterOK(p)'
      BY <2>2 DEF IInv, WaiterOK, Answer
    <2> QED
      BY <2>1, <2>2 DEF Sends
  <1> QED
    BY <1>1, <1>2 DEF IInv

LEMMA LeaveRoleSends ==
  ASSUME IInv, NEW t, NEW failed, LeaveRole(t, failed) PROVE Sends
  <1>1. CASE UNCHANGED <<channel, waiters>>
    BY <1>1 DEF Sends
  <1>2. CASE Answer(Uncommitted(commitIndex), Failed("notLeader"))
    <2>1. Uncommitted(commitIndex) \in SUBSET waiters
      BY DEF Uncommitted
    <2>2. Failed("notLeader").kind # "unknown"
      BY DEF Failed
    <2> QED
      BY <1>2, <2>1, <2>2 DEF Sends
  <1> QED
    BY <1>1, <1>2 DEF LeaveRole

\* A call that is not registered, or is not any more, returns.
LEMMA ReturnInv ==
  ASSUME IInv, Sends, NEW p \in Proposal, NEW o, Return(p, o), p \notin waiters',
         o # None /\ o.kind = "unknown" => channel'[p] = None
  PROVE  IInv'
  <1>1. waiters' \subseteq Proposal /\ DOMAIN pc' = Proposal /\ DOMAIN reply' = Proposal
    BY SendsOnce DEF IInv, Return
  <1>2. ASSUME NEW q \in Proposal PROVE WaiterOK(q)'
    <2>1. /\ pc'[q] = IF q = p THEN "done" ELSE pc[q]
          /\ reply'[q] = IF q = p THEN o ELSE reply[q]
      BY DEF IInv, Return
    <2>2. channel'[q] # None => channel'[q].kind # "unknown"
      BY DEF IInv, WaiterOK, Sends, Answer
    <2>3. CASE q = p
      BY <2>1, <2>2, <2>3 DEF WaiterOK
    <2>4. CASE q # p
      <3>1. CASE UNCHANGED <<channel, waiters>>
        BY <2>1, <2>4, <3>1 DEF IInv, WaiterOK
      <3>2. ASSUME NEW S \in SUBSET waiters, NEW w, w.kind # "unknown", Answer(S, w)
            PROVE  WaiterOK(q)'
        BY <2>1, <2>4, <3>2 DEF IInv, WaiterOK, Answer
      <3> QED
        BY <3>1, <3>2 DEF Sends
    <2> QED
      BY <2>3, <2>4
  <1> QED
    BY <1>1, <1>2 DEF IInv

-----------------------------------------------------------------------------
(* The clients.                                                            *)

LEMMA ProposeFailsInv == ASSUME IInv, NEW p \in Proposal, ProposeFails(p) PROVE IInv' /\ Once
  <1>1. Sends
    BY LeaveRoleSends DEF ProposeFails, Sends
  <1>2. p \notin waiters'
    BY <1>1, SendsOnce DEF ProposeFails, IInv, WaiterOK
  <1>3. Return(p, Failed("refused")) /\ Failed("refused").kind # "unknown"
    BY DEF ProposeFails, Failed
  <1> QED
    BY <1>1, <1>2, <1>3, SendsOnce, ReturnInv

LEMMA ProposeInv == ASSUME IInv, NEW p \in Proposal, Propose(p) PROVE IInv' /\ Once
  <1>1. /\ pc[p] = "new" /\ waiters' = waiters \cup {p} /\ UNCHANGED <<channel, reply>>
        /\ pc' = [pc EXCEPT ![p] = "waiting"]
    BY DEF Propose
  <1>2. ASSUME NEW q \in Proposal PROVE WaiterOK(q)'
    <2>1. pc'[q] = IF q = p THEN "waiting" ELSE pc[q]
      BY <1>1 DEF IInv
    <2> QED
      BY <1>1, <2>1 DEF IInv, WaiterOK
  <1> QED
    BY <1>1, <1>2 DEF IInv, Once

LEMMA ReceiveInv == ASSUME IInv, NEW p \in Proposal, Receive(p) PROVE IInv' /\ Once
  <1>1. UNCHANGED <<channel, waiters>> /\ channel[p] # None /\ Return(p, channel[p])
    BY DEF Receive
  <1>2. Sends /\ p \notin waiters' /\ channel[p].kind # "unknown"
    BY <1>1 DEF Sends, IInv, WaiterOK
  <1> QED
    BY <1>1, <1>2, SendsOnce, ReturnInv

LEMMA ExpireInv == ASSUME IInv, NEW p \in Proposal, Expire(p) PROVE IInv' /\ Once
  <1>1. /\ pc[p] = "waiting" /\ UNCHANGED <<channel, reply, waiters>>
        /\ pc' = [pc EXCEPT ![p] = "expired"]
    BY DEF Expire
  <1>2. ASSUME NEW q \in Proposal PROVE WaiterOK(q)'
    <2>1. pc'[q] = IF q = p THEN "expired" ELSE pc[q]
      BY <1>1 DEF IInv
    <2> QED
      BY <1>1, <2>1 DEF IInv, WaiterOK
  <1> QED
    BY <1>1, <1>2 DEF IInv, Once

LEMMA GiveUpInv == ASSUME IInv, NEW p \in Proposal, GiveUp(p) PROVE IInv' /\ Once
  <1> DEFINE o == IF channel[p] # None THEN channel[p] ELSE Failed("unknown")
  <1>1. UNCHANGED channel /\ waiters' = waiters \ {p} /\ Return(p, o) /\ pc[p] = "expired"
    BY DEF GiveUp
  <1>2. o.kind = "unknown" => channel'[p] = None
    BY <1>1 DEF IInv, WaiterOK
  <1> HIDE DEF o
  <1>3. DOMAIN pc' = Proposal /\ DOMAIN reply' = Proposal
    BY <1>1 DEF IInv, Return
  <1>4. ASSUME NEW q \in Proposal PROVE WaiterOK(q)'
    <2>1. /\ pc'[q] = IF q = p THEN "done" ELSE pc[q]
          /\ reply'[q] = IF q = p THEN o ELSE reply[q]
      BY <1>1 DEF IInv, Return
    <2> QED
      BY <1>1, <1>2, <2>1 DEF IInv, WaiterOK
  <1> QED
    BY <1>1, <1>3, <1>4 DEF IInv, Once

-----------------------------------------------------------------------------
(* The node.                                                               *)

LEMMA ClusterInv == ASSUME IInv, Cluster PROVE IInv' /\ Once
  <1>1. UNCHANGED <<pc, reply>> /\ Sends
    <2>1. CASE BecomeLeader
      BY <2>1 DEF BecomeLeader, clientVars, Sends
    <2>2. CASE AdvanceCommit
      BY <2>2, LeaveRoleSends DEF AdvanceCommit, Sends
    <2>3. CASE StepDown
      BY <2>3, LeaveRoleSends DEF StepDown
    <2>4. CASE HandleAppendEntries
      BY <2>4, LeaveRoleSends DEF HandleAppendEntries
    <2>5. CASE HandleInstallSnapshot
      BY <2>5, LeaveRoleSends DEF HandleInstallSnapshot
    <2> QED
      BY <2>1, <2>2, <2>3, <2>4, <2>5 DEF Cluster
  <1> QED
    BY <1>1, SendsOnce, SendsInv

LEMMA ApplierInv == ASSUME IInv, Applier PROVE IInv' /\ Once
  <1>1. UNCHANGED <<pc, reply>> /\ Sends
    <2>1. CASE Wake \/ Skip \/ ApplyNext \/ PersistSnapshot
      BY <2>1 DEF Wake, Skip, ApplyNext, PersistSnapshot, clientVars, Sends
    <2>2. CASE FinishApply
      <3>1. /\ UNCHANGED <<pc, reply>>
            /\ \/ Answer(Finished(applying.index), Applied(applying.result))
               \/ UNCHANGED <<channel, waiters>>
        BY <2>2 DEF FinishApply
      <3>2. Finished(applying.index) \in SUBSET waiters
        BY DEF Finished
      <3>3. Applied(applying.result).kind # "unknown"
        BY DEF Applied
      <3> QED
        BY <3>1, <3>2, <3>3 DEF Sends
    <2> QED
      BY <2>1, <2>2 DEF Applier
  <1> QED
    BY <1>1, SendsOnce, SendsInv

LEMMA StopInv == ASSUME IInv, Stop PROVE IInv' /\ Once
  <1>1. UNCHANGED <<pc, reply>> /\ Answer(waiters, Failed("stopped"))
    BY DEF Stop
  <1>2. waiters \in SUBSET waiters /\ Failed("stopped").kind # "unknown"
    BY DEF Failed
  <1>3. Sends
    BY <1>1, <1>2 DEF Sends
  <1> QED
    BY <1>1, <1>3, SendsOnce, SendsInv

LEMMA RestartInv == ASSUME IInv, Restart PROVE IInv' /\ Once
  <1>1. /\ waiters' = {} /\ channel' = [p \in Proposal |-> None]
        /\ pc' = [p \in Proposal |-> IF pc[p] = "new" THEN "new" ELSE "done"]
        /\ reply' = [p \in Proposal |-> IF pc[p] \in {"waiting", "expired"}
                                        THEN Failed("crashed") ELSE reply[p]]
    BY DEF Restart
  <1>2. Failed("crashed").kind # "unknown"
    BY DEF Failed
  <1>3. ASSUME NEW p \in Proposal PROVE WaiterOK(p)'
    BY <1>1, <1>2 DEF IInv, WaiterOK
  <1> QED
    BY <1>1, <1>3 DEF IInv, Once

LEMMA NextInv == IInv /\ [Next]_vars => IInv' /\ Once
  <1> SUFFICES ASSUME IInv, [Next]_vars PROVE IInv' /\ Once
    OBVIOUS
  <1>1. ASSUME NEW p \in Proposal, Client(p) PROVE IInv' /\ Once
    BY <1>1, ProposeFailsInv, ProposeInv, ReceiveInv, ExpireInv, GiveUpInv DEF Client
  <1>2. CASE UNCHANGED vars
    BY <1>2, SendsOnce, SendsInv DEF vars, clientVars, Sends
  <1> QED
    BY <1>1, <1>2, ApplierInv, ClusterInv, StopInv, RestartInv DEF Next

LEMMA Invariant == Spec => []IInv
  BY InitInv, NextInv, PTL DEF Spec

-----------------------------------------------------------------------------
(* The theorems.                                                           *)

\* Propose returns "unknown" only for a waiter that the node never answered and
\* never will: removeWaiter and the last look at the channel lose no outcome.
THEOREM UnknownIsUnanswered == Spec => []UnknownUnanswered
  <1>1. IInv => UnknownUnanswered
    BY DEF IInv, WaiterOK, UnknownUnanswered
  <1> QED
    BY <1>1, Invariant, PTL

\* Step-downs, Stop and the apply loop together send a waiter one outcome, so
\* that no send is made on a channel that is closed already.
THEOREM AnswersOnce == Spec => AnsweredOnce
  <1>1. IInv /\ [Next]_vars => [Once]_vars
    BY NextInv
  <1>2. Once <=> \A p \in Proposal : channel[p] # None => channel'[p] \in {channel[p], None}
    BY DEF Once
  <1>3. Spec => [][Once]_vars
    BY <1>1, Invariant, PTL DEF Spec
  <1> QED
    BY <1>2, <1>3, PTL DEF AnsweredOnce
=============================================================================
