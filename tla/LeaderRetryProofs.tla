-------------------------- MODULE LeaderRetryProofs -------------------------
(***************************************************************************)
(* Proof about LeaderRetry: which applications of a command kvctl does not *)
(* report, for every cluster, list of endpoints, number of attempts and    *)
(* number of leaders, and every command.                                   *)
(***************************************************************************)
EXTENDS LeaderRetry, TLAPS

\* Attempt k is the one being made, or was left open.
Tracked(k) == k \in open \/ (at # None /\ accepted /\ k = attempts)

\* Attempts are numbered in order; the number of one that is not accepted is
\* still unused.
Numbered ==
  /\ attempts \in Nat
  /\ \A k \in pending \cup DOMAIN results \cup open :
       k \in Nat /\ k <= attempts /\ (at # None /\ ~accepted => k < attempts)

\* An attempt is applied once, and until kvctl returns it is tracked.
IInv ==
  /\ Numbered
  /\ pending \cap DOMAIN results = {}
  /\ reply.done => at = None
  /\ \A k \in pending : Tracked(k)
  /\ \A k \in DOMAIN results : Tracked(k) \/ reply = Reply(k, results[k])

LEMMA InitInv == Init => IInv
  BY DEF Init, IInv, Numbered

LEMMA CallInv == IInv /\ Call => IInv'
  <1> SUFFICES ASSUME IInv, Call PROVE IInv'
    OBVIOUS
  <1>1. /\ attempts' = attempts + 1 /\ accepted' = FALSE /\ at = None
        /\ UNCHANGED <<pending, results, open, reply>> /\ ~reply.done
    BY DEF Call, logVars
  <1>2. Numbered'
    BY <1>1 DEF IInv, Numbered
  <1>3. \A k \in DOMAIN results : k \in open
    BY <1>1 DEF IInv, Tracked, Reply
  <1> QED
    BY <1>1, <1>2, <1>3 DEF IInv, Tracked

LEMMA GiveUpInv == IInv /\ GiveUp => IInv'
  <1> SUFFICES ASSUME IInv, GiveUp PROVE IInv'
    OBVIOUS
  <1>1. at = None /\ ~reply.done /\ UNCHANGED <<attempts, at, accepted, pending, results, open>>
    BY DEF GiveUp, logVars
  <1>2. \A k \in DOMAIN results : k \in open
    BY <1>1 DEF IInv, Tracked, Reply
  <1> QED
    BY <1>1, <1>2 DEF IInv, Tracked, Numbered

\* A step that ends the attempt without a result: it was not accepted, or it is
\* left open.
LEMMA TryNextInv ==
  ASSUME IInv, at # None, NEW hint, TryNext(hint),
         UNCHANGED <<pending, results, accepted>>,
         \/ ~accepted /\ UNCHANGED open
         \/ accepted /\ open' = open \cup {attempts}
  PROVE  IInv'
  <1>1. at' = None /\ UNCHANGED <<attempts, reply>> /\ ~reply.done
    BY DEF TryNext, IInv
  <1>2. Numbered'
    BY <1>1 DEF IInv, Numbered
  <1>3. \A k \in pending \cup DOMAIN results : k \in open'
    BY <1>1 DEF IInv, Tracked, Reply
  <1> QED
    BY <1>1, <1>2, <1>3 DEF IInv, Tracked

LEMMA AcceptInv == IInv /\ Accept => IInv'
  <1> SUFFICES ASSUME IInv, Accept PROVE IInv'
    OBVIOUS
  <1>1. /\ at # None /\ ~accepted /\ accepted' = TRUE /\ pending' = pending \cup {attempts}
        /\ UNCHANGED <<attempts, at, reply, open, results>>
    BY DEF Accept
  <1>2. Numbered' /\ pending' \cap DOMAIN results' = {}
    BY <1>1 DEF IInv, Numbered
  <1> QED
    BY <1>1, <1>2 DEF IInv, Tracked

LEMMA AnsweredInv == IInv /\ Answered => IInv'
  <1> SUFFICES ASSUME IInv, Answered PROVE IInv'
    OBVIOUS
  <1>1. /\ at # None /\ at' = None /\ attempts \in DOMAIN results
        /\ reply' = Reply(attempts, results[attempts])
        /\ UNCHANGED <<attempts, accepted, open, pending, results>>
    BY DEF Answered, logVars
  <1>2. ~reply.done
    BY <1>1 DEF IInv
  <1>3. \A k \in pending : k \in open
    BY <1>1 DEF IInv, Tracked
  <1>4. \A k \in DOMAIN results : k \in open \/ k = attempts
    BY <1>2 DEF IInv, Tracked, Reply
  <1> QED
    BY <1>1, <1>3, <1>4 DEF IInv, Tracked, Numbered

LEMMA ApplyInv == ASSUME IInv, NEW k \in pending, ApplyAttempt(k) PROVE IInv'
  <1>1. /\ pending' = pending \ {k} /\ DOMAIN results' = DOMAIN results \cup {k}
        /\ \A j \in DOMAIN results : j # k => results'[j] = results[j]
        /\ UNCHANGED <<attempts, at, accepted, reply, open>>
    BY DEF ApplyAttempt, clientVars
  <1>2. Numbered' /\ pending' \cap DOMAIN results' = {}
    BY <1>1 DEF IInv, Numbered
  <1>3. Tracked(k)' /\ \A j : Tracked(j)' <=> Tracked(j)
    BY <1>1 DEF IInv, Tracked
  <1> QED
    BY <1>1, <1>2, <1>3 DEF IInv

LEMMA NextInv == IInv /\ [Next]_vars => IInv'
  <1> SUFFICES ASSUME IInv, [Next]_vars PROVE IInv'
    OBVIOUS
  <1>1. CASE Reject \/ Unreachable
    BY <1>1, TryNextInv DEF Reject, Unreachable, logVars
  <1>2. CASE LeftOpen
    BY <1>2, TryNextInv DEF LeftOpen, logVars
  <1>3. ASSUME NEW k \in pending, Overwrite(k) PROVE IInv'
    BY <1>3 DEF Overwrite, clientVars, IInv, Numbered, Tracked
  <1>4. ASSUME NEW n \in Address, Elect(n) \/ HearLeader(n) PROVE IInv'
    BY <1>4 DEF Elect, HearLeader, clientVars, logVars, IInv, Numbered, Tracked
  <1>5. CASE UNCHANGED vars
    BY <1>5 DEF vars, clientVars, logVars, IInv, Numbered, Tracked
  <1> QED
    BY <1>1, <1>2, <1>3, <1>4, <1>5, CallInv, GiveUpInv, AcceptInv, AnsweredInv, ApplyInv DEF Next

\* A command is applied beside the application that kvctl reports only by an
\* attempt of withLeaderRetryUsing that was accepted and left without its result.
THEOREM RepeatsAreOpen == Spec => []OnlyOpenRepeats
  <1>1. IInv => OnlyOpenRepeats
    BY DEF IInv, Tracked, OnlyOpenRepeats
  <1>2. Spec => []IInv
    BY InitInv, NextInv, PTL DEF Spec
  <1> QED
    BY <1>1, <1>2, PTL
=============================================================================
