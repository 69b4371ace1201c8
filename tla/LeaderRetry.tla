---------------------------- MODULE LeaderRetry -----------------------------
(***************************************************************************)
(* One write by kvctl: withLeaderRetryUsing of cmd/kvctl/main.go, the      *)
(* answers of Service (internal/server/service.go), and a cluster that     *)
(* elects leaders and applies what they accepted meanwhile.                *)
(*                                                                         *)
(* What a node answers depends on who it takes for the leader: the leader  *)
(* of the last term it heard of.  An attempt is named by its number; one   *)
(* that was accepted may be applied at any later time or never, also by    *)
(* another leader, whatever kvctl was told.                                *)
(***************************************************************************)
EXTENDS KVStateMachine, FiniteSets

CONSTANTS
  Address,       \* the client addresses of the nodes
  Endpoints,     \* the --endpoints, a sequence
  Extra,         \* attempts beyond one per endpoint: 5 in the code
  Command,       \* the command
  Start,         \* the map that it finds
  None,
  MaxTerm        \* bound: the leaders there are

ASSUME EndpointsAssumption == Endpoints \in Seq(Address) /\ Extra \in Nat
ASSUME MaxTermAssumption == MaxTerm \in Nat \ {0}

\* What withLeaderRetry returns: the result of attempt k, or an error.
Reply(k, r) == [done |-> TRUE, of |-> k, result |-> r]
Failed      == Reply(0, None)
NoReply     == [done |-> FALSE, of |-> 0, result |-> None]

VARIABLES
  leaders, era,        \* the leader of each term, the last term each node heard of
  disturbed,           \* history: an election, an error or a timeout since the start
  informed,            \* history: an endpoint named a leader
  queue, queuedHints, attempts, \* the locals of kvctl
  at, accepted,        \* the endpoint being called, did it accept the command?
  reply,               \* what withLeaderRetry returned
  pending, results,    \* accepted attempts, and the results of the applied ones
  open,                \* history: attempts accepted and left without their result
  data                 \* the replicated map

clusterVars == <<leaders, era>>
clientVars  == <<queue, queuedHints, attempts, at, accepted, reply, open>>
logVars     == <<pending, results, data>>
vars == <<clusterVars, clientVars, logVars, disturbed, informed>>

\* leaderAddressLocked: whom node n takes for the leader.
Known(n) == IF era[n] = 0 THEN None ELSE leaders[era[n]]

\* Any history in which a leader has heard of its own term.
Init ==
  /\ leaders \in UNION {[1..t -> Address] : t \in 1..MaxTerm}
  /\ era \in [Address -> 0..Len(leaders)]
  /\ \A t \in 1..Len(leaders) : era[leaders[t]] >= t
  /\ disturbed = FALSE /\ informed = FALSE
  /\ queue = Endpoints /\ queuedHints = {} /\ attempts = 0
  /\ at = None /\ accepted = FALSE /\ reply = NoReply /\ open = {}
  /\ pending = {} /\ results = [k \in {} |-> None] /\ data = Start

-----------------------------------------------------------------------------
(* kvctl.                                                                  *)

\* Mutant: one attempt per endpoint.
MoreAttemptsPerEndpoint == attempts < Len(Endpoints) /\ queue # <<>>

MoreAttempts == attempts < Len(Endpoints) + Extra /\ queue # <<>>

Call ==
  /\ ~reply.done /\ at = None /\ MoreAttempts
  /\ at' = Head(queue) /\ queue' = Tail(queue)
  /\ attempts' = attempts + 1 /\ accepted' = FALSE
  /\ UNCHANGED <<clusterVars, logVars, queuedHints, reply, open, disturbed, informed>>

GiveUp ==
  /\ ~reply.done /\ at = None /\ ~MoreAttempts
  /\ reply' = Failed
  /\ UNCHANGED <<clusterVars, logVars, queue, queuedHints, attempts, at, accepted, open,
                 disturbed, informed>>

\* An error, or a response that is not OK, with a hint or none: on to the next
\* endpoint.
TryNext(hint) ==
  /\ at' = None
  /\ IF hint \in {None, at} \cup queuedHints THEN UNCHANGED <<queue, queuedHints>>
     ELSE queue' = Append(queue, hint) /\ queuedHints' = queuedHints \cup {hint}
  /\ UNCHANGED <<attempts, reply>>

-----------------------------------------------------------------------------
(* The answers.                                                            *)

\* A node that does not lead says who does; while it is a candidate it does not
\* know.
Reject ==
  /\ at # None /\ ~accepted /\ Known(at) # at
  /\ \/ /\ TryNext(Known(at)) /\ UNCHANGED disturbed
        /\ informed' = (informed \/ Known(at) # None)
     \/ TryNext(None) /\ disturbed' = TRUE /\ UNCHANGED informed
  /\ UNCHANGED <<clusterVars, logVars, accepted, open>>

\* The call does not reach a node in service.
Unreachable ==
  /\ at # None /\ ~accepted
  /\ TryNext(None) /\ disturbed' = TRUE
  /\ UNCHANGED <<clusterVars, logVars, accepted, open, informed>>

\* A node that leads, as far as it knows, appends the command to its log.
Accept ==
  /\ at # None /\ ~accepted /\ Known(at) = at
  /\ accepted' = TRUE /\ pending' = pending \cup {attempts}
  /\ UNCHANGED <<clusterVars, queue, queuedHints, attempts, at, reply, open, results, data,
                 disturbed, informed>>

\* Mutant: a command that did not swap is tried again.
AnsweredUnswapped ==
  /\ at # None /\ accepted /\ attempts \in DOMAIN results
  /\ IF results[attempts].swapped
     THEN /\ reply' = Reply(attempts, results[attempts]) /\ at' = None
          /\ UNCHANGED <<queue, queuedHints, attempts>>
     ELSE TryNext(None)
  /\ UNCHANGED <<clusterVars, logVars, accepted, open, disturbed, informed>>

\* The command was applied and its waiter gets the result.
Answered ==
  /\ at # None /\ accepted /\ attempts \in DOMAIN results
  /\ reply' = Reply(attempts, results[attempts]) /\ at' = None
  /\ UNCHANGED <<clusterVars, logVars, queue, queuedHints, attempts, accepted, open, disturbed,
                 informed>>

\* The call times out, at kvctl or in Propose (ProposalUnknownError), or the
\* node steps down and its waiters are told who leads.
LeftOpen ==
  /\ at # None /\ accepted
  /\ open' = open \cup {attempts}
  /\ TryNext(None) \/ TryNext(Known(at))
  /\ disturbed' = TRUE
  /\ UNCHANGED <<clusterVars, logVars, accepted, informed>>

-----------------------------------------------------------------------------
(* The cluster.                                                            *)

\* An accepted attempt is committed and applied.
ApplyAttempt(k) ==
  /\ k \in pending /\ pending' = pending \ {k}
  /\ results' = [j \in DOMAIN results \cup {k} |->
                   IF j = k THEN Result(data, Command) ELSE results[j]]
  /\ data' = Apply(data, Command)
  /\ UNCHANGED <<clusterVars, clientVars, disturbed, informed>>

\* It is overwritten by a leader that does not have it.
Overwrite(k) ==
  /\ k \in pending /\ disturbed
  /\ pending' = pending \ {k}
  /\ UNCHANGED <<clusterVars, clientVars, results, data, disturbed, informed>>

Elect(n) ==
  /\ ~reply.done /\ Len(leaders) < MaxTerm
  /\ leaders' = Append(leaders, n)
  /\ era' = [era EXCEPT ![n] = Len(leaders')]
  /\ disturbed' = TRUE
  /\ UNCHANGED <<clientVars, logVars, informed>>

\* Node n hears of the latest leader.
HearLeader(n) ==
  /\ ~reply.done /\ era[n] < Len(leaders)
  /\ era' = [era EXCEPT ![n] = Len(leaders)]
  /\ UNCHANGED <<leaders, clientVars, logVars, disturbed, informed>>

Next ==
  \/ Call \/ GiveUp
  \/ Reject \/ Unreachable \/ Accept \/ Answered \/ LeftOpen
  \/ \E k \in pending : ApplyAttempt(k) \/ Overwrite(k)
  \/ \E n \in Address : Elect(n) \/ HearLeader(n)

Spec == Init /\ [][Next]_vars

-----------------------------------------------------------------------------
(* Properties.                                                             *)

\* kvctl may have its command applied more than once, or report a compare-and-
\* swap as failed that its own earlier attempt made, but only by trying again
\* after an attempt whose outcome it was not told: every other application is
\* the one whose result it reports.
OnlyOpenRepeats ==
  reply.done =>
    \A k \in DOMAIN results : k \in open \/ reply = Reply(k, results[k])

\* In a cluster whose leader stays, with no errors and no timeouts, kvctl finds
\* the leader by following hints, stale ones included, as soon as one endpoint
\* names any leader: neither the bound on its attempts nor the rule that a hint
\* is followed once cuts the search short.
FindsLeader ==
  reply = Failed /\ ~disturbed => ~informed
=============================================================================
