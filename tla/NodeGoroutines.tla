--------------------------- MODULE NodeGoroutines ---------------------------
(***************************************************************************)
(* The goroutines of one node that talk to its peers, and how the server   *)
(* process shuts down: the heartbeat and the election loop, the rounds of  *)
(* replicateAllOnce, the barriers of linearizable reads, the slots that    *)
(* keep two goroutines from sending to one peer (internal/raft/node.go),   *)
(* the connections they share (internal/server/transport.go) and the end   *)
(* of main (cmd/server/main.go).                                           *)
(*                                                                         *)
(* What the requests say is the business of Raft; here an RPC fails, or is *)
(* answered in one of the ways that decide what its goroutine does next.   *)
(* A node that fails closed leaves its role; that is a StepDown here.      *)
(***************************************************************************)
EXTENDS Naturals, FiniteSets

CONSTANTS
  Peer,
  MaxAttempts, \* maxReplicationAttempts
  MaxTerm,     \* bound: the terms
  MaxDials,    \* bound: the connections made to a peer
  MaxReads     \* bound: the linearizable reads

ASSUME BoundAssumption == /\ MaxAttempts \in Nat \ {0} /\ MaxTerm \in Nat \ {0}
                         /\ MaxDials \in Nat \ {0} /\ MaxReads \in Nat \ {0}

Loop  == {"heartbeat", "election"}
Owner == Loop \cup {"read"}

VARIABLES
  role, term,   \* of the node
  replicating,  \* the peers whose slot is taken
  loop,         \* what each loop does: its select, votes, elected, round or exited
  read, reads,  \* is a read in ensureQuorum, and the reads so far
  task,         \* the goroutine of each owner for each peer
  pool,         \* conns: the connection to each peer, 0 for none
  dialed,       \* the connections ever made to each peer: 1..dialed[p]
  closed,       \* the connections closed, as <<peer, number>>
  phase,        \* of main
  carried       \* history: peers with a running goroutine at a becomeLeader

nodeVars == <<role, term, replicating>>
connVars == <<pool, dialed, closed>>
vars == <<nodeVars, connVars, loop, read, reads, task, phase, carried>>

\* The node's stopped flag, set by Stop and never cleared.
Stopped == phase \in {"stopping", "closing", "down"}

\* A goroutine that is about to do pc; None stands for no goroutine.
Fresh(pc) == [pc |-> pc, attempts |-> 0, conn |-> 0, term |-> 0]
None      == Fresh("none")

Running(o, p) == task[o][p].pc # "none"

\* The goroutines that took the slot of p and have not given it back.
Holders(p) == {o \in Owner : task[o][p].pc \in {"try", "dial", "rpc", "finish"}}

Init ==
  /\ role = "follower" /\ term = 0 /\ replicating = {}
  /\ loop = [l \in Loop |-> "select"]
  /\ read = FALSE /\ reads = 0
  /\ task = [o \in Owner |-> [p \in Peer |-> None]]
  /\ pool = [p \in Peer |-> 0] /\ dialed = [p \in Peer |-> 0] /\ closed = {}
  /\ phase = "serving" /\ carried = {}

-----------------------------------------------------------------------------
(* The loops.                                                              *)

\* replicateAllOnce up to the start of its goroutines: one for every peer whose
\* slot is free.
ReplicateAll(l) ==
  /\ loop' = [loop EXCEPT ![l] = "round"]
  /\ IF Stopped \/ role # "leader" THEN UNCHANGED <<replicating, task>>
     ELSE /\ replicating' = Peer
          /\ task' = [task EXCEPT ![l] = [p \in Peer |->
               IF p \in replicating THEN None ELSE Fresh("try")]]
  /\ UNCHANGED <<role, term, connVars, read, reads, phase, carried>>

\* A tick of the heartbeat, or a kick by Propose.
Heartbeat ==
  /\ loop["heartbeat"] = "select" /\ role = "leader"
  /\ ReplicateAll("heartbeat")

\* Mutant: the round does not wait for its goroutines.
EndRoundEarly(l) ==
  /\ loop[l] = "round"
  /\ loop' = [loop EXCEPT ![l] = "select"]
  /\ UNCHANGED <<nodeVars, connVars, read, reads, task, phase, carried>>

\* All goroutines of the round are done.
EndRound(l) ==
  /\ loop[l] = "round" /\ \A p \in Peer : ~Running(l, p)
  /\ loop' = [loop EXCEPT ![l] = "select"]
  /\ UNCHANGED <<nodeVars, connVars, read, reads, task, phase, carried>>

\* The election timeout; the votes are asked for without a lock.
StartElection ==
  /\ loop["election"] = "select" /\ role # "leader" /\ ~Stopped
  /\ term < MaxTerm /\ term' = term + 1
  /\ role' = "candidate"
  /\ loop' = [loop EXCEPT !["election"] = "votes"]
  /\ UNCHANGED <<replicating, connVars, read, reads, task, phase, carried>>

\* Enough votes: every slot is free again, whoever took it.
BecomeLeader ==
  /\ loop["election"] = "votes" /\ role = "candidate" /\ ~Stopped
  /\ role' = "leader" /\ replicating' = {}
  /\ carried' = carried \cup {p \in Peer : Holders(p) # {}}
  /\ loop' = [loop EXCEPT !["election"] = "elected"]
  /\ UNCHANGED <<term, connVars, read, reads, task, phase>>

\* Too few votes in time, or enough of them too late.
EndElection ==
  /\ loop["election"] = "votes"
  /\ loop' = [loop EXCEPT !["election"] = "select"]
  /\ UNCHANGED <<nodeVars, connVars, read, reads, task, phase, carried>>

\* The first round of a new leader, after a release of the lock.
FirstRound == loop["election"] = "elected" /\ ReplicateAll("election")

ExitLoop(l) ==
  /\ Stopped /\ loop[l] = "select"
  /\ loop' = [loop EXCEPT ![l] = "exited"]
  /\ UNCHANGED <<nodeVars, connVars, read, reads, task, phase, carried>>

\* A handler sees a higher term.
StepDown ==
  /\ ~Stopped /\ term < MaxTerm
  /\ term' = term + 1 /\ role' = "follower"
  /\ UNCHANGED <<replicating, connVars, loop, read, reads, task, phase, carried>>

-----------------------------------------------------------------------------
(* One goroutine, of owner o for peer p.                                   *)

Becomes(o, p, t) == task' = [task EXCEPT ![o][p] = t]
At(o, p, pc)     == [task[o][p] EXCEPT !.pc = pc]

\* Mutant: a read does not look whether the slot is taken.
AcquireAny(p) ==
  /\ task["read"][p].pc = "acquire" /\ ~Stopped /\ role = "leader"
  /\ Becomes("read", p, At("read", p, "try"))
  /\ replicating' = replicating \cup {p}
  /\ UNCHANGED <<role, term, connVars, loop, read, reads, phase, carried>>

\* acquirePeerReplication: a read waits for the slot, or gives up.
Acquire(p) ==
  /\ task["read"][p].pc = "acquire"
  /\ \/ /\ ~read \/ Stopped \/ role # "leader"
        /\ Becomes("read", p, None) /\ UNCHANGED replicating
     \/ /\ ~Stopped /\ role = "leader" /\ p \notin replicating
        /\ Becomes("read", p, At("read", p, "try"))
        /\ replicating' = replicating \cup {p}
  /\ UNCHANGED <<role, term, connVars, loop, read, reads, phase, carried>>

\* Mutant: the goroutine goes on until it has sent to the peer.
TryWithoutContext(o, p) ==
  /\ task[o][p].pc = "try"
  /\ ~Stopped /\ role = "leader" /\ task[o][p].attempts < MaxAttempts
  /\ Becomes(o, p, [task[o][p] EXCEPT !.pc = "dial", !.term = term, !.attempts = @ + 1])
  /\ UNCHANGED <<nodeVars, connVars, loop, read, reads, phase, carried>>

\* The head of the loop of replicateToPeer; the context may end at any time.
Try(o, p) ==
  /\ task[o][p].pc = "try"
  /\ \/ Becomes(o, p, Fresh("finish"))
     \/ /\ ~Stopped /\ role = "leader" /\ task[o][p].attempts < MaxAttempts
        /\ Becomes(o, p, [task[o][p] EXCEPT !.pc = "dial", !.term = term,
                                            !.attempts = @ + 1])
  /\ UNCHANGED <<nodeVars, connVars, loop, read, reads, phase, carried>>

\* connFor: the pooled connection unless it was shut down, or a new one.
Dial(o, p) ==
  /\ task[o][p].pc = "dial"
  /\ \/ /\ pool[p] # 0 /\ <<p, pool[p]>> \notin closed
        /\ Becomes(o, p, [At(o, p, "rpc") EXCEPT !.conn = pool[p]])
        /\ UNCHANGED connVars
     \/ /\ pool[p] = 0 \/ <<p, pool[p]>> \in closed
        /\ dialed[p] < MaxDials
        /\ dialed' = [dialed EXCEPT ![p] = @ + 1]
        /\ pool' = [pool EXCEPT ![p] = dialed'[p]]
        /\ Becomes(o, p, [At(o, p, "rpc") EXCEPT !.conn = dialed'[p]])
        /\ UNCHANGED closed
     \/ /\ pool[p] = 0 /\ dialed[p] = MaxDials \* bound: the dial fails
        /\ Becomes(o, p, Fresh("finish"))
        /\ UNCHANGED connVars
  /\ UNCHANGED <<nodeVars, loop, read, reads, phase, carried>>

\* Mutant: whatever connection is pooled is forgotten, the observed one closed.
DropConnAny(p, observed) ==
  /\ pool' = [pool EXCEPT ![p] = 0]
  /\ closed' = closed \cup {<<p, observed>>}

\* dropConn: the connection on which an RPC failed leaves the pool, unless a
\* newer one took its place.
DropConn(p, observed) ==
  IF pool[p] = observed
  THEN pool' = [pool EXCEPT ![p] = 0] /\ closed' = closed \cup {<<p, observed>>}
  ELSE UNCHANGED <<pool, closed>>

\* The RPC fails: no answer in time, the context ends or the connection is
\* closed under it.
RpcFails(o, p) ==
  /\ task[o][p].pc = "rpc"
  /\ DropConn(p, task[o][p].conn)
  /\ Becomes(o, p, Fresh("finish"))
  /\ UNCHANGED <<nodeVars, dialed, loop, read, reads, phase, carried>>

\* An answer on an open connection: with a higher term, too late, a success, a
\* conflict to try again from, or one to a chunk of a snapshot that is not the
\* last (sendSnapshot, which makes any number of calls in one attempt).
RpcAnswered(o, p) ==
  /\ task[o][p].pc = "rpc" /\ <<p, task[o][p].conn>> \notin closed
  /\ \/ /\ term < MaxTerm
        /\ term' = term + 1 /\ role' = "follower"
        /\ Becomes(o, p, Fresh("finish"))
     \/ /\ Becomes(o, p, Fresh("finish")) /\ UNCHANGED <<role, term>>
     \/ /\ role = "leader" /\ term = task[o][p].term
        /\ \E pc \in {"try", "dial"} : Becomes(o, p, [At(o, p, pc) EXCEPT !.conn = 0])
        /\ UNCHANGED <<role, term>>
  /\ UNCHANGED <<replicating, connVars, loop, read, reads, phase, carried>>

\* Mutant: the slot is only given back while the node leads.
FinishAsLeader(o, p) ==
  /\ task[o][p].pc = "finish"
  /\ Becomes(o, p, None)
  /\ replicating' = IF role = "leader" THEN replicating \ {p} ELSE replicating
  /\ UNCHANGED <<role, term, connVars, loop, read, reads, phase, carried>>

\* finishPeerReplication: the slot is free, whoever holds it by now.
Finish(o, p) ==
  /\ task[o][p].pc = "finish"
  /\ Becomes(o, p, None)
  /\ replicating' = replicating \ {p}
  /\ UNCHANGED <<role, term, connVars, loop, read, reads, phase, carried>>

-----------------------------------------------------------------------------
(* The vote requests of elections, the last one's or earlier ones', share  *)
(* the connections.  They take no slot and touch nothing of the node.      *)

VoteDials(p) ==
  /\ term > 0 /\ pool[p] = 0 /\ dialed[p] < MaxDials
  /\ dialed' = [dialed EXCEPT ![p] = @ + 1]
  /\ pool' = [pool EXCEPT ![p] = dialed'[p]]
  /\ UNCHANGED <<nodeVars, closed, loop, read, reads, task, phase, carried>>

VoteFails(p) ==
  /\ term > 0 /\ \E c \in 1..dialed[p] : DropConn(p, c)
  /\ UNCHANGED <<nodeVars, dialed, loop, read, reads, task, phase, carried>>

-----------------------------------------------------------------------------
(* Reads and the end of the process.                                       *)

\* ensureQuorum starts a goroutine for every peer.
BeginRead ==
  /\ phase = "serving" /\ role = "leader" /\ ~read
  /\ reads < MaxReads /\ reads' = reads + 1
  /\ \A p \in Peer : ~Running("read", p)
  /\ read' = TRUE
  /\ task' = [task EXCEPT !["read"] = [p \in Peer |-> Fresh("acquire")]]
  /\ UNCHANGED <<nodeVars, connVars, loop, phase, carried>>

\* A quorum, too many failures or ReadTimeout: the read returns, and its
\* goroutines are told to end.
EndRead ==
  /\ read /\ read' = FALSE
  /\ UNCHANGED <<nodeVars, connVars, loop, reads, task, phase, carried>>

\* main: GracefulStop waits for the calls being served, Stop for the loops, and
\* Close empties the pool.
GracefulStop ==
  /\ phase = "serving" /\ phase' = "draining"
  /\ UNCHANGED <<nodeVars, connVars, loop, read, reads, task, carried>>

Stop ==
  /\ phase = "draining" /\ ~read /\ phase' = "stopping"
  /\ UNCHANGED <<nodeVars, connVars, loop, read, reads, task, carried>>

StopReturns ==
  /\ phase = "stopping" /\ \A l \in Loop : loop[l] = "exited"
  /\ phase' = "closing"
  /\ UNCHANGED <<nodeVars, connVars, loop, read, reads, task, carried>>

Close ==
  /\ phase = "closing" /\ phase' = "down"
  /\ closed' = closed \cup {<<p, pool[p]>> : p \in {q \in Peer : pool[q] # 0}}
  /\ pool' = [p \in Peer |-> 0]
  /\ UNCHANGED <<nodeVars, dialed, loop, read, reads, task, carried>>

-----------------------------------------------------------------------------
LoopStep(l) == EndRound(l) \/ ExitLoop(l)

ElectionStep == BecomeLeader \/ EndElection \/ FirstRound

TaskStep(o, p) ==
  Try(o, p) \/ Dial(o, p) \/ RpcFails(o, p) \/ RpcAnswered(o, p) \/ Finish(o, p)

MainStep == Stop \/ StopReturns \/ Close

Next ==
  \/ Heartbeat \/ StartElection \/ ElectionStep \/ StepDown
  \/ \E l \in Loop : LoopStep(l)
  \/ \E p \in Peer : VoteDials(p) \/ VoteFails(p)
  \/ \E p \in Peer : Acquire(p) \/ \E o \in Owner : TaskStep(o, p)
  \/ BeginRead \/ EndRead \/ GracefulStop \/ MainStep

\* Goroutines run.  An RPC ends with its context: the rounds have a timeout of
\* timeoutMin, elections of timeoutMax and reads of ReadTimeout.
Fairness ==
  /\ \A l \in Loop : WF_vars(EndRound(l)) /\ SF_vars(ExitLoop(l))
  /\ WF_vars(ElectionStep) /\ WF_vars(EndRead) /\ WF_vars(MainStep)
  /\ \A p \in Peer : WF_vars(Acquire(p)) /\ \A o \in Owner : WF_vars(TaskStep(o, p))
  /\ SF_vars(\E p \in Peer, o \in Owner : RpcFails(o, p))

Spec == Init /\ [][Next]_vars /\ Fairness

-----------------------------------------------------------------------------
(* Properties.                                                             *)

\* Every variable has its type.
TypeOK ==
  /\ role \in {"follower", "candidate", "leader"} /\ term \in 0..MaxTerm
  /\ replicating \subseteq Peer /\ carried \subseteq Peer
  /\ loop \in [Loop -> {"select", "votes", "elected", "round", "exited"}]
  /\ read \in BOOLEAN /\ reads \in 0..MaxReads
  /\ task \in [Owner -> [Peer -> [pc : {"none", "acquire", "try", "dial", "rpc", "finish"},
                                  attempts : 0..MaxAttempts, conn : 0..MaxDials,
                                  term : 0..MaxTerm]]]
  /\ pool \in [Peer -> 0..MaxDials] /\ dialed \in [Peer -> 0..MaxDials]
  /\ closed \subseteq Peer \X (1..MaxDials)
  /\ phase \in {"serving", "draining", "stopping", "closing", "down"}

\* A slot that is taken has a goroutine that will give it back: through step
\* downs, elections and goroutines that free the slots of others, no peer is
\* ever cut off from replication by a slot that nobody holds.
SlotHeld == \A p \in replicating : Holders(p) # {}

\* One goroutine at a time sends to a peer, unless one was still running when
\* the node was elected again and the slots were reset under it.
OneSender == \A p \in Peer \ carried : Cardinality(Holders(p)) <= 1

\* Every connection that is open is the pooled one, so that Close ends it: a
\* late failure on an old connection never loses track of its successor.
OpenIsPooled ==
  \A p \in Peer : \A c \in 1..dialed[p] : <<p, c>> \in closed \/ pool[p] = c

\* Once Stop has returned, all that may still touch the node is the barrier of a
\* read that has already returned: no goroutine of a round races with what main
\* does next.
OnlyReadsOutliveStop ==
  phase \in {"closing", "down"} =>
    /\ \A l \in Loop, p \in Peer : ~Running(l, p)
    /\ ~read

\* The process ends once it is told to, whatever the loops and reads are in the
\* middle of.
ShutdownEnds == phase = "draining" ~> phase = "down"
=============================================================================
