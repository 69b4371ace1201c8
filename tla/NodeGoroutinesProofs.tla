------------------------ MODULE NodeGoroutinesProofs ------------------------
(***************************************************************************)
(* Proofs about NodeGoroutines: slots, senders, connections and what may   *)
(* outlive Stop, for every set of peers and every bound.                   *)
(***************************************************************************)
EXTENDS NodeGoroutines, FiniteSetTheorems, TLAPS

Task == [pc : {"none", "acquire", "try", "dial", "rpc", "finish"},
         attempts : 0..MaxAttempts, conn : 0..MaxDials, term : 0..MaxTerm]

\* A loop outside its round has no goroutines; the loops are over when Stop
\* returns, and the reads before it is called.
LoopsOrdered ==
  /\ \A l \in Loop : loop[l] # "round" => \A p \in Peer : task[l][p].pc = "none"
  /\ phase \in {"closing", "down"} => \A l \in Loop : loop[l] = "exited"
  /\ phase \in {"stopping", "closing", "down"} => ~read

\* The loops' goroutines never wait for a slot, and an RPC has a connection.
TasksOrdered ==
  \A o \in Owner, p \in Peer :
    /\ task[o][p].pc = "acquire" => o = "read"
    /\ task[o][p].pc = "rpc" => task[o][p].conn # 0

\* A sender has the slot, and is the only one, unless slots were reset under one.
SendersExclusive ==
  \A p \in Peer \ carried :
    /\ Holders(p) # {} => p \in replicating
    /\ \A o1, o2 \in Holders(p) : o1 = o2

IInv == /\ TypeOK /\ LoopsOrdered /\ TasksOrdered
        /\ SlotHeld /\ SendersExclusive /\ OpenIsPooled

\* What a change of one goroutine leaves alone.
LEMMA TaskChange ==
  ASSUME TypeOK, NEW o \in Owner, NEW p \in Peer, NEW t \in Task, Becomes(o, p, t)
  PROVE  /\ task' \in [Owner -> [Peer -> Task]]
         /\ task'[o][p] = t
         /\ \A q \in Owner, r \in Peer : q # o \/ r # p => task'[q][r] = task[q][r]
  BY DEF Becomes, TypeOK, Task

\* The records that the goroutines become are of the right type.
LEMMA TaskTypes ==
  ASSUME TypeOK, NEW o \in Owner, NEW p \in Peer
  PROVE  /\ task[o][p] \in Task
         /\ None \in Task
         /\ Fresh("try") \in Task
         /\ Fresh("acquire") \in Task
         /\ Fresh("finish") \in Task
         /\ \A pc \in {"try", "dial", "rpc"} : At(o, p, pc) \in Task
  <1>1. task[o][p] \in Task
    BY DEF TypeOK, Task
  <1>2. 0 \in 0..MaxAttempts /\ 0 \in 0..MaxDials /\ 0 \in 0..MaxTerm
    BY BoundAssumption
  <1> QED
    BY <1>1, <1>2 DEF Task, None, Fresh, At

\* A step that leaves the senders, the slots and carried alone.
LEMMA SlotsKept ==
  ASSUME IInv, \A q \in Peer : Holders(q)' = Holders(q), UNCHANGED <<replicating, carried>>
  PROVE  SlotHeld' /\ SendersExclusive'
  <1>1. replicating \subseteq Peer
    BY DEF IInv, TypeOK
  <1> QED
    BY <1>1 DEF IInv, SlotHeld, SendersExclusive

\* A goroutine that has a slot goes on with it.
LEMMA SameHolders ==
  ASSUME IInv, NEW o \in Owner, NEW p \in Peer, NEW t \in Task, Becomes(o, p, t),
         o \in Holders(p), t.pc \in {"try", "dial", "rpc", "finish"},
         t.pc = "rpc" => t.conn # 0,
         UNCHANGED <<replicating, carried, loop, phase, read>>
  PROVE  SlotHeld' /\ SendersExclusive' /\ LoopsOrdered' /\ TasksOrdered'
  <1>1. \A q \in Peer : Holders(q)' = Holders(q)
    BY TaskChange DEF IInv, Holders
  <1>2. SlotHeld' /\ SendersExclusive'
    BY <1>1, SlotsKept
  <1>3. task[o][p].pc # "none"
    BY DEF Holders
  <1>4. LoopsOrdered'
    BY <1>3, TaskChange DEF IInv, LoopsOrdered, Loop, Owner
  <1>5. TasksOrdered'
    BY TaskChange DEF IInv, TasksOrdered
  <1> QED
    BY <1>2, <1>4, <1>5

-----------------------------------------------------------------------------
(* The invariant is preserved, action by action.                           *)

LEMMA InitInv == Init => IInv
  <1> SUFFICES ASSUME Init PROVE IInv
    OBVIOUS
  <1>1. \A o \in Owner, p \in Peer : task[o][p] = None
    BY DEF Init
  <1>2. 0 \in 0..MaxAttempts /\ 0 \in 0..MaxDials /\ 0 \in 0..MaxTerm /\ 0 \in 0..MaxReads
    BY BoundAssumption
  <1>3. TypeOK
    BY <1>2 DEF Init, TypeOK, None, Fresh
  <1>4. LoopsOrdered /\ TasksOrdered
    BY <1>1 DEF Init, LoopsOrdered, TasksOrdered, None, Fresh, Loop, Owner
  <1>5. \A p \in Peer : Holders(p) = {}
    BY <1>1 DEF Holders, None, Fresh
  <1>6. SlotHeld /\ SendersExclusive
    BY <1>5 DEF Init, SlotHeld, SendersExclusive
  <1>7. OpenIsPooled
    BY DEF Init, OpenIsPooled
  <1> QED
    BY <1>3, <1>4, <1>6, <1>7 DEF IInv

\* A round begins: its goroutines take the free slots.
LEMMA ReplicateAllInv ==
  ASSUME IInv, NEW l \in Loop, loop[l] \in {"select", "elected"}, ReplicateAll(l)
  PROVE  IInv'
  <1> l \in Owner
    BY DEF Owner
  <1>1. CASE Stopped \/ role # "leader"
    <2>1. UNCHANGED <<task, replicating, role, term, connVars, read, reads, phase, carried>>
      BY <1>1 DEF ReplicateAll
    <2>2. TypeOK'
      BY <2>1 DEF IInv, TypeOK, ReplicateAll, connVars
    <2>3. LoopsOrdered' /\ TasksOrdered'
      BY <2>1 DEF IInv, TypeOK, LoopsOrdered, TasksOrdered, ReplicateAll
    <2>4. \A q \in Peer : Holders(q)' = Holders(q)
      BY <2>1 DEF Holders
    <2>5. OpenIsPooled'
      BY <2>1 DEF IInv, OpenIsPooled, connVars
    <2> QED
      BY <2>1, <2>2, <2>3, <2>4, <2>5, SlotsKept DEF IInv
  <1>2. CASE ~(Stopped \/ role # "leader")
    <2>1. /\ replicating' = Peer
          /\ UNCHANGED <<role, term, connVars, read, reads, phase, carried>>
          /\ task' = [task EXCEPT ![l] = [p \in Peer |->
               IF p \in replicating THEN None ELSE Fresh("try")]]
          /\ loop' = [loop EXCEPT ![l] = "round"]
      BY <1>2 DEF ReplicateAll
    <2>2. task \in [Owner -> [Peer -> Task]]
      BY DEF IInv, TypeOK, Task
    <2>3. \A q \in Owner, r \in Peer :
            task'[q][r] = IF q # l THEN task[q][r]
                          ELSE IF r \in replicating THEN None ELSE Fresh("try")
      BY <2>1, <2>2
    <2>4. \A r \in Peer : task[l][r].pc = "none"
      BY DEF IInv, LoopsOrdered
    <2>5. None \in Task /\ Fresh("try") \in Task
      <3>1. 0 \in 0..MaxAttempts /\ 0 \in 0..MaxDials /\ 0 \in 0..MaxTerm
        BY BoundAssumption
      <3> QED
        BY <3>1 DEF Task, None, Fresh
    <2>6. TypeOK'
      <3>1. task' \in [Owner -> [Peer -> Task]]
        BY <2>1, <2>2, <2>5
      <3> QED
        BY <2>1, <3>1 DEF IInv, TypeOK, Task, connVars
    <2>7. LoopsOrdered'
      <3>1. loop' \in [Loop -> {"select", "votes", "elected", "round", "exited"}]
        BY <2>6 DEF TypeOK
      <3>2. phase \notin {"closing", "down"}
        BY DEF IInv, LoopsOrdered
      <3> QED
        BY <2>1, <2>3, <3>1, <3>2 DEF IInv, LoopsOrdered, TypeOK, Owner
    <2>8. TasksOrdered'
      BY <2>3 DEF IInv, TasksOrdered, None, Fresh
    <2>9. \A r \in Peer : r \in replicating => Holders(r)' = Holders(r)
      BY <2>3, <2>4 DEF Holders, None, Fresh
    <2>10. \A r \in Peer : r \notin replicating => Holders(r)' = Holders(r) \cup {l}
      BY <2>3, <2>4 DEF Holders, None, Fresh
    <2>11. SlotHeld' /\ SendersExclusive'
      BY <2>1, <2>9, <2>10 DEF IInv, SlotHeld, SendersExclusive
    <2>12. OpenIsPooled'
      BY <2>1 DEF IInv, OpenIsPooled, connVars
    <2> QED
      BY <2>6, <2>7, <2>8, <2>11, <2>12 DEF IInv
  <1> QED
    BY <1>1, <1>2

\* Steps of a loop, of a handler or of main that touch no goroutine, slot or
\* connection.
LEMMA ControlInv ==
  ASSUME IInv, UNCHANGED <<task, replicating, carried, connVars>>,
         TypeOK', LoopsOrdered'
  PROVE  IInv'
  <1>1. \A q \in Peer : Holders(q)' = Holders(q)
    BY DEF Holders
  <1>2. SlotHeld' /\ SendersExclusive'
    BY <1>1, SlotsKept
  <1>3. TasksOrdered' /\ OpenIsPooled'
    BY DEF IInv, TasksOrdered, OpenIsPooled, connVars
  <1> QED
    BY <1>2, <1>3 DEF IInv

LEMMA LoopStepInv == ASSUME IInv, NEW l \in Loop, LoopStep(l) PROVE IInv'
  <1>1. UNCHANGED <<nodeVars, connVars, read, reads, task, phase, carried>>
    BY DEF LoopStep, EndRound, ExitLoop
  <1>2. TypeOK'
    BY <1>1 DEF IInv, TypeOK, LoopStep, EndRound, ExitLoop, nodeVars, connVars
  <1>3. /\ \E w \in {"select", "exited"} : loop' = [loop EXCEPT ![l] = w]
        /\ loop[l] # "exited"
        /\ \A p \in Peer : task[l][p].pc = "none"
    BY DEF IInv, LoopsOrdered, LoopStep, EndRound, ExitLoop, Running
  <1>4. LoopsOrdered'
    BY <1>1, <1>3 DEF IInv, TypeOK, LoopsOrdered
  <1> QED
    BY <1>1, <1>2, <1>4, ControlInv DEF nodeVars

LEMMA StartElectionInv == ASSUME IInv, StartElection PROVE IInv'
  <1>0. term' \in 0..MaxTerm
    BY BoundAssumption DEF IInv, TypeOK, StartElection
  <1>1. TypeOK'
    BY <1>0 DEF IInv, TypeOK, StartElection, connVars
  <1>2. LoopsOrdered'
    BY DEF IInv, TypeOK, LoopsOrdered, StartElection, Loop
  <1> QED
    BY <1>1, <1>2, ControlInv DEF StartElection

LEMMA EndElectionInv == ASSUME IInv, EndElection PROVE IInv'
  <1>1. TypeOK'
    BY DEF IInv, TypeOK, EndElection, nodeVars, connVars
  <1>2. LoopsOrdered'
    BY DEF IInv, TypeOK, LoopsOrdered, EndElection, Loop
  <1> QED
    BY <1>1, <1>2, ControlInv DEF EndElection, nodeVars

\* The slots are reset; the peers whose senders lose theirs are carried.
LEMMA BecomeLeaderInv == ASSUME IInv, BecomeLeader PROVE IInv'
  <1>1. TypeOK'
    BY DEF IInv, TypeOK, BecomeLeader, connVars
  <1>2. LoopsOrdered'
    BY DEF IInv, TypeOK, LoopsOrdered, BecomeLeader, Loop
  <1>3. TasksOrdered' /\ OpenIsPooled'
    BY DEF IInv, TasksOrdered, OpenIsPooled, BecomeLeader, connVars
  <1>4. \A q \in Peer : Holders(q)' = Holders(q)
    BY DEF Holders, BecomeLeader
  <1>5. SlotHeld' /\ SendersExclusive'
    BY <1>4 DEF SlotHeld, SendersExclusive, BecomeLeader
  <1> QED
    BY <1>1, <1>2, <1>3, <1>5 DEF IInv

LEMMA StepDownInv == ASSUME IInv, StepDown PROVE IInv'
  <1>0. term' \in 0..MaxTerm
    BY BoundAssumption DEF IInv, TypeOK, StepDown
  <1>1. TypeOK'
    BY <1>0 DEF IInv, TypeOK, StepDown, connVars
  <1>2. LoopsOrdered'
    BY DEF IInv, LoopsOrdered, StepDown
  <1> QED
    BY <1>1, <1>2, ControlInv DEF StepDown

LEMMA EndReadInv == ASSUME IInv, EndRead PROVE IInv'
  <1>1. TypeOK'
    BY DEF IInv, TypeOK, EndRead, nodeVars, connVars
  <1>2. LoopsOrdered'
    BY DEF IInv, LoopsOrdered, EndRead
  <1> QED
    BY <1>1, <1>2, ControlInv DEF EndRead, nodeVars

LEMMA MainInv == ASSUME IInv, GracefulStop \/ Stop \/ StopReturns PROVE IInv'
  <1>1. UNCHANGED <<nodeVars, connVars, loop, read, reads, task, carried>>
    BY DEF GracefulStop, Stop, StopReturns
  <1>2. TypeOK'
    BY <1>1 DEF IInv, TypeOK, GracefulStop, Stop, StopReturns, nodeVars, connVars
  <1>3. LoopsOrdered'
    BY <1>1 DEF IInv, LoopsOrdered, GracefulStop, Stop, StopReturns
  <1> QED
    BY <1>1, <1>2, <1>3, ControlInv DEF nodeVars

\* Close closes what is pooled.
LEMMA CloseInv == ASSUME IInv, Close PROVE IInv'
  <1>1. UNCHANGED <<nodeVars, dialed, loop, read, reads, task, carried>>
    BY DEF Close
  <1>2. 0 \in 0..MaxDials
    BY BoundAssumption
  <1>3. closed' \subseteq Peer \X (1..MaxDials)
    BY DEF IInv, TypeOK, Close
  <1>4. TypeOK'
    BY <1>1, <1>2, <1>3 DEF IInv, TypeOK, Close, nodeVars
  <1>5. LoopsOrdered' /\ TasksOrdered'
    BY <1>1 DEF IInv, LoopsOrdered, TasksOrdered, Close
  <1>6. \A q \in Peer : Holders(q)' = Holders(q)
    BY <1>1 DEF Holders
  <1>7. SlotHeld' /\ SendersExclusive'
    BY <1>1, <1>6, SlotsKept DEF nodeVars
  <1>8. OpenIsPooled'
    <2> SUFFICES ASSUME NEW p \in Peer, NEW c \in 1..dialed[p]
                 PROVE  <<p, c>> \in closed'
      BY <1>1 DEF OpenIsPooled
    <2>1. <<p, c>> \in closed \/ (pool[p] = c /\ pool[p] # 0)
      BY DEF IInv, OpenIsPooled, TypeOK
    <2> QED
      BY <2>1 DEF Close
  <1> QED
    BY <1>4, <1>5, <1>7, <1>8 DEF IInv

\* The goroutines of a barrier start without a slot.
LEMMA BeginReadInv == ASSUME IInv, BeginRead PROVE IInv'
  <1>1. UNCHANGED <<nodeVars, connVars, loop, phase, carried>>
    BY DEF BeginRead
  <1>2. task \in [Owner -> [Peer -> Task]]
    BY DEF IInv, TypeOK, Task
  <1>3. Fresh("acquire") \in Task
    <2>1. 0 \in 0..MaxAttempts /\ 0 \in 0..MaxDials /\ 0 \in 0..MaxTerm
      BY BoundAssumption
    <2> QED
      BY <2>1 DEF Task, Fresh
  <1>4. \A q \in Owner, r \in Peer :
          task'[q][r] = IF q = "read" THEN Fresh("acquire") ELSE task[q][r]
    BY <1>2 DEF BeginRead
  <1>5. task' \in [Owner -> [Peer -> Task]]
    BY <1>2, <1>3 DEF BeginRead
  <1>6. reads' \in 0..MaxReads
    BY BoundAssumption DEF IInv, TypeOK, BeginRead
  <1>7. TypeOK'
    BY <1>1, <1>5, <1>6 DEF IInv, TypeOK, Task, BeginRead, nodeVars, connVars
  <1>8. LoopsOrdered'
    BY <1>1, <1>4 DEF IInv, LoopsOrdered, BeginRead, Loop, Owner
  <1>9. TasksOrdered'
    BY <1>4 DEF IInv, TasksOrdered, Fresh
  <1>10. \A p \in Peer : task["read"][p].pc = "none"
    BY DEF BeginRead, Running
  <1>11. \A q \in Peer : Holders(q)' = Holders(q)
    BY <1>4, <1>10 DEF Holders, Fresh
  <1>12. SlotHeld' /\ SendersExclusive'
    BY <1>1, <1>11, SlotsKept DEF nodeVars
  <1>13. OpenIsPooled'
    BY <1>1 DEF IInv, OpenIsPooled, connVars
  <1> QED
    BY <1>7, <1>8, <1>9, <1>12, <1>13 DEF IInv

\* A goroutine of a barrier takes a free slot, or ends without one.
LEMMA AcquireInv == ASSUME IInv, NEW p \in Peer, Acquire(p) PROVE IInv'
  <1> DEFINE o == "read"
  <1>0. o \in Owner /\ TypeOK
    BY DEF Owner, IInv
  <1>1. UNCHANGED <<role, term, connVars, loop, read, reads, phase, carried>>
    BY DEF Acquire
  <1>2. task[o][p].pc = "acquire"
    BY DEF Acquire
  <1>3. CASE Becomes(o, p, None) /\ UNCHANGED replicating
    <2>1. /\ task' \in [Owner -> [Peer -> Task]] /\ task'[o][p] = None
          /\ \A q \in Owner, r \in Peer : q # o \/ r # p => task'[q][r] = task[q][r]
      BY <1>0, <1>3, TaskChange, TaskTypes
    <2>2. TypeOK'
      BY <1>1, <1>3, <2>1 DEF IInv, TypeOK, Task, connVars
    <2>3. LoopsOrdered' /\ TasksOrdered'
      BY <1>1, <2>1 DEF IInv, LoopsOrdered, TasksOrdered, Loop, Owner, None, Fresh
    <2>4. \A q \in Peer : Holders(q)' = Holders(q)
      BY <1>0, <1>2, <2>1 DEF Holders, None, Fresh
    <2>5. SlotHeld' /\ SendersExclusive'
      BY <1>1, <1>3, <2>4, SlotsKept
    <2> QED
      BY <1>1, <2>2, <2>3, <2>5 DEF IInv, OpenIsPooled, connVars
  <1>4. CASE /\ Becomes(o, p, At(o, p, "try")) /\ p \notin replicating
             /\ replicating' = replicating \cup {p}
    <2>1. /\ task' \in [Owner -> [Peer -> Task]] /\ task'[o][p] = At(o, p, "try")
          /\ \A q \in Owner, r \in Peer : q # o \/ r # p => task'[q][r] = task[q][r]
      BY <1>0, <1>4, TaskChange, TaskTypes
    <2>2. task'[o][p].pc = "try"
      <3>1. task[o][p] \in Task
        BY <1>0, TaskTypes
      <3> QED
        BY <2>1, <3>1 DEF At, Task
    <2>3. TypeOK'
      BY <1>1, <1>4, <2>1 DEF IInv, TypeOK, Task, connVars
    <2>4. LoopsOrdered' /\ TasksOrdered'
      BY <1>1, <2>1, <2>2 DEF IInv, LoopsOrdered, TasksOrdered, Loop, Owner
    <2>5. \A q \in Peer : q # p => Holders(q)' = Holders(q)
      BY <2>1 DEF Holders
    <2>6. Holders(p)' = Holders(p) \cup {o}
      BY <1>0, <2>1, <2>2 DEF Holders
    <2>7. SlotHeld' /\ SendersExclusive'
      <3>1. ASSUME NEW q \in replicating' PROVE Holders(q)' # {}
        <4>1. CASE q = p
          BY <2>6, <4>1
        <4>2. CASE q # p
          BY <1>4, <2>5, <4>2 DEF IInv, TypeOK, SlotHeld
        <4> QED
          BY <4>1, <4>2
      <3>2. ASSUME NEW q \in Peer \ carried'
            PROVE  /\ Holders(q)' # {} => q \in replicating'
                   /\ \A o1, o2 \in Holders(q)' : o1 = o2
        <4>1. CASE q = p
          <5>1. Holders(p) = {}
            BY <1>1, <1>4, <4>1 DEF IInv, SendersExclusive
          <5> QED
            BY <1>4, <2>6, <4>1, <5>1
        <4>2. CASE q # p
          BY <1>1, <1>4, <2>5, <4>2 DEF IInv, SendersExclusive
        <4> QED
          BY <4>1, <4>2
      <3> QED
        BY <3>1, <3>2 DEF SlotHeld, SendersExclusive
    <2> QED
      BY <1>1, <2>3, <2>4, <2>7 DEF IInv, OpenIsPooled, connVars
  <1> QED
    BY <1>3, <1>4 DEF Acquire

\* A goroutine that has a slot goes on with it and leaves the pool alone.
LEMMA TryInv == ASSUME IInv, NEW o \in Owner, NEW p \in Peer, Try(o, p) PROVE IInv'
  <1>0. TypeOK /\ task[o][p] \in Task /\ Fresh("finish") \in Task
    BY TaskTypes DEF IInv
  <1>1. UNCHANGED <<nodeVars, connVars, loop, read, reads, phase, carried>>
    BY DEF Try
  <1>2. o \in Holders(p)
    BY DEF Try, Holders
  <1>3. \E t \in Task : Becomes(o, p, t) /\ t.pc \in {"finish", "dial"}
    <2> DEFINE d == [task[o][p] EXCEPT !.pc = "dial", !.term = term, !.attempts = @ + 1]
    <2>1. CASE Becomes(o, p, Fresh("finish"))
      BY <1>0, <2>1 DEF Fresh
    <2>2. CASE task[o][p].attempts < MaxAttempts /\ Becomes(o, p, d)
      <3>1. task[o][p].attempts + 1 \in 0..MaxAttempts /\ term \in 0..MaxTerm
        BY <1>0, <2>2, BoundAssumption DEF Task, TypeOK
      <3>2. d \in Task /\ d.pc = "dial"
        BY <1>0, <3>1 DEF Task
      <3> QED
        BY <2>2, <3>2
    <2> QED
      BY <2>1, <2>2 DEF Try
  <1>4. PICK t \in Task : Becomes(o, p, t) /\ t.pc \in {"finish", "dial"}
    BY <1>3
  <1>5. SlotHeld' /\ SendersExclusive' /\ LoopsOrdered' /\ TasksOrdered'
    BY <1>1, <1>2, <1>4, SameHolders DEF nodeVars
  <1>6. TypeOK'
    BY <1>0, <1>1, <1>4, TaskChange DEF TypeOK, Task, nodeVars, connVars
  <1> QED
    BY <1>1, <1>5, <1>6 DEF IInv, OpenIsPooled, connVars

\* connFor makes a new connection only when no pooled one is open.
LEMMA NewConn ==
  ASSUME IInv, NEW p \in Peer, dialed[p] < MaxDials,
         pool[p] = 0 \/ <<p, pool[p]>> \in closed,
         dialed' = [dialed EXCEPT ![p] = @ + 1],
         pool' = [pool EXCEPT ![p] = dialed'[p]],
         UNCHANGED closed
  PROVE  /\ dialed'[p] \in 1..MaxDials
         /\ pool' \in [Peer -> 0..MaxDials] /\ dialed' \in [Peer -> 0..MaxDials]
         /\ OpenIsPooled'
  <1>0. TypeOK /\ OpenIsPooled
    BY DEF IInv
  <1>1. /\ dialed[p] \in Nat /\ dialed[p] + 1 \in 1..MaxDials
        /\ dialed[p] + 1 \in 0..MaxDials
    BY <1>0, BoundAssumption DEF TypeOK
  <1>2. dialed'[p] = dialed[p] + 1 /\ pool'[p] = dialed[p] + 1
    BY <1>0 DEF TypeOK
  <1>3. pool' \in [Peer -> 0..MaxDials] /\ dialed' \in [Peer -> 0..MaxDials]
    BY <1>0, <1>1, <1>2 DEF TypeOK
  <1>4. OpenIsPooled'
    <2> SUFFICES ASSUME NEW q \in Peer, NEW c \in 1..dialed'[q]
                 PROVE  <<q, c>> \in closed \/ pool'[q] = c
      BY DEF OpenIsPooled
    <2>1. CASE q # p
      BY <1>0, <2>1 DEF OpenIsPooled, TypeOK
    <2>2. CASE q = p
      <3>1. c = dialed[p] + 1 \/ (c \in 1..dialed[p] /\ c # 0)
        BY <1>1, <1>2, <2>2
      <3> QED
        BY <1>0, <1>2, <2>2, <3>1 DEF OpenIsPooled
    <2> QED
      BY <2>1, <2>2
  <1> QED
    BY <1>1, <1>2, <1>3, <1>4

\* dropConn closes what it takes out of the pool.
LEMMA DroppedConn ==
  ASSUME IInv, NEW p \in Peer, NEW c \in 1..MaxDials, DropConn(p, c), UNCHANGED dialed
  PROVE  /\ pool' \in [Peer -> 0..MaxDials] /\ closed' \subseteq Peer \X (1..MaxDials)
         /\ OpenIsPooled'
  <1>1. TypeOK /\ OpenIsPooled /\ 0 \in 0..MaxDials
    BY BoundAssumption DEF IInv
  <1>2. pool' \in [Peer -> 0..MaxDials] /\ closed' \subseteq Peer \X (1..MaxDials)
    BY <1>1 DEF DropConn, TypeOK
  <1>3. OpenIsPooled'
    BY <1>1 DEF TypeOK, OpenIsPooled, DropConn
  <1> QED
    BY <1>2, <1>3

LEMMA DialInv == ASSUME IInv, NEW o \in Owner, NEW p \in Peer, Dial(o, p) PROVE IInv'
  <1>0. TypeOK /\ task[o][p] \in Task /\ Fresh("finish") \in Task /\ At(o, p, "rpc") \in Task
    BY TaskTypes DEF IInv
  <1>1. UNCHANGED <<nodeVars, loop, read, reads, phase, carried>>
    BY DEF Dial
  <1>2. o \in Holders(p)
    BY DEF Dial, Holders
  <1>3. ASSUME NEW c \in 1..MaxDials
        PROVE  [At(o, p, "rpc") EXCEPT !.conn = c] \in
                 {t \in Task : t.pc = "rpc" /\ t.conn # 0}
    <2>1. c \in 0..MaxDials /\ c # 0
      BY BoundAssumption
    <2> QED
      BY <1>0, <2>1 DEF At, Task
  <1>4. ASSUME NEW t \in Task, Becomes(o, p, t), t.pc \in {"rpc", "finish"},
               t.pc = "rpc" => t.conn # 0,
               pool' \in [Peer -> 0..MaxDials], dialed' \in [Peer -> 0..MaxDials],
               closed' = closed, OpenIsPooled'
        PROVE  IInv'
    <2>1. SlotHeld' /\ SendersExclusive' /\ LoopsOrdered' /\ TasksOrdered'
      BY <1>1, <1>2, <1>4, SameHolders DEF nodeVars
    <2>2. TypeOK'
      BY <1>0, <1>1, <1>4, TaskChange DEF TypeOK, Task, nodeVars
    <2> QED
      BY <1>4, <2>1, <2>2 DEF IInv
  <1>5. CASE /\ pool[p] # 0 /\ UNCHANGED connVars
             /\ Becomes(o, p, [At(o, p, "rpc") EXCEPT !.conn = pool[p]])
    <2>1. pool[p] \in 1..MaxDials
      BY <1>0, <1>5, BoundAssumption DEF TypeOK
    <2>2. OpenIsPooled'
      BY <1>5 DEF IInv, OpenIsPooled, connVars
    <2> QED
      BY <1>0, <1>3, <1>4, <1>5, <2>1, <2>2 DEF TypeOK, connVars
  <1>6. CASE /\ pool[p] = 0 \/ <<p, pool[p]>> \in closed
             /\ dialed[p] < MaxDials
             /\ dialed' = [dialed EXCEPT ![p] = @ + 1]
             /\ pool' = [pool EXCEPT ![p] = dialed'[p]]
             /\ Becomes(o, p, [At(o, p, "rpc") EXCEPT !.conn = dialed'[p]])
             /\ UNCHANGED closed
    BY <1>3, <1>4, <1>6, NewConn
  <1>7. CASE Becomes(o, p, Fresh("finish")) /\ UNCHANGED connVars
    <2>1. Fresh("finish").pc = "finish"
      BY DEF Fresh
    <2>2. OpenIsPooled'
      BY <1>7 DEF IInv, OpenIsPooled, connVars
    <2> QED
      BY <1>0, <1>4, <1>7, <2>1, <2>2 DEF TypeOK, connVars
  <1> QED
    BY <1>5, <1>6, <1>7 DEF Dial

LEMMA RpcFailsInv == ASSUME IInv, NEW o \in Owner, NEW p \in Peer, RpcFails(o, p) PROVE IInv'
  <1>0. TypeOK /\ task[o][p] \in Task /\ Fresh("finish") \in Task
    BY TaskTypes DEF IInv
  <1>1. UNCHANGED <<nodeVars, dialed, loop, read, reads, phase, carried>>
    BY DEF RpcFails
  <1>2. o \in Holders(p)
    BY DEF RpcFails, Holders
  <1>3. Fresh("finish").pc = "finish"
    BY DEF Fresh
  <1>4. SlotHeld' /\ SendersExclusive' /\ LoopsOrdered' /\ TasksOrdered'
    BY <1>0, <1>1, <1>2, <1>3, SameHolders DEF RpcFails, nodeVars
  <1>5. task[o][p].conn \in 1..MaxDials
    <2>1. task[o][p].conn # 0
      BY DEF IInv, TasksOrdered, RpcFails
    <2>2. task[o][p].conn \in 0..MaxDials
      BY <1>0 DEF Task
    <2> QED
      BY <2>1, <2>2, BoundAssumption
  <1>6. /\ pool' \in [Peer -> 0..MaxDials] /\ closed' \subseteq Peer \X (1..MaxDials)
        /\ OpenIsPooled'
    BY <1>1, <1>5, DroppedConn DEF RpcFails
  <1>7. TypeOK'
    BY <1>0, <1>1, <1>6, TaskChange DEF RpcFails, TypeOK, Task, nodeVars
  <1> QED
    BY <1>4, <1>6, <1>7 DEF IInv

LEMMA RpcAnsweredInv ==
  ASSUME IInv, NEW o \in Owner, NEW p \in Peer, RpcAnswered(o, p) PROVE IInv'
  <1>0. /\ TypeOK /\ task[o][p] \in Task
        /\ Fresh("finish") \in Task /\ At(o, p, "try") \in Task /\ At(o, p, "dial") \in Task
    BY TaskTypes DEF IInv
  <1>1. UNCHANGED <<replicating, connVars, loop, read, reads, phase, carried>>
    BY DEF RpcAnswered
  <1>2. o \in Holders(p)
    BY DEF RpcAnswered, Holders
  <1>3. /\ Fresh("finish").pc = "finish"
        /\ \A pc \in {"try", "dial"} :
             [At(o, p, pc) EXCEPT !.conn = 0] \in Task /\ [At(o, p, pc) EXCEPT !.conn = 0].pc = pc
    <2>1. 0 \in 0..MaxDials
      BY BoundAssumption
    <2> QED
      BY <1>0, <2>1 DEF At, Task, Fresh
  <1>4. PICK t \in Task : Becomes(o, p, t) /\ t.pc \in {"finish", "try", "dial"}
    BY <1>0, <1>3 DEF RpcAnswered
  <1>5. SlotHeld' /\ SendersExclusive' /\ LoopsOrdered' /\ TasksOrdered'
    BY <1>1, <1>2, <1>4, SameHolders
  <1>6. term' \in 0..MaxTerm /\ role' \in {"follower", "candidate", "leader"}
    BY <1>0, BoundAssumption DEF RpcAnswered, TypeOK
  <1>7. TypeOK'
    BY <1>0, <1>1, <1>4, <1>6, TaskChange DEF TypeOK, Task, connVars
  <1> QED
    BY <1>1, <1>5, <1>7 DEF IInv, OpenIsPooled, connVars

\* The slot is free: nobody else holds it, unless it was reset under the holder.
LEMMA FinishInv == ASSUME IInv, NEW o \in Owner, NEW p \in Peer, Finish(o, p) PROVE IInv'
  <1>0. TypeOK /\ None \in Task
    BY TaskTypes DEF IInv
  <1>1. UNCHANGED <<role, term, connVars, loop, read, reads, phase, carried>>
    BY DEF Finish
  <1>2. /\ task' \in [Owner -> [Peer -> Task]] /\ task'[o][p] = None
        /\ \A q \in Owner, r \in Peer : q # o \/ r # p => task'[q][r] = task[q][r]
    BY <1>0, TaskChange DEF Finish
  <1>3. TypeOK'
    BY <1>0, <1>1, <1>2 DEF Finish, TypeOK, Task, connVars
  <1>4. LoopsOrdered' /\ TasksOrdered'
    BY <1>1, <1>2 DEF IInv, LoopsOrdered, TasksOrdered, Loop, Owner, None, Fresh
  <1>5. \A q \in Peer : q # p => Holders(q)' = Holders(q)
    BY <1>2 DEF Holders
  <1>6. Holders(p)' = Holders(p) \ {o} /\ o \in Holders(p)
    <2>1. o \in Holders(p)
      BY DEF Holders, Finish
    <2>2. task'[o][p].pc = "none"
      BY <1>2 DEF None, Fresh
    <2>3. \A q \in Owner : q # o => task'[q][p] = task[q][p]
      BY <1>2
    <2>4. o \notin Holders(p)'
      BY <2>2 DEF Holders
    <2>5. \A q \in Owner : q # o => (q \in Holders(p)' <=> q \in Holders(p))
      BY <2>3 DEF Holders
    <2>6. Holders(p) \subseteq Owner /\ Holders(p)' \subseteq Owner
      BY DEF Holders
    <2> QED
      BY <2>1, <2>4, <2>5, <2>6
  <1>7. SlotHeld'
    <2> SUFFICES ASSUME NEW q \in replicating' PROVE Holders(q)' # {}
      BY DEF SlotHeld
    <2>1. q # p /\ q \in replicating /\ q \in Peer
      BY <1>0 DEF Finish, TypeOK
    <2> QED
      BY <1>5, <2>1 DEF IInv, SlotHeld
  <1>8. SendersExclusive'
    <2> SUFFICES ASSUME NEW q \in Peer \ carried
                 PROVE  /\ Holders(q)' # {} => q \in replicating'
                        /\ \A o1, o2 \in Holders(q)' : o1 = o2
      BY <1>1 DEF SendersExclusive
    <2>1. CASE q = p
      <3>1. \A o1 \in Holders(p) : o1 = o
        BY <1>6, <2>1 DEF IInv, SendersExclusive
      <3>2. Holders(q)' = {}
        BY <1>6, <2>1, <3>1
      <3> QED
        BY <3>2
    <2>2. CASE q # p
      BY <1>5, <2>2 DEF IInv, SendersExclusive, Finish
    <2> QED
      BY <2>1, <2>2
  <1> QED
    BY <1>1, <1>3, <1>4, <1>7, <1>8 DEF IInv, OpenIsPooled, connVars

\* A vote request only touches the connections.
LEMMA VoteInv == ASSUME IInv, NEW p \in Peer, VoteDials(p) \/ VoteFails(p) PROVE IInv'
  <1>1. UNCHANGED <<nodeVars, loop, read, reads, task, phase, carried>>
    BY DEF VoteDials, VoteFails
  <1>2. /\ pool' \in [Peer -> 0..MaxDials] /\ dialed' \in [Peer -> 0..MaxDials]
        /\ closed' \subseteq Peer \X (1..MaxDials) /\ OpenIsPooled'
    <2>1. CASE VoteDials(p)
      BY <2>1, NewConn DEF VoteDials, IInv, TypeOK
    <2>2. CASE VoteFails(p)
      <3>1. PICK c \in 1..dialed[p] : DropConn(p, c)
        BY <2>2 DEF VoteFails
      <3>2. c \in 1..MaxDials
        BY BoundAssumption DEF IInv, TypeOK
      <3> QED
        BY <2>2, <3>1, <3>2, DroppedConn DEF VoteFails, IInv, TypeOK
    <2> QED
      BY <2>1, <2>2
  <1>3. TypeOK'
    BY <1>1, <1>2 DEF IInv, TypeOK, nodeVars
  <1>4. LoopsOrdered' /\ TasksOrdered'
    BY <1>1 DEF IInv, LoopsOrdered, TasksOrdered
  <1>5. SlotHeld' /\ SendersExclusive'
    BY <1>1, SlotsKept DEF Holders, nodeVars
  <1> QED
    BY <1>2, <1>3, <1>4, <1>5 DEF IInv

LEMMA StutterInv == ASSUME IInv, UNCHANGED vars PROVE IInv'
  <1>1. UNCHANGED <<nodeVars, connVars, loop, read, reads, task, phase, carried>>
    BY DEF vars
  <1>2. TypeOK'
    BY <1>1 DEF IInv, TypeOK, nodeVars, connVars
  <1>3. LoopsOrdered'
    BY <1>1 DEF IInv, LoopsOrdered
  <1> QED
    BY <1>1, <1>2, <1>3, ControlInv DEF nodeVars

LEMMA NextInv == IInv /\ [Next]_vars => IInv'
  <1> SUFFICES ASSUME IInv, [Next]_vars PROVE IInv'
    OBVIOUS
  <1>1. CASE Heartbeat
    BY <1>1, ReplicateAllInv DEF Heartbeat, Loop
  <1>2. CASE FirstRound
    BY <1>2, ReplicateAllInv DEF FirstRound, Loop
  <1>3. CASE \E l \in Loop : LoopStep(l)
    BY <1>3, LoopStepInv
  <1>4. CASE StartElection \/ BecomeLeader \/ EndElection \/ StepDown
    BY <1>4, StartElectionInv, BecomeLeaderInv, EndElectionInv, StepDownInv
  <1>5. CASE \E p \in Peer : Acquire(p)
    BY <1>5, AcquireInv
  <1>6. CASE \E o \in Owner, p \in Peer : TaskStep(o, p)
    BY <1>6, TryInv, DialInv, RpcFailsInv, RpcAnsweredInv, FinishInv DEF TaskStep
  <1>7. CASE BeginRead \/ EndRead \/ GracefulStop \/ MainStep
    BY <1>7, BeginReadInv, EndReadInv, MainInv, CloseInv DEF MainStep
  <1>8. CASE \E p \in Peer : VoteDials(p) \/ VoteFails(p)
    BY <1>8, VoteInv
  <1>9. CASE UNCHANGED vars
    BY <1>9, StutterInv
  <1> QED
    BY <1>1, <1>2, <1>3, <1>4, <1>5, <1>6, <1>7, <1>8, <1>9 DEF Next, ElectionStep

\* The invariant holds in every state of every execution.
LEMMA Invariant == Spec => []IInv
  BY InitInv, NextInv, PTL DEF Spec

-----------------------------------------------------------------------------
(* What it says.                                                           *)

\* Every variable has its type.
THEOREM TypeSafety == Spec => []TypeOK
  <1>1. IInv => TypeOK
    BY DEF IInv
  <1> QED
    BY <1>1, Invariant, PTL

\* No slot of replicateAllOnce and acquirePeerReplication is ever lost.
THEOREM SlotsAreHeld == Spec => []SlotHeld
  <1>1. IInv => SlotHeld
    BY DEF IInv
  <1> QED
    BY <1>1, Invariant, PTL

\* Two goroutines send to one peer only after becomeLeader reset a held slot.
THEOREM SendersAreAlone == Spec => []OneSender
  <1>1. ASSUME IInv PROVE OneSender
    <2> SUFFICES ASSUME NEW p \in Peer \ carried PROVE Cardinality(Holders(p)) <= 1
      BY DEF OneSender
    <2>1. CASE Holders(p) = {}
      BY <2>1, FS_EmptySet
    <2>2. CASE Holders(p) # {}
      <3>1. PICK o : o \in Holders(p)
        BY <2>2
      <3>2. \A o1, o2 \in Holders(p) : o1 = o2
        BY <1>1 DEF IInv, SendersExclusive
      <3>3. Holders(p) = {o}
        BY <3>1, <3>2
      <3>4. Cardinality({o}) = 1
        BY FS_Singleton, Zenon
      <3> QED
        BY <3>3, <3>4
    <2> QED
      BY <2>1, <2>2
  <1> QED
    BY <1>1, Invariant, PTL

\* connFor and dropConn never lose track of an open connection.
THEOREM ConnectionsArePooled == Spec => []OpenIsPooled
  <1>1. IInv => OpenIsPooled
    BY DEF IInv
  <1> QED
    BY <1>1, Invariant, PTL

\* After Stop has returned no round of a loop and no goroutine of one is left.
THEOREM StopIsFinal == Spec => []OnlyReadsOutliveStop
  <1>1. ASSUME IInv PROVE OnlyReadsOutliveStop
    BY <1>1 DEF IInv, LoopsOrdered, OnlyReadsOutliveStop, Running
  <1> QED
    BY <1>1, Invariant, PTL
=============================================================================
