-------------------------- MODULE SnapshotTransfer --------------------------
(***************************************************************************)
(* A snapshot sent in chunks: sendSnapshot of the leaders, and             *)
(* HandleInstallSnapshot of one follower with its partly received          *)
(* snapshot (internal/raft/node.go).                                       *)
(*                                                                         *)
(* Goroutines of several terms may send at once: a goroutine outlives the  *)
(* leadership it was started in, and becomeLeader hands its slot to        *)
(* another.  A call that was given up may still reach the follower.  The   *)
(* follower is one that was cut off while its cluster went through the     *)
(* terms and took the snapshots.  The snapshot at an index is the same on  *)
(* every node, so its index stands for the pair of index and term; byte k  *)
(* of snapshot x is <<x, k>>.                                              *)
(***************************************************************************)
EXTENDS Naturals, Sequences, FiniteSets

CONSTANTS
  Sender,    \* goroutines that may be in sendSnapshot
  LeaderOf,  \* the node that leads each term, a sequence
  Size,      \* the length of each snapshot, a sequence
  ChunkSize, \* snapshotChunkBytes
  None,
  MaxCalls,  \* bound: calls of sendSnapshot before the cluster is calm
  MaxFaults  \* bound: failed writes and crashes of the follower

ASSUME SizeAssumption == Size \in Seq(Nat \ {0}) /\ Len(Size) > 0 /\ ChunkSize \in Nat \ {0}
ASSUME LeaderOfAssumption == Len(LeaderOf) \in Nat \ {0}
ASSUME BoundAssumption == MaxCalls \in Nat /\ MaxFaults \in Nat

Snapshot == 1..Len(Size)
Term     == 1..Len(LeaderOf)

Newest   == Len(Size)
LastTerm == Len(LeaderOf)

Body(x) == [k \in 1..Size[x] |-> <<x, k>>]

VARIABLES
  calm, calls, faults,   \* calm: no more faults, timeouts or calls of old leaders
  sender,                \* the locals of the goroutines
  net,                   \* requests on their way
  fterm, commit,         \* the follower: currentTerm, commitIndex
  fatal,                 \* storageFatal, with what a restart will find on disk
  pending,               \* pendingSnapshot
  installing,            \* the request whose last chunk is complete, decoded
  restored               \* what the state machine was last restored from

clusterVars  == <<calm, calls>>
followerVars == <<fterm, commit, fatal, pending, installing, restored, faults>>
vars == <<clusterVars, followerVars, sender, net>>

\* The locals of a goroutine in state pc, at the start of a call.
Locals(pc, call, t, x) ==
  [pc |-> pc, call |-> call, term |-> t, snap |-> x, offset |-> 0, resp |-> None]

Idle    == Locals("idle", 0, 0, 0)
Done(x) == Locals("done", 0, 0, x)

Init ==
  /\ calm = FALSE /\ calls = 0 /\ faults = 0
  /\ sender = [s \in Sender |-> Idle]
  /\ net = {}
  /\ fterm = 0 /\ commit = 0 /\ fatal = None
  /\ pending = None /\ installing = None /\ restored = None

-----------------------------------------------------------------------------
(* The leaders.                                                            *)

\* The end of the chunk at the offset of a goroutine with locals l.
End(l) == IF l.offset + ChunkSize > Size[l.snap] THEN Size[l.snap] ELSE l.offset + ChunkSize

Last(l) == End(l) = Size[l.snap]

Request(s, l) ==
  [by |-> s, call |-> l.call, leader |-> LeaderOf[l.term], term |-> l.term,
   snap |-> l.snap, offset |-> l.offset,
   data |-> SubSeq(Body(l.snap), l.offset + 1, End(l)), done |-> Last(l)]

\* Goroutine s continues with locals l: unless the call is over it sends a chunk.
Continue(s, l) ==
  /\ sender' = [sender EXCEPT ![s] = l]
  /\ net' = IF l.pc = "wait" THEN net \cup {Request(s, l)} ELSE net

\* replicateToPeer finds that the follower needs the snapshot.  Once it is calm
\* one goroutine of the leader calls it, at every heartbeat until it succeeds.
Start(s) ==
  /\ sender[s].pc # "wait"
  /\ \E t \in Term, x \in Snapshot :
       /\ \/ ~calm /\ calls < MaxCalls /\ calls' = calls + 1
          \/ /\ calm /\ t = LastTerm /\ x = Newest /\ commit < x /\ UNCHANGED calls
             /\ \A r \in Sender : sender[r].pc # "wait"
       /\ Continue(s, Locals("wait", calls', t, x))
  /\ UNCHANGED <<calm, followerVars>>

\* The locals after a response that asks for another offset: the same one again
\* ends the call, unless it is that of the last chunk.
Resume(l) ==
  IF (l.resp.bytes = l.offset /\ ~Last(l)) \/ l.resp.bytes > Size[l.snap]
  THEN Idle
  ELSE [l EXCEPT !.offset = l.resp.bytes, !.resp = None]

\* Mutant: any acknowledgement ends the call.
AdvanceEarly(l) ==
  IF ~l.resp.success THEN Resume(l) ELSE Done(l.snap)

\* The locals after a response in a term that is still the leader's.
Advance(l) ==
  IF ~l.resp.success THEN Resume(l)
  ELSE IF Last(l) THEN Done(l.snap)
  ELSE [l EXCEPT !.offset = End(l), !.resp = None]

\* A response arrives: the leader may have a higher term by now, from it or
\* from elsewhere.
Receive(s) ==
  /\ sender[s].pc = "wait" /\ sender[s].resp # None
  /\ \/ /\ LastTerm > sender[s].term
        /\ Continue(s, Idle)
     \/ /\ sender[s].resp.term <= sender[s].term
        /\ Continue(s, Advance(sender[s]))
  /\ UNCHANGED <<clusterVars, followerVars>>

\* Mutant: the RPC has no deadline.
GiveUpAnswered(s) ==
  /\ sender[s].pc = "wait" /\ sender[s].resp # None
  /\ ~calm
  /\ sender' = [sender EXCEPT ![s] = Idle]
  /\ UNCHANGED <<clusterVars, followerVars, net>>

\* The RPC fails or the context ends; the request may still be on its way.  On a
\* working network a call fails only when the follower went down with it.
GiveUp(s) ==
  /\ sender[s].pc = "wait"
  /\ ~calm \/ (sender[s].resp = None /\ Request(s, sender[s]) \notin net)
  /\ sender' = [sender EXCEPT ![s] = Idle]
  /\ UNCHANGED <<clusterVars, followerVars, net>>

\* From here on there is one leader, one snapshot and a working network, and
\* the follower is in service.
BecomeCalm ==
  /\ ~calm /\ fatal = None
  /\ calm' = TRUE
  /\ UNCHANGED <<calls, followerVars, sender, net>>

-----------------------------------------------------------------------------
(* The follower.                                                           *)

\* req is answered and off the network; the goroutine may not wait for it any
\* more, or wait for the answer to a later one.
Reply(req, success, bytes, t) ==
  /\ net' = net \ {req}
  /\ sender' = [sender EXCEPT ![req.by] =
       IF @.pc = "wait" /\ @.resp = None /\ req = Request(req.by, @)
       THEN [@ EXCEPT !.resp = [success |-> success, bytes |-> bytes, term |-> t]]
       ELSE @]

\* Mutant: the snapshot's index is not compared.
ContinuesAny(req) == pending # None /\ pending.leader = req.leader

\* Is req a chunk of the snapshot that is being received?
Continues(req) ==
  pending # None /\ pending.leader = req.leader /\ pending.snap = req.snap

\* What has been received of the snapshot that req belongs to.
Buffer(req) == IF Continues(req) THEN pending.buffer ELSE <<>>

\* A chunk that is refused: the node is out of service or in a later term.
Refuse(req) ==
  /\ fatal # None \/ req.term < fterm
  /\ Reply(req, FALSE, 0, fterm)
  /\ UNCHANGED followerVars

\* The entries of the snapshot are already committed here.
AckStale(req) ==
  /\ fatal = None /\ req.term >= fterm
  /\ req.snap <= commit
  /\ fterm' = req.term /\ pending' = None
  /\ Reply(req, TRUE, 0, req.term)
  /\ UNCHANGED <<commit, fatal, installing, restored, faults>>

\* Mutants: a chunk is taken at any offset, or by where it ends.
OffsetFitsAny(req) == Continues(req) \/ req.offset = 0
OffsetFitsEnd(req) == req.offset + Len(req.data) = Len(Buffer(req))

\* Is req the chunk that comes next?
OffsetFits(req) == req.offset = Len(Buffer(req))

\* The chunk is not the next one: tell the leader which is.
RefuseOffset(req) ==
  /\ fatal = None /\ req.term >= fterm
  /\ req.snap > commit /\ ~OffsetFits(req)
  /\ fterm' = req.term
  /\ Reply(req, FALSE, Len(Buffer(req)), req.term)
  /\ UNCHANGED <<commit, fatal, pending, installing, restored, faults>>

\* The next chunk; after the last one the lock is released to decode it.
TakeChunk(req) ==
  /\ fatal = None /\ req.term >= fterm
  /\ req.snap > commit /\ OffsetFits(req)
  /\ fterm' = req.term
  /\ pending' = [leader |-> req.leader, snap |-> req.snap,
                 buffer |-> Buffer(req) \o req.data]
  /\ IF req.done
     THEN installing' = req /\ UNCHANGED <<net, sender>>
     ELSE /\ Reply(req, TRUE, Len(pending'.buffer), req.term)
          /\ UNCHANGED installing
  /\ UNCHANGED <<commit, fatal, restored, faults>>

OnDisk(t, c, r) == [term |-> t, commit |-> c, restored |-> r]

\* becomeFollowerLocked cannot save the new term, or so it is told: the node
\* fails closed.
FailTerm(req) ==
  /\ fatal = None /\ req.term > fterm
  /\ ~calm /\ faults < MaxFaults /\ faults' = faults + 1
  /\ fterm' = req.term /\ pending' = None
  /\ fatal' \in {OnDisk(t, commit, restored) : t \in {fterm, req.term}}
  /\ Reply(req, FALSE, 0, req.term)
  /\ UNCHANGED <<commit, installing, restored>>

\* HandleInstallSnapshot up to the decoding, one request at a time
\* (snapshotPersistMu).
HandleChunk(req) ==
  /\ installing = None
  /\ Refuse(req) \/ AckStale(req) \/ RefuseOffset(req) \/ TakeChunk(req)
     \/ FailTerm(req)
  /\ UNCHANGED clusterVars

Collected(req) == [snap |-> req.snap, body |-> pending.buffer]

\* The rest of HandleInstallSnapshot, with everything looked at again: install
\* the buffer, or drop it.  A store call that fails may come before or after the
\* snapshot file is in place.
Install ==
  /\ installing # None
  /\ installing' = None
  /\ pending' = None
  /\ \/ /\ fatal = None /\ installing.term >= fterm
        /\ fterm' = installing.term
        /\ IF installing.snap <= commit
           THEN Reply(installing, TRUE, 0, installing.term) /\ UNCHANGED <<commit, restored>>
           ELSE /\ commit' = installing.snap
                /\ restored' = Collected(installing)
                /\ Reply(installing, TRUE, Len(pending.buffer), installing.term)
        /\ UNCHANGED <<fatal, faults>>
     \/ /\ fatal # None \/ installing.term < fterm
        /\ Reply(installing, FALSE, 0, fterm)
        /\ UNCHANGED <<fterm, commit, fatal, restored, faults>>
     \/ /\ fatal = None /\ installing.term >= fterm /\ installing.snap > commit
        /\ ~calm /\ faults < MaxFaults /\ faults' = faults + 1
        /\ fterm' = installing.term
        /\ fatal' \in {OnDisk(fterm', commit, restored),
                       OnDisk(fterm', installing.snap, Collected(installing))}
        /\ Reply(installing, FALSE, 0, installing.term)
        /\ UNCHANGED <<commit, restored>>
  /\ UNCHANGED clusterVars

\* Meanwhile the other handlers move the term and the commit index.
HandleOther ==
  /\ ~calm /\ fatal = None
  /\ \/ fterm < LastTerm /\ fterm' = LastTerm /\ UNCHANGED commit
     \/ commit < Newest /\ commit' = commit + 1 /\ UNCHANGED fterm
  /\ UNCHANGED <<clusterVars, fatal, pending, installing, restored, faults, sender, net>>

\* A crash and NewNode: the partly received snapshot is gone, and after a failed
\* write memory is what the disk holds.
Restart ==
  /\ ~calm
  /\ \/ /\ fatal = None /\ faults < MaxFaults /\ faults' = faults + 1
        /\ UNCHANGED <<fterm, commit, restored>>
     \/ /\ fatal # None
        /\ fterm' = fatal.term /\ commit' = fatal.commit /\ restored' = fatal.restored
        /\ UNCHANGED faults
  /\ fatal' = None /\ pending' = None /\ installing' = None
  /\ net' = IF installing = None THEN net ELSE net \ {installing}
  /\ UNCHANGED <<clusterVars, sender>>

-----------------------------------------------------------------------------
Handles == (\E req \in net : HandleChunk(req)) \/ Install

Next ==
  \/ \E s \in Sender : Start(s) \/ Receive(s) \/ GiveUp(s)
  \/ Handles
  \/ BecomeCalm \/ HandleOther \/ Restart

\* Goroutines run, requests arrive and are handled; calls have a deadline.
Fairness ==
  /\ \A s \in Sender : WF_vars(Start(s)) /\ WF_vars(Receive(s)) /\ WF_vars(GiveUp(s))
  /\ WF_vars(Handles)

Spec == Init /\ [][Next]_vars /\ Fairness

-----------------------------------------------------------------------------
(* Properties.                                                             *)

\* Every variable has its type, and a goroutine that sends is within its snapshot.
TypeOK ==
  /\ calm \in BOOLEAN /\ calls \in 0..MaxCalls /\ faults \in 0..MaxFaults
  /\ sender \in [Sender -> [pc : {"idle", "wait", "done"}, call : Nat, term : Nat, snap : Nat,
                            offset : Nat,
                            resp : {None} \cup [success : BOOLEAN, bytes : Nat, term : Nat]]]
  /\ \A s \in Sender :
       sender[s].pc = "wait" => /\ sender[s].term \in Term /\ sender[s].snap \in Snapshot
                               /\ sender[s].offset <= Size[sender[s].snap]
  /\ fterm \in Nat /\ commit \in Nat
  /\ fatal # None => fatal.term \in Nat /\ fatal.commit \in Nat

\* The bytes received so far are the beginning of the snapshot that they are
\* taken for, whatever the order in which chunks of several goroutines, terms
\* and snapshots arrive.
BufferIsPrefix ==
  pending # None =>
    /\ Len(pending.buffer) <= Size[pending.snap]
    /\ pending.buffer = SubSeq(Body(pending.snap), 1, Len(pending.buffer))

\* The state machine is only ever restored from the whole of a snapshot.
RestoredWhole == restored # None => restored.body = Body(restored.snap)

\* A goroutine whose sendSnapshot returned true, which raises matchIndex, has
\* the follower hold the snapshot, although acknowledgements are given for
\* chunks, in two critical sections and across restarts.
AcknowledgedHeld ==
  \A s \in Sender : sender[s].pc = "done" => commit >= sender[s].snap

\* A call of sendSnapshot ends.
SendEnds == \A s \in Sender : sender[s].pc = "wait" ~> sender[s].pc # "wait"

\* Whatever is left of earlier transfers, one leader on a working network gets
\* its snapshot installed.
CalmInstalls == calm ~> commit >= Newest
=============================================================================
