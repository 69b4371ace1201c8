----------------------- MODULE SnapshotTransferProofs -----------------------
(***************************************************************************)
(* Proofs about SnapshotTransfer: what the follower has received, restored *)
(* and acknowledged, for every number of goroutines, terms, snapshots and  *)
(* faults, every snapshot size and every chunk size.                       *)
(***************************************************************************)
EXTENDS SnapshotTransfer, SequenceTheorems, TLAPS

Response == [success : BOOLEAN, bytes : Nat, term : Nat]

LocalsType == [pc : {"idle", "wait", "done"}, call : Nat, term : Nat, snap : Nat,
               offset : Nat, resp : {None} \cup Response]

\* Locals of a goroutine that may send its next chunk.
Sends(l) == /\ l.pc = "wait" /\ l.term \in Term /\ l.snap \in Snapshot
            /\ l.offset <= Size[l.snap]

\* The data of a request are the bytes of its snapshot from its offset on.
Chunk(req) ==
  /\ req.by \in Sender /\ req.term \in Nat
  /\ req.snap \in Snapshot /\ req.offset \in Nat
  /\ \E e \in req.offset..Size[req.snap] :
       /\ req.data = SubSeq(Body(req.snap), req.offset + 1, e)
       /\ req.done <=> e = Size[req.snap]

\* The requests are chunks; one that is being installed has filled the buffer.
ChunksSent ==
  /\ \A req \in net : Chunk(req)
  /\ installing # None => /\ Chunk(installing)
                          /\ pending.snap = installing.snap
                          /\ pending.buffer = Body(installing.snap)

\* The buffer is a beginning of the snapshot it is taken for.
BufferOf(b, x) == \E k \in 0..Size[x] : b = SubSeq(Body(x), 1, k) /\ Len(b) = k

Received == pending # None => pending.snap \in Snapshot /\ BufferOf(pending.buffer, pending.snap)

\* An acknowledgement of the last chunk is as good as the end of the call.
Acked(l) == \/ l.pc = "wait" /\ l.resp # None /\ l.resp.success /\ Last(l)
            \/ l.pc = "done"

Acknowledged == \A s \in Sender : Acked(sender[s]) => commit >= sender[s].snap

\* What a node that failed closed has on disk: nothing it acknowledged is missing.
DiskOK ==
  fatal # None =>
    /\ fatal.term \in Nat /\ fatal.commit \in Nat /\ fatal.commit >= commit
    /\ fatal.restored # None => fatal.restored.body = Body(fatal.restored.snap)

IInv == TypeOK /\ ChunksSent /\ Received /\ RestoredWhole /\ DiskOK /\ Acknowledged

-----------------------------------------------------------------------------
(* Bytes.                                                                  *)

LEMMA BodyType ==
  ASSUME NEW x \in Snapshot
  PROVE  /\ Size[x] \in Nat \ {0}
         /\ Body(x) \in Seq({x} \X Nat) /\ Len(Body(x)) = Size[x]
         /\ SubSeq(Body(x), 1, Size[x]) = Body(x)
  <1>1. Size[x] \in Nat \ {0}
    BY SizeAssumption DEF Snapshot
  <1>2. Body(x) \in [1..Size[x] -> {x} \X Nat]
    BY <1>1 DEF Body
  <1>3. Body(x) \in Seq({x} \X Nat) /\ Len(Body(x)) = Size[x]
    BY <1>1, <1>2
  <1>4. SubSeq(Body(x), 1, Len(Body(x))) = Body(x)
    BY <1>3, SubSeqFull
  <1> QED
    BY <1>1, <1>3, <1>4

\* The chunk that comes next makes a longer beginning.
LEMMA AppendChunk ==
  ASSUME NEW x \in Snapshot, NEW k \in 0..Size[x], NEW e \in k..Size[x]
  PROVE  /\ SubSeq(Body(x), 1, k) \o SubSeq(Body(x), k + 1, e) = SubSeq(Body(x), 1, e)
         /\ Len(SubSeq(Body(x), 1, e)) = e
  <1>1. Size[x] \in Nat /\ Body(x) \in Seq({x} \X Nat) /\ Len(Body(x)) = Size[x]
    BY BodyType
  <1>2. 1 \in 1..(Len(Body(x)) + 1) /\ k \in (1 - 1)..Len(Body(x)) /\ e \in k..Len(Body(x))
    BY <1>1
  <1>3. SubSeq(Body(x), 1, k) \o SubSeq(Body(x), k + 1, e) = SubSeq(Body(x), 1, e)
    BY <1>1, <1>2, ConcatAdjacentSubSeq
  <1>4. e \in Int /\ e >= 0 /\ \A i \in 1..e : Body(x)[i] \in {x} \X Nat
    BY <1>1
  <1>5. Len(SubSeq(Body(x), 1, e)) = IF 1 <= e THEN e - 1 + 1 ELSE 0
    BY <1>4, SubSeqProperties
  <1> QED
    BY <1>3, <1>4, <1>5

\* sendSnapshot sends chunks.
LEMMA RequestIsChunk ==
  ASSUME NEW s \in Sender, NEW l \in LocalsType, Sends(l)
  PROVE  Chunk(Request(s, l))
  <1>1. Size[l.snap] \in Nat /\ l.offset \in Nat /\ ChunkSize \in Nat
    BY BodyType, SizeAssumption DEF LocalsType, Sends
  <1>2. End(l) \in l.offset..Size[l.snap]
    BY <1>1 DEF End, Sends
  <1> DEFINE r == Request(s, l)
  <1>3. /\ r.by = s /\ r.term = l.term /\ r.snap = l.snap /\ r.offset = l.offset
        /\ r.data = SubSeq(Body(l.snap), l.offset + 1, End(l))
        /\ r.done = (End(l) = Size[l.snap])
    BY DEF Request, Last
  <1>4. l.term \in Nat /\ l.snap \in Snapshot
    BY DEF Sends, LocalsType
  <1> HIDE DEF r
  <1>5. Chunk(r)
    BY <1>1, <1>2, <1>3, <1>4 DEF Chunk
  <1> QED
    BY <1>5 DEF r

-----------------------------------------------------------------------------
(* The goroutines.                                                         *)

SendersOK == /\ sender \in [Sender -> LocalsType]
             /\ \A s \in Sender : sender[s].pc = "wait" => Sends(sender[s])

LEMMA TypeParts ==
  TypeOK <=> /\ calm \in BOOLEAN /\ calls \in 0..MaxCalls /\ faults \in 0..MaxFaults
             /\ SendersOK
             /\ fterm \in Nat /\ commit \in Nat
             /\ fatal # None => fatal.term \in Nat /\ fatal.commit \in Nat
  BY DEF TypeOK, SendersOK, LocalsType, Response, Sends

\* A response reaches at most the goroutine that waits for it; an acknowledged
\* last chunk must be held by then.
LEMMA ReplyKeeps ==
  ASSUME IInv, NEW req, Chunk(req), NEW ok \in BOOLEAN, NEW b \in Nat, NEW t \in Nat,
         Reply(req, ok, b, t), commit' \in Nat, commit' >= commit,
         ok /\ req.done => commit' >= req.snap
  PROVE  SendersOK' /\ Acknowledged' /\ net' \subseteq net
  <1> DEFINE o == req.by
             l == sender[o]
             hit == l.pc = "wait" /\ l.resp = None /\ req = Request(o, l)
             resp == [success |-> ok, bytes |-> b, term |-> t]
  <1>0. o \in Sender /\ SendersOK /\ commit \in Nat
    BY TypeParts DEF IInv, Chunk
  <1>1. net' \subseteq net /\ resp \in Response
    BY DEF Reply, Response
  <1>2. sender' = [sender EXCEPT ![o] = IF hit THEN [l EXCEPT !.resp = resp] ELSE l]
    BY <1>0 DEF Reply, SendersOK
  <1>3. l \in LocalsType
    BY <1>0 DEF SendersOK
  <1>4. CASE ~hit
    <2>1. sender' = sender
      BY <1>0, <1>2, <1>4 DEF SendersOK
    <2>2. \A s \in Sender : sender[s].snap \in Nat
      BY <1>0 DEF SendersOK, LocalsType
    <2>3. \A s \in Sender : commit >= sender[s].snap => commit' >= sender[s].snap
      BY <1>0, <2>2
    <2>4. Acknowledged'
      BY <2>1, <2>3 DEF IInv, Acknowledged, Acked, Last, End
    <2> QED
      BY <1>0, <1>1, <2>1, <2>4 DEF SendersOK, Sends
  <1>5. CASE hit
    <2> DEFINE m == [l EXCEPT !.resp = resp]
    <2>1. /\ m \in LocalsType /\ m.pc = l.pc /\ m.term = l.term /\ m.snap = l.snap
          /\ m.offset = l.offset /\ m.resp = resp
      BY <1>1, <1>3 DEF LocalsType
    <2>2. sender'[o] = m /\ \A s \in Sender \ {o} : sender'[s] = sender[s]
      BY <1>0, <1>2, <1>5 DEF SendersOK
    <2>3. sender' \in [Sender -> LocalsType]
      BY <1>0, <1>2, <1>5, <2>1 DEF SendersOK
    <2>4. Sends(l) /\ Sends(m)
      BY <1>0, <1>5, <2>1 DEF SendersOK, Sends
    <2>5. SendersOK'
      BY <1>0, <2>2, <2>3, <2>4 DEF SendersOK, Sends
    <2>6. req.done = Last(l) /\ req.snap = l.snap /\ Last(m) = Last(l)
      BY <1>5, <2>1 DEF Request, Last, End
    <2>7. Acked(m) => commit' >= m.snap
      <3>1. resp.success = ok /\ m.pc = "wait" /\ m.resp = resp /\ m.snap = l.snap
        BY <1>5, <2>1
      <3> HIDE DEF m, l, resp
      <3> QED
        BY <2>6, <3>1 DEF Acked
    <2>8. Acknowledged'
      <3>0. \A s \in Sender : Acked(sender[s])' <=> Acked(sender'[s])
        BY Zenon DEF Acked, Last, End
      <3> SUFFICES ASSUME NEW s \in Sender
                   PROVE  Acked(sender'[s]) => commit' >= sender'[s].snap
        BY <3>0, Zenon DEF Acknowledged
      <3>1. CASE s = o
        <4> HIDE DEF m
        <4> QED
          BY <2>2, <2>7, <3>1
      <3>2. CASE s # o
        <4>1. sender'[s] = sender[s] /\ sender[s].snap \in Nat
          BY <1>0, <2>2, <3>2 DEF SendersOK, LocalsType
        <4>2. commit >= sender[s].snap => commit' >= sender[s].snap
          BY <1>0, <4>1
        <4> QED
          BY <4>1, <4>2 DEF IInv, Acknowledged
      <3> QED
        BY <3>1, <3>2
    <2> QED
      BY <1>1, <2>5, <2>8
  <1> QED
    BY <1>4, <1>5

\* A goroutine goes on with locals that may send, or ends its call.
LEMMA ContinueKeeps ==
  ASSUME IInv, NEW s \in Sender, NEW l \in LocalsType, Continue(s, l), UNCHANGED commit,
         l.pc = "wait" => Sends(l) /\ l.resp = None,
         l.pc = "done" => commit >= l.snap
  PROVE  SendersOK' /\ Acknowledged' /\ (\A req \in net' : Chunk(req))
  <1>0. SendersOK
    BY TypeParts DEF IInv
  <1>1. /\ sender' \in [Sender -> LocalsType] /\ sender'[s] = l
        /\ \A r \in Sender \ {s} : sender'[r] = sender[r]
    BY <1>0 DEF Continue, SendersOK
  <1>2. SendersOK'
    BY <1>0, <1>1 DEF SendersOK, Sends
  <1>3. Acknowledged'
    BY <1>0, <1>1 DEF IInv, Acknowledged, Acked, Last, End
  <1>4. \A req \in net' : Chunk(req)
    <2>1. l.pc = "wait" => Chunk(Request(s, l))
      BY RequestIsChunk
    <2> QED
      BY <2>1 DEF Continue, IInv, ChunksSent
  <1> QED
    BY <1>2, <1>3, <1>4

\* A step of the goroutines leaves the follower alone.
LEMMA GoroutineInv ==
  ASSUME IInv, NEW s \in Sender, NEW l \in LocalsType, Continue(s, l),
         l.pc = "wait" => Sends(l) /\ l.resp = None,
         l.pc = "done" => commit >= l.snap,
         calls' \in 0..MaxCalls, UNCHANGED <<calm, followerVars>>
  PROVE  IInv'
  <1>1. SendersOK' /\ Acknowledged' /\ (\A req \in net' : Chunk(req))
    BY ContinueKeeps DEF followerVars
  <1>2. TypeOK'
    <2>1. /\ calm' \in BOOLEAN /\ faults' \in 0..MaxFaults
          /\ fterm' \in Nat /\ commit' \in Nat /\ DiskOK'
      BY TypeParts DEF IInv, followerVars, DiskOK, Body
    <2> QED
      BY <1>1, <2>1, TypeParts DEF TypeOK, SendersOK, LocalsType, Response, Sends, DiskOK
  <1>3. ChunksSent'
    BY <1>1 DEF IInv, ChunksSent, Chunk, Body, followerVars
  <1>4. Received' /\ RestoredWhole' /\ DiskOK'
    BY DEF IInv, Body, Received, BufferOf, RestoredWhole, followerVars, DiskOK
  <1> QED
    BY <1>1, <1>2, <1>3, <1>4 DEF IInv

LEMMA LocalsTyped ==
  ASSUME NEW pc \in {"idle", "wait", "done"}, NEW c \in Nat, NEW t \in Nat, NEW x \in Nat
  PROVE  /\ Locals(pc, c, t, x) \in LocalsType
         /\ Locals(pc, c, t, x).pc = pc /\ Locals(pc, c, t, x).term = t
         /\ Locals(pc, c, t, x).snap = x /\ Locals(pc, c, t, x).offset = 0
         /\ Locals(pc, c, t, x).resp = None
  BY DEF Locals, LocalsType

LEMMA StartInv == ASSUME IInv, NEW s \in Sender, Start(s) PROVE IInv'
  <1>1. PICK t \in Term, x \in Snapshot :
          /\ (calls' = calls + 1 /\ calls < MaxCalls) \/ UNCHANGED calls
          /\ Continue(s, Locals("wait", calls', t, x))
    BY DEF Start
  <1>2. calls' \in 0..MaxCalls
    BY <1>1, TypeParts, BoundAssumption DEF IInv
  <1>3. t \in Nat /\ x \in Nat /\ calls' \in Nat
    BY <1>2, SizeAssumption, LeaderOfAssumption, BoundAssumption DEF Term, Snapshot
  <1>6. Size[x] \in Nat
    BY BodyType
  <1> DEFINE l == Locals("wait", calls', t, x)
  <1>4. l \in LocalsType /\ l.pc = "wait" /\ l.resp = None /\ Sends(l)
    BY <1>3, <1>6 DEF Sends, Locals, LocalsType
  <1>5. UNCHANGED <<calm, followerVars>> /\ Continue(s, l)
    BY <1>1 DEF Start
  <1> HIDE DEF l
  <1> QED
    BY <1>2, <1>4, <1>5, GoroutineInv

LEMMA ReceiveInv == ASSUME IInv, NEW s \in Sender, Receive(s) PROVE IInv'
  <1> DEFINE l == sender[s]
  <1>0. SendersOK /\ calls \in 0..MaxCalls /\ UNCHANGED <<calls, calm, followerVars>>
    BY TypeParts DEF IInv, Receive, clusterVars
  <1>1. /\ l \in LocalsType /\ Sends(l) /\ l.resp # None /\ l.resp \in Response
        /\ l.pc = "wait"
    BY <1>0 DEF SendersOK, Receive, LocalsType
  <1>2. Idle \in LocalsType /\ Idle.pc = "idle"
    BY LocalsTyped DEF Idle
  <1>3. /\ Size[l.snap] \in Nat /\ l.offset \in Nat /\ ChunkSize \in Nat /\ l.snap \in Nat
        /\ l.resp.bytes \in Nat
    BY <1>1, BodyType, SizeAssumption DEF Sends, LocalsType, Response
  <1>4. CASE Continue(s, Idle)
    BY <1>0, <1>2, <1>4, GoroutineInv
  <1>5. CASE Continue(s, Advance(l))
    <2>1. CASE ~l.resp.success /\ Resume(l) = Idle
      BY <1>0, <1>2, <1>5, <2>1, GoroutineInv DEF Advance
    <2>2. CASE /\ ~l.resp.success /\ l.resp.bytes <= Size[l.snap]
               /\ Resume(l) = [l EXCEPT !.offset = l.resp.bytes, !.resp = None]
      <3> DEFINE m == [l EXCEPT !.offset = l.resp.bytes, !.resp = None]
      <3>1. m \in LocalsType /\ m.pc = "wait" /\ m.resp = None /\ Sends(m)
        BY <1>1, <1>3, <2>2 DEF LocalsType, Sends
      <3>2. Continue(s, m)
        BY <1>5, <2>2 DEF Advance
      <3> HIDE DEF m
      <3> QED
        BY <1>0, <3>1, <3>2, GoroutineInv
    <2>3. CASE l.resp.success /\ Last(l)
      <3>1. /\ Done(l.snap) \in LocalsType /\ Done(l.snap).pc = "done"
            /\ Done(l.snap).snap = l.snap
        BY <1>3 DEF Done, Locals, LocalsType
      <3>2. Continue(s, Done(l.snap))
        BY <1>5, <2>3 DEF Advance
      <3>3. commit >= l.snap
        BY <1>1, <2>3 DEF IInv, Acknowledged, Acked
      <3> QED
        BY <1>0, <3>1, <3>2, <3>3, GoroutineInv
    <2>4. CASE l.resp.success /\ ~Last(l)
      <3> DEFINE m == [l EXCEPT !.offset = End(l), !.resp = None]
      <3>1. End(l) \in Nat /\ End(l) <= Size[l.snap]
        BY <1>3 DEF End
      <3>2. m \in LocalsType /\ m.pc = "wait" /\ m.resp = None /\ Sends(m)
        BY <1>1, <3>1 DEF LocalsType, Sends
      <3>3. Continue(s, m)
        BY <1>5, <2>4 DEF Advance
      <3> HIDE DEF m
      <3> QED
        BY <1>0, <3>2, <3>3, GoroutineInv
    <2>5. l.resp.success \in BOOLEAN
      BY <1>1 DEF Response
    <2>6. \/ Resume(l) = Idle
          \/ /\ l.resp.bytes <= Size[l.snap]
             /\ Resume(l) = [l EXCEPT !.offset = l.resp.bytes, !.resp = None]
      BY <1>3 DEF Resume
    <2> QED
      BY <2>1, <2>2, <2>3, <2>4, <2>5, <2>6
  <1> QED
    BY <1>4, <1>5 DEF Receive

LEMMA GiveUpInv == ASSUME IInv, NEW s \in Sender, GiveUp(s) PROVE IInv'
  <1>1. Idle \in LocalsType /\ Idle.pc = "idle"
    BY LocalsTyped DEF Idle
  <1>2. Continue(s, Idle)
    BY <1>1 DEF GiveUp, Continue
  <1>3. calls' \in 0..MaxCalls /\ UNCHANGED <<calm, followerVars>>
    BY TypeParts DEF IInv, GiveUp, clusterVars
  <1> QED
    BY <1>1, <1>2, <1>3, GoroutineInv

-----------------------------------------------------------------------------
(* The follower's steps.                                                   *)

LEMMA ChunkTerm ==
  ASSUME ChunksSent, NEW req, req \in net \/ (installing # None /\ req = installing)
  PROVE  Chunk(req) /\ req.term \in Nat /\ req.by \in Sender /\ req.snap \in Nat
  <1>1. Chunk(req)
    BY DEF ChunksSent
  <1>2. Snapshot \subseteq Nat
    BY SizeAssumption DEF Snapshot
  <1> QED
    BY <1>1, <1>2 DEF Chunk

\* A step that answers req and drops, or keeps, what has been received.
LEMMA AnswerInv ==
  ASSUME IInv, NEW req, req \in net \/ (installing # None /\ req = installing),
         NEW ok \in BOOLEAN, NEW bytes \in Nat, NEW t \in Nat, Reply(req, ok, bytes, t),
         ok /\ req.done => commit' >= req.snap,
         fterm' \in Nat, commit' \in Nat, commit' >= commit, DiskOK',
         faults' \in 0..MaxFaults, UNCHANGED clusterVars,
         pending' = None \/ UNCHANGED pending,
         installing' = None, RestoredWhole'
  PROVE  IInv'
  <1>1. SendersOK' /\ Acknowledged' /\ net' \subseteq net
    BY ChunkTerm, ReplyKeeps DEF IInv
  <1>2. calm' \in BOOLEAN /\ calls' \in 0..MaxCalls
    BY TypeParts DEF IInv, clusterVars
  <1>3. TypeOK'
    BY <1>1, <1>2, TypeParts DEF TypeOK, SendersOK, LocalsType, Response, Sends, DiskOK
  <1>4. ChunksSent'
    BY <1>1 DEF IInv, ChunksSent, Chunk, Body
  <1>5. Received'
    BY DEF IInv, Received, BufferOf, Body
  <1> QED
    BY <1>1, <1>3, <1>4, <1>5 DEF IInv

LEMMA RefuseInv ==
  ASSUME IInv, NEW req \in net, installing = None, Refuse(req), UNCHANGED clusterVars
  PROVE  IInv'
  <1>1. fterm \in Nat /\ commit \in Nat /\ DiskOK /\ faults \in 0..MaxFaults
    BY TypeParts DEF IInv
  <1>2. RestoredWhole' /\ DiskOK'
    BY DEF IInv, Refuse, followerVars, RestoredWhole, Body, DiskOK
  <1>3. Reply(req, FALSE, 0, fterm) /\ UNCHANGED followerVars
    BY DEF Refuse
  <1>4. /\ fterm' \in Nat /\ commit' \in Nat /\ commit' >= commit
        /\ faults' \in 0..MaxFaults /\ (pending' = None \/ UNCHANGED pending)
        /\ installing' = None
    BY <1>1, <1>3 DEF followerVars
  <1> QED
    BY <1>1, <1>2, <1>3, <1>4, AnswerInv

LEMMA AckStaleInv ==
  ASSUME IInv, NEW req \in net, installing = None, AckStale(req), UNCHANGED clusterVars
  PROVE  IInv'
  <1>1. fterm \in Nat /\ commit \in Nat /\ DiskOK /\ faults \in 0..MaxFaults
    BY TypeParts DEF IInv
  <1>2. RestoredWhole' /\ DiskOK'
    BY DEF IInv, AckStale, RestoredWhole, Body, DiskOK
  <1>3. req.term \in Nat /\ req.snap \in Nat
    BY ChunkTerm DEF IInv
  <1>4. /\ Reply(req, TRUE, 0, req.term) /\ commit' >= req.snap /\ pending' = None
        /\ UNCHANGED <<commit, fatal, installing, faults>> /\ fterm' = req.term
    BY <1>1, <1>3 DEF AckStale
  <1>5. /\ fterm' \in Nat /\ commit' \in Nat /\ commit' >= commit
        /\ faults' \in 0..MaxFaults /\ (pending' = None \/ UNCHANGED pending)
        /\ installing' = None
    BY <1>1, <1>3, <1>4
  <1> QED
    BY <1>2, <1>3, <1>4, <1>5, AnswerInv

LEMMA RefuseOffsetInv ==
  ASSUME IInv, NEW req \in net, installing = None, RefuseOffset(req), UNCHANGED clusterVars
  PROVE  IInv'
  <1>1. fterm \in Nat /\ commit \in Nat /\ DiskOK /\ faults \in 0..MaxFaults
    BY TypeParts DEF IInv
  <1>2. RestoredWhole' /\ DiskOK'
    BY DEF IInv, RefuseOffset, RestoredWhole, Body, DiskOK
  <1>3. req.term \in Nat
    BY ChunkTerm DEF IInv
  <1>4. Len(Buffer(req)) \in Nat
    BY BodyType DEF Buffer, IInv, Received, BufferOf, Continues
  <1>5. /\ Reply(req, FALSE, Len(Buffer(req)), req.term) /\ fterm' = req.term
        /\ UNCHANGED <<commit, fatal, pending, installing, faults>>
    BY DEF RefuseOffset
  <1>6. /\ fterm' \in Nat /\ commit' \in Nat /\ commit' >= commit
        /\ faults' \in 0..MaxFaults /\ (pending' = None \/ UNCHANGED pending)
        /\ installing' = None
    BY <1>1, <1>3, <1>5
  <1> QED
    BY <1>2, <1>3, <1>4, <1>5, <1>6, AnswerInv

LEMMA FailTermInv ==
  ASSUME IInv, NEW req \in net, installing = None, FailTerm(req), UNCHANGED clusterVars
  PROVE  IInv'
  <1>1. fterm \in Nat /\ commit \in Nat /\ faults \in 0..MaxFaults
    BY TypeParts DEF IInv
  <1>2. faults' \in 0..MaxFaults /\ req.term \in Nat
    BY <1>1, ChunkTerm, BoundAssumption DEF FailTerm, IInv
  <1>3. /\ Reply(req, FALSE, 0, req.term) /\ fterm' = req.term /\ pending' = None
        /\ UNCHANGED <<commit, installing, restored>>
        /\ \E t \in {fterm, req.term} : fatal' = OnDisk(t, commit, restored)
    BY DEF FailTerm
  <1>4. RestoredWhole' /\ DiskOK'
    BY <1>1, <1>2, <1>3 DEF IInv, OnDisk, RestoredWhole, Body, DiskOK
  <1>5. /\ fterm' \in Nat /\ commit' \in Nat /\ commit' >= commit
        /\ faults' \in 0..MaxFaults /\ (pending' = None \/ UNCHANGED pending)
        /\ installing' = None
    BY <1>1, <1>2, <1>3
  <1> QED
    BY <1>2, <1>3, <1>4, <1>5, AnswerInv

\* The next chunk makes a longer beginning of the same snapshot; after the last
\* one it is the whole snapshot.
LEMMA BufferGrows ==
  ASSUME IInv, NEW req, Chunk(req), OffsetFits(req)
  PROVE  /\ BufferOf(Buffer(req) \o req.data, req.snap)
         /\ Len(Buffer(req) \o req.data) \in Nat
         /\ req.done => Buffer(req) \o req.data = Body(req.snap)
  <1> DEFINE x == req.snap
  <1>1. x \in Snapshot /\ Size[x] \in Nat /\ req.offset \in Nat
    BY BodyType DEF Chunk
  <1>2. PICK e \in req.offset..Size[x] : /\ req.data = SubSeq(Body(x), req.offset + 1, e)
                                         /\ req.done <=> e = Size[x]
    BY DEF Chunk
  <1>3. Buffer(req) = SubSeq(Body(x), 1, req.offset) /\ req.offset \in 0..Size[x]
    <2>1. CASE Continues(req)
      <3>1. BufferOf(pending.buffer, x) /\ req.offset = Len(pending.buffer)
        BY <2>1 DEF IInv, Received, Continues, OffsetFits, Buffer
      <3> QED
        BY <2>1, <3>1 DEF BufferOf, Buffer
    <2>2. CASE ~Continues(req)
      <3>1. Buffer(req) = <<>> /\ req.offset = 0
        BY <2>2 DEF OffsetFits, Buffer
      <3>2. SubSeq(Body(x), 1, 0) = <<>>
        BY <1>1, BodyType, SubSeqEmpty
      <3> QED
        BY <1>1, <3>1, <3>2
    <2> QED
      BY <2>1, <2>2
  <1>4. /\ Buffer(req) \o req.data = SubSeq(Body(x), 1, e)
        /\ Len(Buffer(req) \o req.data) = e
    <2>1. /\ SubSeq(Body(x), 1, req.offset) \o SubSeq(Body(x), req.offset + 1, e)
             = SubSeq(Body(x), 1, e)
          /\ Len(SubSeq(Body(x), 1, e)) = e
      BY <1>1, <1>3, AppendChunk
    <2> QED
      BY <1>2, <1>3, <2>1
  <1>5. e \in 0..Size[x]
    BY <1>1, <1>2
  <1>6. req.done => Buffer(req) \o req.data = Body(x)
    BY <1>1, <1>2, <1>4, BodyType
  <1> QED
    BY <1>4, <1>5, <1>6 DEF BufferOf

LEMMA TakeChunkInv ==
  ASSUME IInv, NEW req \in net, installing = None, TakeChunk(req), UNCHANGED clusterVars
  PROVE  IInv'
  <1> DEFINE b == Buffer(req) \o req.data
  <1>1. fterm \in Nat /\ commit \in Nat /\ DiskOK /\ faults \in 0..MaxFaults
    BY TypeParts DEF IInv
  <1>2. Chunk(req) /\ req.term \in Nat /\ req.snap \in Snapshot
    BY ChunkTerm DEF IInv, Chunk
  <1>3. /\ BufferOf(b, req.snap) /\ Len(b) \in Nat
        /\ req.done => b = Body(req.snap)
    BY <1>2, BufferGrows DEF TakeChunk
  <1>4. /\ pending' = [leader |-> req.leader, snap |-> req.snap, buffer |-> b]
        /\ pending'.snap = req.snap /\ pending'.buffer = b
        /\ UNCHANGED <<commit, fatal, restored, faults>> /\ fterm' = req.term
    BY DEF TakeChunk
  <1> HIDE DEF b
  <1>5. Received'
    <2>1. (BufferOf(b, req.snap))
      BY <1>3
    <2>2. \E k \in 0..Size[req.snap] : b = SubSeq([i \in 1..Size[req.snap] |-> <<req.snap, i>>], 1, k)
                                       /\ Len(b) = k
      BY <2>1 DEF BufferOf, Body
    <2> QED
      BY <1>2, <1>4, <2>2 DEF Received, BufferOf, Body
  <1>6. RestoredWhole' /\ DiskOK'
    BY <1>4 DEF IInv, RestoredWhole, Body, DiskOK
  <1>7. calm' \in BOOLEAN /\ calls' \in 0..MaxCalls
    BY TypeParts DEF IInv, clusterVars
  <1>8. SendersOK' /\ Acknowledged' /\ net' \subseteq net
    <2>1. CASE req.done
      <3>1. UNCHANGED <<net, sender>>
        BY <2>1 DEF TakeChunk
      <3>2. SendersOK /\ Acknowledged
        BY TypeParts DEF IInv
      <3> QED
        BY <1>4, <3>1, <3>2 DEF SendersOK, Acknowledged, Acked, Last, End, Sends
    <2>2. CASE ~req.done
      <3>1. Reply(req, TRUE, Len(b), req.term)
        BY <1>4, <2>2 DEF TakeChunk
      <3>2. commit' \in Nat /\ commit' >= commit
        BY <1>1, <1>4
      <3> QED
        BY <1>2, <1>3, <2>2, <3>1, <3>2, ReplyKeeps
    <2> QED
      BY <2>1, <2>2
  <1>9. TypeOK'
    BY <1>1, <1>2, <1>4, <1>6, <1>7, <1>8, TypeParts
       DEF TypeOK, SendersOK, LocalsType, Response, Sends, DiskOK
  <1>10. ChunksSent'
    <2>1. \A q \in net' : Chunk(q)
      BY <1>8 DEF IInv, ChunksSent
    <2>2. installing' = None \/ (req.done /\ installing' = req)
      BY DEF TakeChunk
    <2>3. req.done => pending'.buffer = Body(req.snap)
      BY <1>3, <1>4
    <2> QED
      BY <1>2, <1>4, <2>1, <2>2, <2>3 DEF ChunksSent, Chunk, Body
  <1> QED
    BY <1>5, <1>6, <1>8, <1>9, <1>10 DEF IInv

LEMMA InstallInv == ASSUME IInv, Install PROVE IInv'
  <1> DEFINE req == installing
  <1>1. /\ fterm \in Nat /\ commit \in Nat /\ DiskOK /\ faults \in 0..MaxFaults
        /\ UNCHANGED clusterVars /\ installing' = None /\ pending' = None
    BY TypeParts DEF IInv, Install
  <1>2. /\ installing # None /\ Chunk(req) /\ req.term \in Nat /\ req.snap \in Snapshot
        /\ req.snap \in Nat /\ pending.buffer = Body(req.snap)
    BY ChunkTerm DEF IInv, Install, Chunk, ChunksSent
  <1>3. RestoredWhole
    BY DEF IInv
  <1>4. CASE /\ fterm' = req.term /\ req.snap <= commit
             /\ Reply(req, TRUE, 0, req.term) /\ UNCHANGED <<commit, restored, fatal, faults>>
    <2>1. RestoredWhole' /\ DiskOK'
      BY <1>1, <1>3, <1>4 DEF RestoredWhole, Body, DiskOK
    <2>2. /\ fterm' \in Nat /\ commit' \in Nat /\ commit' >= commit
          /\ faults' \in 0..MaxFaults /\ commit' >= req.snap
      BY <1>1, <1>2, <1>4
    <2> QED
      BY <1>1, <1>2, <1>4, <2>1, <2>2, AnswerInv
  <1>5. CASE /\ fterm' = req.term /\ ~(req.snap <= commit) /\ commit' = req.snap
             /\ restored' = Collected(req) /\ fatal = None
             /\ Reply(req, TRUE, Len(pending.buffer), req.term) /\ UNCHANGED <<fatal, faults>>
    <2>1. RestoredWhole' /\ DiskOK'
      BY <1>2, <1>5 DEF Collected, RestoredWhole, Body, DiskOK
    <2>2. /\ fterm' \in Nat /\ commit' \in Nat /\ commit' >= commit
          /\ faults' \in 0..MaxFaults /\ commit' >= req.snap
      BY <1>1, <1>2, <1>5
    <2>3. Len(pending.buffer) \in Nat
      BY <1>2, BodyType
    <2> QED
      BY <1>1, <1>2, <1>5, <2>1, <2>2, <2>3, AnswerInv
  <1>6. CASE Reply(req, FALSE, 0, fterm) /\ UNCHANGED <<fterm, commit, fatal, restored, faults>>
    <2>1. RestoredWhole' /\ DiskOK'
      BY <1>1, <1>3, <1>6 DEF RestoredWhole, Body, DiskOK
    <2>2. /\ fterm' \in Nat /\ commit' \in Nat /\ commit' >= commit
          /\ faults' \in 0..MaxFaults
      BY <1>1, <1>6
    <2> QED
      BY <1>1, <1>2, <1>6, <2>1, <2>2, AnswerInv
  <1>7. CASE /\ faults < MaxFaults /\ faults' = faults + 1 /\ commit < req.snap
             /\ fatal' \in {OnDisk(req.term, commit, restored),
                            OnDisk(req.term, req.snap, Collected(req))}
             /\ fterm' = req.term /\ Reply(req, FALSE, 0, req.term)
             /\ UNCHANGED <<commit, restored>>
    <2>1. RestoredWhole' /\ DiskOK'
      <3>1. RestoredWhole'
        BY <1>3, <1>7 DEF RestoredWhole, Body
      <3>2. \/ fatal'.commit = commit /\ fatal'.restored = restored
            \/ /\ fatal'.commit = req.snap
               /\ fatal'.restored.body = Body(req.snap) /\ fatal'.restored.snap = req.snap
        BY <1>2, <1>7 DEF OnDisk, Collected
      <3>3. fatal'.term \in Nat
        BY <1>2, <1>7 DEF OnDisk
      <3>4. fatal'.commit \in Nat /\ fatal'.commit >= commit'
        BY <1>1, <1>2, <1>7, <3>2
      <3>5. fatal'.restored # None => fatal'.restored.body = Body(fatal'.restored.snap)
        BY <1>3, <3>2 DEF RestoredWhole
      <3> QED
        BY <3>1, <3>3, <3>4, <3>5 DEF Body, DiskOK
    <2>2. /\ fterm' \in Nat /\ commit' \in Nat /\ commit' >= commit
          /\ faults' \in 0..MaxFaults
      BY <1>1, <1>2, <1>7, BoundAssumption
    <2> QED
      BY <1>1, <1>2, <1>7, <2>1, <2>2, AnswerInv
  <1> QED
    BY <1>4, <1>5, <1>6, <1>7 DEF Install

LEMMA HandleChunkInv == ASSUME IInv, NEW req \in net, HandleChunk(req) PROVE IInv'
  BY RefuseInv, AckStaleInv, RefuseOffsetInv, TakeChunkInv, FailTermInv DEF HandleChunk

-----------------------------------------------------------------------------
(* The other steps.                                                        *)

\* A step of none of the goroutines that loses requests or what was received.
LEMMA QuietInv ==
  ASSUME IInv, UNCHANGED <<sender, calls>>, net' \subseteq net,
         calm' \in BOOLEAN, faults' \in 0..MaxFaults, fterm' \in Nat, commit' \in Nat,
         commit' >= commit, RestoredWhole', DiskOK',
         \/ UNCHANGED <<pending, installing>>
         \/ pending' = None /\ installing' = None
  PROVE  IInv'
  <1>1. SendersOK /\ calls \in 0..MaxCalls /\ commit \in Nat
    BY TypeParts DEF IInv
  <1>2. SendersOK'
    BY <1>1 DEF SendersOK, Sends
  <1>3. TypeOK'
    BY <1>1, <1>2, TypeParts DEF TypeOK, SendersOK, LocalsType, Response, Sends, DiskOK
  <1>4. Acknowledged'
    <2> SUFFICES ASSUME NEW s \in Sender, Acked(sender[s])' PROVE (commit >= sender[s].snap)'
      BY DEF Acknowledged
    <2>1. Acked(sender[s])
      BY Zenon DEF Acked, Last, End
    <2>2. commit >= sender[s].snap /\ sender[s].snap \in Nat
      BY <1>1, <2>1 DEF IInv, Acknowledged, SendersOK, LocalsType
    <2> QED
      BY <1>1, <2>2
  <1>5. ChunksSent'
    BY DEF IInv, ChunksSent, Chunk, Body
  <1>6. Received'
    BY DEF IInv, Body, Received, BufferOf
  <1> QED
    BY <1>3, <1>4, <1>5, <1>6 DEF IInv

LEMMA OtherInv == ASSUME IInv, BecomeCalm \/ HandleOther \/ Restart \/ UNCHANGED vars PROVE IInv'
  <1>1. /\ fterm \in Nat /\ commit \in Nat /\ faults \in 0..MaxFaults /\ calm \in BOOLEAN
        /\ RestoredWhole /\ DiskOK
    BY TypeParts DEF IInv
  <1>2. ASSUME UNCHANGED <<restored, fatal>>, commit' = commit \/ fatal = None
        PROVE  RestoredWhole' /\ DiskOK'
    BY <1>1, <1>2 DEF RestoredWhole, DiskOK, Body
  <1>3. CASE BecomeCalm \/ UNCHANGED vars
    <2>1. UNCHANGED <<calls, followerVars, sender, net>> /\ calm' \in BOOLEAN
      BY <1>1, <1>3, Zenon DEF BecomeCalm, vars, clusterVars
    <2>2. fterm' \in Nat /\ commit' \in Nat /\ commit' >= commit /\ faults' \in 0..MaxFaults
      BY <1>1, <2>1 DEF followerVars
    <2> QED
      BY <1>2, <2>1, <2>2, QuietInv DEF followerVars
  <1>4. CASE HandleOther
    <2>1. /\ fterm' \in Nat /\ commit' \in Nat /\ commit' >= commit /\ net' = net /\ fatal = None
          /\ UNCHANGED <<sender, restored, calls, pending, installing, calm, faults, fatal>>
      BY <1>1, <1>4, LeaderOfAssumption DEF HandleOther, LastTerm, clusterVars
    <2> QED
      BY <1>1, <1>2, <2>1, QuietInv
  <1>5. CASE Restart
    <2>1. /\ UNCHANGED <<sender, calls, calm>> /\ net' \subseteq net
          /\ fatal' = None /\ pending' = None /\ installing' = None
      BY <1>5 DEF Restart, clusterVars
    <2>2. faults' \in 0..MaxFaults
      BY <1>1, <1>5, BoundAssumption DEF Restart
    <2>3. fterm' \in Nat /\ commit' \in Nat /\ commit' >= commit
      BY <1>1, <1>5 DEF Restart, DiskOK
    <2>4. RestoredWhole' /\ DiskOK'
      BY <1>1, <1>5 DEF Restart, RestoredWhole, DiskOK, Body
    <2>5. calm' \in BOOLEAN
      BY <1>1, <2>1
    <2> QED
      BY <2>1, <2>2, <2>3, <2>4, <2>5, QuietInv
  <1> QED
    BY <1>3, <1>4, <1>5

LEMMA InitInv == Init => IInv
  <1> SUFFICES ASSUME Init PROVE IInv
    OBVIOUS
  <1>1. Idle \in LocalsType /\ Idle.pc = "idle"
    BY LocalsTyped DEF Idle
  <1>2. \A s \in Sender : sender[s] = Idle
    BY DEF Init
  <1>3. SendersOK
    BY <1>1, <1>2 DEF Init, SendersOK
  <1>4. 0 \in 0..MaxCalls /\ 0 \in 0..MaxFaults
    BY BoundAssumption
  <1>5. TypeOK
    BY <1>3, <1>4, TypeParts DEF Init
  <1>6. Acknowledged
    BY <1>1, <1>2 DEF Acknowledged, Acked
  <1>7. ChunksSent /\ Received /\ RestoredWhole /\ DiskOK
    BY DEF Init, ChunksSent, Received, RestoredWhole, DiskOK
  <1> QED
    BY <1>5, <1>6, <1>7 DEF IInv

LEMMA NextInv == IInv /\ [Next]_vars => IInv'
  <1> SUFFICES ASSUME IInv, [Next]_vars PROVE IInv'
    OBVIOUS
  <1>1. ASSUME NEW s \in Sender, Start(s) \/ Receive(s) \/ GiveUp(s) PROVE IInv'
    BY <1>1, StartInv, ReceiveInv, GiveUpInv
  <1>2. ASSUME Handles PROVE IInv'
    BY <1>2, HandleChunkInv, InstallInv DEF Handles
  <1>3. ASSUME BecomeCalm \/ HandleOther \/ Restart \/ UNCHANGED vars PROVE IInv'
    BY <1>3, OtherInv
  <1> QED
    BY <1>1, <1>2, <1>3 DEF Next

LEMMA Invariant == Spec => []IInv
  BY InitInv, NextInv, PTL DEF Spec

-----------------------------------------------------------------------------
(* The theorems.                                                           *)

\* The variables of SnapshotTransfer keep their types, and a goroutine in
\* sendSnapshot never sends from beyond the end of its snapshot.
THEOREM TypeSafety == Spec => []TypeOK
  <1>1. IInv => TypeOK
    BY DEF IInv
  <1> QED
    BY <1>1, Invariant, PTL

\* What HandleInstallSnapshot has collected is a beginning of the snapshot that
\* pendingSnapshot names, whichever chunks of whichever leaders arrived.
THEOREM BufferIsBeginning == Spec => []BufferIsPrefix
  <1>1. IInv => BufferIsPrefix
    <2> SUFFICES ASSUME IInv, pending # None
                 PROVE  /\ Len(pending.buffer) <= Size[pending.snap]
                        /\ pending.buffer = SubSeq(Body(pending.snap), 1, Len(pending.buffer))
      BY Zenon DEF BufferIsPrefix
    <2>1. PICK k \in 0..Size[pending.snap] : /\ pending.buffer = SubSeq(Body(pending.snap), 1, k)
                                             /\ Len(pending.buffer) = k
      BY DEF IInv, Received, BufferOf
    <2>2. Size[pending.snap] \in Nat
      BY BodyType DEF IInv, Received
    <2> QED
      BY <2>1, <2>2
  <1> QED
    BY <1>1, Invariant, PTL

\* The state machine is only restored from all the bytes of one snapshot.
THEOREM RestoresWhole == Spec => []RestoredWhole
  <1>1. IInv => RestoredWhole
    BY DEF IInv
  <1> QED
    BY <1>1, Invariant, PTL

\* When sendSnapshot returns true the follower holds the snapshot, so that the
\* leader may raise matchIndex to it.
THEOREM AcknowledgesHeld == Spec => []AcknowledgedHeld
  <1>1. IInv => AcknowledgedHeld
    BY DEF IInv, Acknowledged, Acked, AcknowledgedHeld
  <1> QED
    BY <1>1, Invariant, PTL
=============================================================================
