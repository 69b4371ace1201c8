---------------------------- MODULE RaftLogProofs ----------------------------
(***************************************************************************)
(* What the log algorithms of RaftLog return, for every log.               *)
(***************************************************************************)
EXTENDS RaftLog, WellFoundedInduction, TLAPS

\* A set of naturals has a least element; the loops of node.go that search a
\* log stop for this reason, and it stands in for induction below.
LEMMA LeastNatural ==
  ASSUME NEW S \in SUBSET Nat, S # {}
  PROVE  \E n \in S : \A k \in S : n <= k
<1> DEFINE R == {ss \in Nat \X Nat : ss[1] < ss[2]}
<1>1. IsWellFoundedOn(R, Nat)
  BY NatLessThanWellFounded DEF OpToRel
<1>2. PICK n \in S : \A k \in S : <<k, n>> \notin R
  <2> HIDE DEF R
  <2> QED BY <1>1, WFMin, Zenon
<1>3. ASSUME NEW k \in S PROVE n <= k
  <2>1. k \in Nat /\ n \in Nat /\ <<k, n>> \notin R
    BY <1>2
  <2>2. ~(k < n)
    BY <2>1
  <2> HIDE DEF R
  <2> QED BY <2>1, <2>2
<1> QED BY <1>3

\* A bounded nonempty set of naturals has a greatest element.
LEMMA GreatestNatural ==
  ASSUME NEW S, S \subseteq Nat, S # {}, NEW b \in Nat, \A n \in S : n <= b
  PROVE  \E n \in S : \A k \in S : k <= n
<1> DEFINE D == {d \in 0..b : b - d \in S}
<1>1. D \subseteq Nat
  OBVIOUS
<1>2. D # {}
  <2>1. PICK n \in S : TRUE
    BY Zenon
  <2>2. b - n \in D
    BY <2>1
  <2> QED BY <2>2, Zenon
<1>3. PICK d \in D : \A e \in D : d <= e
  <2> HIDE DEF D
  <2> QED BY <1>1, <1>2, LeastNatural
<1>4. ASSUME NEW k \in S PROVE k <= b - d
  <2>1. b - k \in D /\ k \in Nat
    OBVIOUS
  <2> QED BY <1>3, <2>1
<1> QED BY <1>3, <1>4

\* conflictIndexLocked walks back to the start of a run of entries of one
\* term; the walk ends after the snapshot, at or before index.
LEMMA RunStartInLog ==
  ASSUME NEW E, NEW lg \in Seq(E), NEW snap \in Nat, NEW index \in Nat,
         index > snap
  PROVE  /\ RunStart(lg, snap, index) \in (snap + 1)..index
         /\ \A j \in RunStart(lg, snap, index)..index : lg[j].term = lg[index].term
<1> DEFINE Run == {k \in (snap + 1)..index :
                     \A j \in k..index : lg[j].term = lg[index].term}
<1>1. index \in Run /\ Run \subseteq Nat
  OBVIOUS
<1>2. PICK k \in Run : \A n \in Run : k <= n
  BY <1>1, LeastNatural, Zenon
<1>3. k = snap + 1 \/ lg[k - 1].term # lg[index].term
  <2> SUFFICES ASSUME k # snap + 1, lg[k - 1].term = lg[index].term PROVE FALSE
    OBVIOUS
  <2>1. \A j \in (k - 1)..index : j = k - 1 \/ j \in k..index
    OBVIOUS
  <2>2. k - 1 \in Run
    BY <2>1
  <2>3. k <= k - 1 /\ k \in Nat
    <3> HIDE DEF Run
    <3> QED BY <2>2, <1>1, <1>2
  <2> QED BY <2>3
<1> QED BY <1>2, <1>3, Zenon DEF RunStart

\* The index a follower asks its leader to resume from is in its log or right
\* after it, and never inside its snapshot.
LEMMA ConflictIndexInLog ==
  ASSUME NEW E, NEW lg \in Seq(E), NEW snap \in Nat, NEW index \in Nat,
         snap <= Len(lg)
  PROVE  ConflictIndex(lg, snap, index) \in (snap + 1)..(Len(lg) + 1)
<1>1. Len(lg) \in Nat
  OBVIOUS
<1>2. CASE index > Len(lg)
  BY <1>1, <1>2 DEF ConflictIndex, LastIndex
<1>3. CASE index <= Len(lg) /\ index <= snap
  BY <1>1, <1>3 DEF ConflictIndex, LastIndex
<1>4. CASE index <= Len(lg) /\ index > snap
  <2>1. RunStart(lg, snap, index) \in (snap + 1)..index
    BY <1>4, RunStartInLog
  <2> QED BY <1>1, <1>4, <2>1 DEF ConflictIndex, LastIndex
<1> QED BY <1>1, <1>2, <1>3, <1>4

\* mergeEntriesLocked finds the first entry that is new: everything before it
\* matches the log, it does not.
LEMMA FirstNewSpec ==
  ASSUME NEW E, NEW lg \in Seq(E), NEW prev \in Nat, NEW entries \in Seq(E)
  PROVE  LET k == FirstNew(lg, prev, entries)
         IN  /\ k \in 1..(Len(entries) + 1)
             /\ \A j \in 1..(k - 1) : /\ prev + j <= Len(lg)
                                      /\ lg[prev + j].term = entries[j].term
             /\ \/ k = Len(entries) + 1
                \/ prev + k > Len(lg)
                \/ lg[prev + k].term # entries[k].term
<1> DEFINE New(k) == \/ k = Len(entries) + 1
                     \/ prev + k > Len(lg)
                     \/ lg[prev + k].term # entries[k].term
           News == {k \in 1..(Len(entries) + 1) : New(k)}
<1>1. Len(entries) + 1 \in News /\ News \subseteq Nat
  OBVIOUS
<1>2. PICK k \in News : \A n \in News : k <= n
  BY <1>1, LeastNatural, Zenon
<1>3. k \in 1..(Len(entries) + 1) /\ New(k)
  OBVIOUS
<1>4. ASSUME NEW j \in 1..(k - 1)
      PROVE  prev + j <= Len(lg) /\ lg[prev + j].term = entries[j].term
  <2>1. j \in 1..(Len(entries) + 1) /\ j < k /\ Len(lg) \in Nat
    BY <1>3
  <2>2. j \notin News
    <3> HIDE DEF News
    <3> QED BY <1>2, <1>3, <2>1
  <2> QED BY <2>1, <2>2
<1> QED BY <1>3, <1>4, Zenon DEF FirstNew

\* What mergeEntriesLocked returns: a log of the same entries, that has kept
\* everything committed, and that reaches the end of the request when there is
\* no conflict.
LEMMA MergeEntriesSpec ==
  ASSUME NEW E, NEW lg \in Seq(E), NEW entries \in Seq(E),
         NEW prev \in Nat, NEW commit \in Nat, commit <= Len(lg)
  PROVE  LET r == MergeEntries(lg, commit, prev, entries)
         IN  /\ r.log \in Seq(E)
             /\ r.appended \in Seq(E)
             /\ r.conflict \in Nat
             /\ r.changed \/ (r.log = lg /\ r.appended = <<>>)
             /\ r.changed => r.conflict = 0
             /\ prev <= Len(lg) /\ r.conflict = 0
                  => Len(r.log) >= prev + Len(entries)
             /\ Len(r.log) >= commit
             /\ \A n \in 1..commit : r.log[n] = lg[n]
<1> DEFINE r == MergeEntries(lg, commit, prev, entries)
           k == FirstNew(lg, prev, entries)
           fresh == SubSeq(entries, k, Len(entries))
           kept == Prefix(lg, (prev + k) - 1)
<1>1. k \in 1..(Len(entries) + 1) /\ \A j \in 1..(k - 1) : prev + j <= Len(lg)
  BY FirstNewSpec
<1>2. /\ fresh \in Seq(E)
      /\ Len(fresh) = Len(entries) + 1 - k
  BY <1>1
<1>3. lg \o <<>> = lg
  OBVIOUS
<1>4. CASE k > Len(entries)
  <2>1. r = [conflict |-> 0, changed |-> FALSE, replaced |-> FALSE,
             appended |-> <<>>, log |-> lg]
    BY <1>4 DEF MergeEntries
  <2>2. prev <= Len(lg) => Len(lg) >= prev + Len(entries)
    BY <1>1, <1>4
  <2> QED BY <1>3, <2>1, <2>2
<1>5. CASE k <= Len(entries) /\ prev + k > Len(lg)
  <2>1. r = [conflict |-> 0, changed |-> TRUE, replaced |-> FALSE,
             appended |-> fresh, log |-> lg \o fresh]
    BY <1>5, <1>1 DEF MergeEntries
  <2>2. /\ lg \o fresh \in Seq(E)
        /\ Len(lg \o fresh) = Len(lg) + Len(fresh)
        /\ \A n \in 1..Len(lg) : (lg \o fresh)[n] = lg[n]
    BY <1>2
  <2>3. prev <= Len(lg) => Len(lg) + Len(fresh) >= prev + Len(entries)
    <3>1. k = 1 \/ prev + (k - 1) <= Len(lg)
      BY <1>1
    <3> QED BY <3>1, <1>1, <1>2
  <2> HIDE DEF fresh
  <2> QED BY <1>2, <2>1, <2>2, <2>3
<1>6. CASE k <= Len(entries) /\ prev + k <= Len(lg) /\ prev + k <= commit
  <2>1. r = [conflict |-> prev + k, changed |-> FALSE, replaced |-> FALSE,
             appended |-> <<>>, log |-> lg]
    BY <1>6, <1>1 DEF MergeEntries
  <2>2. prev + k \in Nat /\ prev + k # 0
    BY <1>1
  <2> HIDE DEF k
  <2> QED BY <2>1, <2>2
<1>7. CASE k <= Len(entries) /\ prev + k <= Len(lg) /\ prev + k > commit
  <2>1. r = [conflict |-> 0, changed |-> TRUE, replaced |-> TRUE,
             appended |-> fresh, log |-> kept \o fresh]
    <3>1. ~(k > Len(entries)) /\ ~(prev + k > Len(lg)) /\ ~(prev + k <= commit)
      BY <1>7, <1>1
    <3> QED BY <3>1, Zenon DEF MergeEntries
  <2>2. /\ kept \in Seq(E)
        /\ Len(kept) = (prev + k) - 1
        /\ \A n \in 1..((prev + k) - 1) : kept[n] = lg[n]
    <3>1. \A n \in 1..((prev + k) - 1) : lg[n] \in E
      BY <1>7, <1>1
    <3> QED BY <1>1, <3>1 DEF Prefix
  <2>3. /\ kept \o fresh \in Seq(E)
        /\ Len(kept \o fresh) = prev + Len(entries)
        /\ \A n \in 1..((prev + k) - 1) : (kept \o fresh)[n] = lg[n]
    <3> HIDE DEF kept, fresh
    <3>1. /\ kept \o fresh \in Seq(E)
          /\ Len(kept \o fresh) = Len(kept) + Len(fresh)
          /\ \A n \in 1..Len(kept) : (kept \o fresh)[n] = kept[n]
      <4>1. kept \in Seq(E) /\ fresh \in Seq(E)
        BY <1>2, <2>2
      <4> QED BY <4>1
    <3> HIDE DEF k
    <3>2. Len(kept) + Len(fresh) = prev + Len(entries)
      BY <1>1, <1>2, <2>2
    <3> QED BY <2>2, <3>1, <3>2
  <2>4. commit <= (prev + k) - 1 /\ prev + Len(entries) >= commit
    BY <1>1, <1>7
  <2> HIDE DEF fresh, kept, k
  <2> QED BY <1>1, <1>2, <2>1, <2>3, <2>4
<1> QED BY <1>1, <1>4, <1>5, <1>6, <1>7

\* What mergeEntriesLocked appends to the WAL is what it adds to the log, unless
\* it asks for the WAL to be rewritten.
LEMMA MergeAppends ==
  ASSUME NEW E, NEW lg \in Seq(E), NEW entries, NEW prev, NEW commit,
         MergeEntries(lg, commit, prev, entries).conflict = 0
  PROVE  LET r == MergeEntries(lg, commit, prev, entries)
         IN  r.log = IF r.replaced THEN r.log ELSE lg \o r.appended
<1> DEFINE r == MergeEntries(lg, commit, prev, entries)
           k == FirstNew(lg, prev, entries)
           fresh == SubSeq(entries, k, Len(entries))
<1>1. \/ r.appended = <<>> /\ r.log = lg
      \/ r.log = lg \o r.appended
      \/ r.replaced = TRUE
  <2>1. CASE k > Len(entries)
    <3>1. r = [conflict |-> 0, changed |-> FALSE, replaced |-> FALSE,
               appended |-> <<>>, log |-> lg]
      BY <2>1, Zenon DEF MergeEntries
    <3> QED BY <3>1
  <2>2. CASE ~(k > Len(entries)) /\ prev + k > Len(lg)
    <3>1. r = [conflict |-> 0, changed |-> TRUE, replaced |-> FALSE,
               appended |-> fresh, log |-> lg \o fresh]
      BY <2>2, Zenon DEF MergeEntries
    <3> HIDE DEF fresh
    <3> QED BY <3>1
  <2>3. CASE ~(k > Len(entries)) /\ ~(prev + k > Len(lg)) /\ prev + k <= commit
    <3>1. r = [conflict |-> prev + k, changed |-> FALSE, replaced |-> FALSE,
               appended |-> <<>>, log |-> lg]
      BY <2>3, Zenon DEF MergeEntries
    <3> QED BY <3>1
  <2>4. CASE ~(k > Len(entries)) /\ ~(prev + k > Len(lg)) /\ ~(prev + k <= commit)
    <3>1. r = [conflict |-> 0, changed |-> TRUE, replaced |-> TRUE,
               appended |-> fresh, log |-> Prefix(lg, (prev + k) - 1) \o fresh]
      BY <2>4, Zenon DEF MergeEntries
    <3> HIDE DEF fresh
    <3> QED BY <3>1
  <2> QED BY <2>1, <2>2, <2>3, <2>4, Zenon
<1>2. lg \o <<>> = lg
  OBVIOUS
<1> HIDE DEF r
<1>3. r.log = IF r.replaced THEN r.log ELSE lg \o r.appended
  BY <1>1, <1>2, Zenon
<1> QED BY <1>3, Zenon DEF r

\* A log put together from a snapshot and what follows it begins with the
\* snapshot.
LEMMA AfterSnapshotSpec ==
  ASSUME NEW E, NEW lg \in Seq(E), NEW snap \in Nat, NEW body \in Seq(E)
  PROVE  /\ AfterSnapshot(lg, snap, body) \in Seq(E)
         /\ Len(AfterSnapshot(lg, snap, body)) >= Len(body)
         /\ \A n \in 1..Len(body) : AfterSnapshot(lg, snap, body)[n] = body[n]
<1> DEFINE rest == SubSeq(lg, Len(body) + 1, Len(lg))
<1>1. rest \in Seq(E)
  OBVIOUS
<1>2. /\ body \o rest \in Seq(E)
      /\ Len(body \o rest) = Len(body) + Len(rest)
      /\ \A n \in 1..Len(body) : (body \o rest)[n] = body[n]
  <2> HIDE DEF rest
  <2> QED BY <1>1
<1>3. \/ AfterSnapshot(lg, snap, body) = body \o rest
      \/ AfterSnapshot(lg, snap, body) = body
  BY DEF AfterSnapshot
<1>4. CASE AfterSnapshot(lg, snap, body) = body
  BY <1>4
<1>5. CASE AfterSnapshot(lg, snap, body) = body \o rest
  <2>1. Len(rest) \in Nat
    BY <1>1
  <2> HIDE DEF rest
  <2> QED BY <1>2, <1>5, <2>1
<1> QED BY <1>3, <1>4, <1>5
=============================================================================
