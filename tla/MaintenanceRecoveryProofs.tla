--------------------- MODULE MaintenanceRecoveryProofs ---------------------
(***************************************************************************)
(* Proofs about the second maintenance store.                              *)
(*                                                                         *)
(* The first part unrolls Reconstruct, the recursion over the journal, by  *)
(* the least counterexample; the second follows each kind of record from   *)
(* one sound state to the next and counts the room it takes; the third     *)
(* shows that every step of a session keeps journal, head, checkpoints and *)
(* minimum in agreement; the last derives what the runs check and maps the *)
(* store to the ledger all maintenance models share.                       *)
(***************************************************************************)
EXTENDS MaintenanceRecovery, FiniteSetTheorems, SequenceTheorems, WellFoundedInduction, TLAPS


\* Every nonempty set of naturals has a least element.
LEMMA LeastNumber ==
  ASSUME NEW T \in SUBSET Nat, T # {}
  PROVE  \E x \in T : \A y \in T : x <= y
<1> DEFINE U == {1..k : k \in T}
<1>1. IsWellFoundedOn(StrictSubsetOrdering(Nat), FiniteSubsetsOf(Nat))
  BY FS_StrictSubsetOrderingWellFounded
<1>2. U \subseteq FiniteSubsetsOf(Nat) /\ U # {}
  <2>1. ASSUME NEW k \in T PROVE 1..k \in SUBSET Nat /\ IsFiniteSet(1..k)
    BY FS_Interval
  <2> QED
    BY <2>1 DEF FiniteSubsetsOf
<1>3. PICK X \in U : \A Y \in U : <<Y, X>> \notin StrictSubsetOrdering(Nat)
  <2> HIDE DEF U
  <2> QED
    BY <1>1, <1>2, WFMin
<1>4. PICK x \in T : X = 1..x
  OBVIOUS
<1>5. ASSUME NEW y \in T PROVE x <= y
  <2> SUFFICES ASSUME y < x PROVE FALSE
    OBVIOUS
  <2>1. 1..y \subseteq 1..x /\ x \in 1..x /\ x \notin 1..y /\ 1..x \in SUBSET Nat /\ 1..y \in SUBSET Nat
    OBVIOUS
  <2>2. <<1..y, 1..x>> \in StrictSubsetOrdering(Nat)
    BY <2>1 DEF StrictSubsetOrdering
  <2> QED
    BY <2>2, <1>3, <1>4
<1> QED
  BY <1>5


\* What the reconstruction starts from, and one more record of it.
Start(a) == IF ValidAnchor(a) THEN AtAnchor(a) ELSE None
OneMore(rs, n, st) == Rechecked(SubSeq(rs, 1, n - 1), rs[n], st)

\* f holds the states of the reconstruction up to the record m.
Unrolls(f, a, rs, m) ==
  f = [n \in 0..m |-> IF n = 0 THEN Start(a) ELSE OneMore(rs, n, f[n - 1])]

\* The reconstruction is defined for every length: no least length could lack it.
LEMMA Unrolling ==
  ASSUME NEW a, NEW rs
  PROVE  \A m \in Nat : \E f : Unrolls(f, a, rs, m)
<1> DEFINE T == {m \in Nat : ~\E f : Unrolls(f, a, rs, m)}
<1> SUFFICES ASSUME T # {} PROVE FALSE
  OBVIOUS
<1>1. PICK m \in T : \A k \in T : m <= k
  <2> HIDE DEF T
  <2>1. T \in SUBSET Nat
    BY DEF T
  <2> QED
    BY <2>1, LeastNumber
<1>2. m # 0
  <2>1. Unrolls([n \in 0..0 |-> Start(a)], a, rs, 0)
    BY DEF Unrolls
  <2> QED
    BY <2>1
<1>3. PICK f : Unrolls(f, a, rs, m - 1)
  <2>1. m - 1 \in Nat /\ m - 1 \notin T
    BY <1>1, <1>2
  <2> QED
    BY <2>1
<1> DEFINE g == [n \in 0..m |-> IF n = m THEN OneMore(rs, m, f[m - 1]) ELSE f[n]]
<1>4. ASSUME NEW n \in 0..m
      PROVE  g[n] = IF n = 0 THEN Start(a) ELSE OneMore(rs, n, g[n - 1])
  <2>1. CASE n = m
    <3>1. g[n - 1] = f[m - 1]
      BY <2>1, <1>2
    <3> QED
      BY <3>1, <2>1, <1>2
  <2>2. CASE n # m
    <3>1. n \in 0..(m - 1) /\ (n # 0 => n - 1 \in 0..(m - 1))
      BY <2>2, <1>2
    <3>2. f[n] = IF n = 0 THEN Start(a) ELSE OneMore(rs, n, f[n - 1])
      BY <3>1, <1>3 DEF Unrolls
    <3> QED
      BY <3>1, <3>2, <2>2
  <2> QED
    BY <2>1, <2>2
<1>5. Unrolls(g, a, rs, m)
  <2> HIDE DEF g
  <2>1. g = [n \in 0..m |-> g[n]]
    BY DEF g
  <2> QED
    BY <2>1, <1>4 DEF Unrolls
<1> QED
  BY <1>5, <1>1

\* Reconstruct is the last state of its unrolling.
LEMMA ReconstructUnrolls ==
  ASSUME NEW a, NEW R, NEW rs \in Seq(R)
  PROVE  \E f : Unrolls(f, a, rs, Len(rs)) /\ Reconstruct(a, rs) = f[Len(rs)]
<1> DEFINE after == CHOOSE f : f = [n \in 0..Len(rs) |->
              IF n = 0 THEN IF ValidAnchor(a) THEN AtAnchor(a) ELSE None
                 ELSE CHOOSE next \in {Rechecked(SubSeq(rs, 1, n - 1), rs[n], st) : st \in {f[n - 1]}} : TRUE]
<1>1. Reconstruct(a, rs) = after[Len(rs)]
  BY DEF Reconstruct
<1>2. ASSUME NEW f PROVE
        [n \in 0..Len(rs) |->
              IF n = 0 THEN IF ValidAnchor(a) THEN AtAnchor(a) ELSE None
                 ELSE CHOOSE next \in {Rechecked(SubSeq(rs, 1, n - 1), rs[n], st) : st \in {f[n - 1]}} : TRUE]
        = [n \in 0..Len(rs) |-> IF n = 0 THEN Start(a) ELSE OneMore(rs, n, f[n - 1])]
  <2>1. ASSUME NEW n PROVE (CHOOSE next \in {Rechecked(SubSeq(rs, 1, n - 1), rs[n], st) : st \in {f[n - 1]}} : TRUE)
                             = OneMore(rs, n, f[n - 1])
    <3> DEFINE x == Rechecked(SubSeq(rs, 1, n - 1), rs[n], f[n - 1])
    <3>1. {Rechecked(SubSeq(rs, 1, n - 1), rs[n], st) : st \in {f[n - 1]}} = {x}
      OBVIOUS
    <3> HIDE DEF x
    <3>2. (CHOOSE next \in {x} : TRUE) = x
      OBVIOUS
    <3>3. (CHOOSE next \in {Rechecked(SubSeq(rs, 1, n - 1), rs[n], st) : st \in {f[n - 1]}} : TRUE) = x
      BY <3>1, <3>2
    <3> QED
      BY <3>3 DEF x, OneMore
  <2> QED
    BY <2>1 DEF Start
<1>3. Len(rs) \in Nat
  OBVIOUS
<1>4. \E f : Unrolls(f, a, rs, Len(rs))
  BY <1>3, Unrolling
<1>5. after = CHOOSE f : Unrolls(f, a, rs, Len(rs))
  BY <1>2 DEF Unrolls
<1>6. Unrolls(after, a, rs, Len(rs))
  <2> HIDE DEF after
  <2> QED
    BY <1>4, <1>5
<1> QED
  BY <1>6, <1>1

\* The first m records of two journals, and what each of them follows.
SameUpTo(rs, ss, m) == \A n \in 1..m : rs[n] = ss[n] /\ SubSeq(rs, 1, n - 1) = SubSeq(ss, 1, n - 1)

\* Two reconstructions agree as long as their journals do.
LEMMA UnrollingsAgree ==
  ASSUME NEW a, NEW rs, NEW ss, NEW f, NEW g, NEW m \in Nat, NEW k \in Nat, m <= k,
         Unrolls(f, a, rs, m), Unrolls(g, a, ss, k),
         SameUpTo(rs, ss, m)
  PROVE  f[m] = g[m]
<1> DEFINE T == {n \in 0..m : f[n] # g[n]}
<1>1. \A n \in 0..m : f[n] = IF n = 0 THEN Start(a) ELSE OneMore(rs, n, f[n - 1])
  BY DEF Unrolls
<1>2. \A n \in 0..k : g[n] = IF n = 0 THEN Start(a) ELSE OneMore(ss, n, g[n - 1])
  BY DEF Unrolls
<1> SUFFICES ASSUME T # {} PROVE FALSE
  OBVIOUS
<1>3. PICK n \in T : \A j \in T : n <= j
  <2>1. T \in SUBSET Nat
    OBVIOUS
  <2> HIDE DEF T
  <2> QED
    BY <2>1, LeastNumber
<1>4. n # 0
  BY <1>1, <1>2
<1>5. n - 1 \in 0..m /\ n - 1 \notin T
  BY <1>3, <1>4
<1>6. f[n] = g[n]
  <2>1. f[n - 1] = g[n - 1] /\ n \in 1..m
    BY <1>4, <1>5
  <2>2. f[n] = OneMore(rs, n, f[n - 1]) /\ g[n] = OneMore(ss, n, g[n - 1])
    BY <1>1, <1>2, <1>4
  <2> QED
    BY <2>1, <2>2 DEF OneMore, SameUpTo
<1> QED
  BY <1>6

\* An empty journal leaves the anchor.
LEMMA ReconstructEmpty ==
  ASSUME NEW a
  PROVE  Reconstruct(a, <<>>) = Start(a)
<1>1. PICK f : Unrolls(f, a, <<>>, Len(<<>>)) /\ Reconstruct(a, <<>>) = f[Len(<<>>)]
  <2>1. <<>> \in Seq({})
    OBVIOUS
  <2> QED
    BY <2>1, ReconstructUnrolls
<1> QED
  BY <1>1 DEF Unrolls

\* The prefixes of a journal do not change when a record is appended.
LEMMA PrefixOfAppend ==
  ASSUME NEW R, NEW rs \in Seq(R), NEW r \in R, NEW n \in 1..(Len(rs) + 1)
  PROVE  SubSeq(Append(rs, r), 1, n - 1) = SubSeq(rs, 1, n - 1)
<1>1. PICK longer : longer = Append(rs, r)
  OBVIOUS
<1>2. PICK m \in Nat : m = Len(rs)
  OBVIOUS
<1>3. longer \in Seq(R) /\ Len(longer) = m + 1 /\ (\A i \in 1..m : longer[i] = rs[i]) /\ n \in 1..(m + 1)
  BY <1>1, <1>2
<1>4. PICK k \in Nat : k = n - 1 /\ k <= m
  BY <1>3
<1>5. \A i \in 1..k : longer[i] = rs[i]
  BY ONLY <1>3, <1>4, k \in Nat, m \in Nat
<1>6. SubSeq(longer, 1, k) = [i \in 1..k |-> longer[i]] /\ SubSeq(rs, 1, k) = [i \in 1..k |-> rs[i]]
  BY <1>2, <1>3, <1>4, SMTT(20)
<1> QED
  BY <1>1, <1>4, <1>5, <1>6

\* One more record is rechecked after all the others, against them.
LEMMA ReconstructAppend ==
  ASSUME NEW a, NEW R, NEW rs \in Seq(R), NEW r \in R
  PROVE  Reconstruct(a, Append(rs, r)) = Rechecked(rs, r, Reconstruct(a, rs))
<1>1. PICK longer : longer = Append(rs, r)
  OBVIOUS
<1>2. PICK m \in Nat : m = Len(rs)
  OBVIOUS
<1>3. PICK k \in Nat : k = m + 1 /\ m <= k
  OBVIOUS
<1>4. longer \in Seq(R) /\ Len(longer) = k /\ longer[k] = r /\ (\A n \in 1..m : rs[n] = longer[n])
  BY <1>1, <1>2, <1>3
<1>5. PICK f : Unrolls(f, a, rs, m) /\ Reconstruct(a, rs) = f[m]
  BY <1>2, ReconstructUnrolls
<1>6. PICK g : Unrolls(g, a, longer, k) /\ Reconstruct(a, longer) = g[k]
  BY <1>4, ReconstructUnrolls
<1>7. \A n \in 1..k : SubSeq(longer, 1, n - 1) = SubSeq(rs, 1, n - 1)
  <2> SUFFICES ASSUME NEW n \in 1..k PROVE SubSeq(longer, 1, n - 1) = SubSeq(rs, 1, n - 1)
    OBVIOUS
  <2>1. n \in 1..(Len(rs) + 1)
    BY <1>2, <1>3
  <2> QED
    BY <2>1, <1>1, PrefixOfAppend
<1>8. f[m] = g[m]
  <2>1. m \in Nat /\ k \in Nat /\ m <= k
    BY <1>3
  <2>2. Unrolls(f, a, rs, m) /\ Unrolls(g, a, longer, k)
    BY <1>5, <1>6
  <2>3. SameUpTo(rs, longer, m)
    <3>1. \A n \in 1..m : n \in 1..k
      BY <1>3
    <3> QED
      BY <3>1, <1>4, <1>7 DEF SameUpTo
  <2>4. \A x \in Nat, y \in Nat :
          x <= y /\ SameUpTo(rs, longer, x) /\ Unrolls(f, a, rs, x) /\ Unrolls(g, a, longer, y) => f[x] = g[x]
    BY ONLY UnrollingsAgree
  <2> QED
    BY ONLY <2>1, <2>2, <2>3, <2>4
<1>9. g[k] = OneMore(longer, k, g[m])
  BY <1>3, <1>6 DEF Unrolls
<1>10. SubSeq(longer, 1, k - 1) = rs
  <2>1. SubSeq(longer, 1, k - 1) = SubSeq(rs, 1, m)
    <3>1. k \in 1..k /\ k - 1 = m
      BY <1>3
    <3> QED
      BY <3>1, <1>7
  <2>2. SubSeq(rs, 1, m) = rs
    BY <1>2, SubSeqFull
  <2> QED
    BY <2>1, <2>2
<1> QED
  BY <1>1, <1>4, <1>5, <1>6, <1>8, <1>9, <1>10 DEF OneMore
-----------------------------------------------------------------------------
\* A visible selection at, or not below, a security floor.
AtFloor(sel, floor) == sel # Nothing => sel.epoch = floor
NotBelow(sel, floor) == sel # Nothing => sel.epoch >= floor

\* The types and limits of a state.
Bounded(st) ==
  /\ st \in States
  /\ st.seq <= MaxSeq /\ st.counter <= MaxCounter /\ st.gen <= MaxGen /\ st.genFloor <= MaxGen
  /\ st.secFloor <= MaxEpoch

\* The active work is the newest transaction of its lineage; metadata is only written
\* where no publication has begun.
Working(st, a) ==
  /\ a.tx = st.counter /\ a.origin \in 1..st.counter /\ a.stage # "Stable" /\ a.target <= MaxGen
  /\ Len(a.lineage) \in 1..MaxLineage /\ ToSet(a.lineage) \subseteq 1..st.counter
  /\ a.stage = "Blocked" => a.seen /\ a.op \in Publications
  /\ a.op \in MetaOps => a.stage = "Admitted" /\ ~a.seen

\* The generation it aims at is fresh until it is blocked, then it is the floor.
Targeted(st, a) ==
  /\ a.op \in Publications /\ a.stage = "Admitted" =>
       a.target = st.genFloor + 1 /\ NotBelow(a.cand, st.secFloor) /\ NotBelow(a.cand, st.sel.epoch)
  /\ a.stage = "Blocked" => a.target = st.genFloor /\ AtFloor(a.cand, st.secFloor)

\* A settled state tells how the newest transaction ended.
Ended(st) ==
  st.terminal.op # "None" => st.terminal.tx = st.counter /\ st.terminal.outcome = OutcomeOf(st.terminal.op)

\* What reconstruct() may produce.
Sound(st) ==
  /\ Bounded(st)
  /\ st.active = None => Ended(st)
  /\ st.active # None => Working(st, st.active) /\ Targeted(st, st.active)
  /\ IF Unresolved(st) THEN st.gen < st.genFloor ELSE st.gen = st.genFloor /\ AtFloor(st.sel, st.secFloor)

\* What is still to be written, the compaction included that must remain possible.
Reserve(st) ==
  IF st.active = None THEN IF st.terminal.op \in CheckpointOps THEN 0 ELSE 2
  ELSE Outstanding(st.active) + IF st.active.op \in CheckpointOps THEN 0 ELSE 2

\* n records and the reserve fit.
Room(st, n) == n + Reserve(st) <= MaxRecords /\ st.seq + Reserve(st) <= MaxSeq

\* The journal reconstructs to the state of the sessions, which is sound.
JournalInv ==
  /\ anchor \in Anchors /\ ValidAnchor(anchor)
  /\ records \in Seq(Records) /\ Len(records) <= MaxRecords
  /\ \A n \in 1..Len(records) : records[n].seq = anchor.seq + n /\ records[n].tx <= s.counter
  /\ s = Reconstruct(anchor, records) /\ Sound(s) /\ s.seq = anchor.seq + Len(records) /\ Room(s, Len(records))
  /\ anchor.counter <= s.counter /\ anchor.genFloor <= s.genFloor /\ anchor.secFloor <= s.secFloor

\* The types of the session, and what is reset between sessions.
SessionInv ==
  /\ known \in BOOLEAN /\ open \in BOOLEAN /\ headRequired \in BOOLEAN /\ admitted \in BOOLEAN
  /\ waiting \in BOOLEAN /\ verified \in BOOLEAN /\ published \in BOOLEAN /\ completed \in BOOLEAN
  /\ acks \subseteq {"Admission", "Result"} /\ auth \in Offers \cup {None}
  /\ open => known
  /\ ~open => pending = None /\ ~headRequired /\ ~verified /\ ~published
  /\ verified => candidate # None /\ candidate = AnchorOf(s) /\ s.active = None /\ ~headRequired
  /\ published => verified /\ head = HeadFor(AtAnchor(candidate))

\* The checkpoints beside the journal show its deployment; while there is one, only its
\* reconciliation can be under way.
CheckpointInv ==
  /\ candidate \in Anchors \cup {None} /\ obsolete \in Anchors \cup {None}
  /\ obsolete # None => candidate # None
  /\ CheckpointsAgree
  /\ candidate # None /\ s.active # None => s.active.op \in CheckpointOps

\* The write in flight fits the state the session was in when it wrote.
PendingInv ==
  /\ pending \in Writes \cup {None}
  /\ pending # None =>
      CASE pending.target = "Record" ->
             /\ ~headRequired /\ ~verified
             /\ ~pending.flushed => /\ s.seq < MaxSeq /\ Len(records) < MaxRecords
                                    /\ pending.record.seq = s.seq + 1 /\ Fits(Disk, s, pending.record)
        [] pending.target = "Head" ->
             /\ ~published /\ (headRequired \/ verified) /\ pending.checkpoint = verified
             /\ (IF pending.flushed THEN head ELSE pending.head)
                  = HeadFor(IF verified THEN AtAnchor(candidate) ELSE s)
        [] pending.target = "Checkpoint" ->
             /\ ~headRequired /\ ~verified /\ s.active = None /\ head = HeadFor(s)
             /\ IF pending.flushed THEN candidate = AnchorOf(s) ELSE pending.anchor = AnchorOf(s)

\* The head is the one of the journal or of the checkpoint, unless the session knows that
\* it must publish again.
HeadInv ==
  /\ head \in Heads
  /\ head.counter <= s.counter /\ head.genFloor <= s.genFloor /\ head.secFloor <= s.secFloor
  /\ known => \/ head = HeadFor(s) \/ (candidate # None /\ head = HeadFor(AtAnchor(candidate)))
              \/ headRequired \/ (pending # None /\ pending.target = "Record" /\ pending.flushed)

\* A record was written and is not known to be durable; the state it will lead to.
Arriving == pending # None /\ pending.target = "Record" /\ ~pending.flushed
Reached == IF Arriving THEN Chained(s, pending.record) ELSE s

\* The minimum covers that state, and is exactly it while the image is Known.
MinInv ==
  /\ min \in Minima
  /\ min.counter >= Reached.counter /\ min.gen >= Reached.genFloor /\ min.secFloor >= Reached.secFloor
  /\ known => min = Minimum(Reached)

\* The transactions of the active lineage.
LineageOf(st) == IF st.active = None THEN {} ELSE ToSet(st.active.lineage)

\* Every transaction ever admitted is finished or in the active lineage.
FinishedInv == finished = (1..s.counter) \ LineageOf(s)

\* Admissions of the active transaction name its lineage, and a retired lineage is older
\* than the active one: so what was retired has not been shown, and will not be.
ShownInv ==
  /\ shown \subseteq 1..s.counter
  /\ s.active # None /\ s.active.origin \in shown => s.active.seen
  /\ \A q \in ToSet(records) : q.offer # None =>
       /\ q.offer.origin < q.tx
       /\ s.active # None /\ q.tx = s.active.tx => q.offer.origin \in {0, s.active.origin}
  /\ \A r \in ToSet(records) : r.kind = "Retire" /\ s.active # None => r.tx < s.active.origin
  /\ RetiredNeverShown

\* The inductive invariant of the second store.
IInv == /\ JournalInv /\ SessionInv /\ CheckpointInv /\ PendingInv /\ HeadInv /\ MinInv /\ FinishedInv
        /\ ShownInv
-----------------------------------------------------------------------------
\* The limits are numbers.
LEMMA Bounds ==
  /\ MaxEpoch \in Nat /\ MaxCounter \in Nat /\ MaxGen \in Nat /\ MaxSeq \in Nat
  /\ MaxRecords \in Nat /\ MaxLineage \in Nat
  /\ MaxSeq >= 6 /\ MaxRecords >= 6 /\ MaxLineage > 0
BY RecoveryAssumption

\* A selection has an epoch within the limit, zero when nothing is selected.
LEMMA SelectionFacts ==
  /\ \A x \in Selections : x.epoch \in Nat /\ x.epoch <= MaxEpoch /\ (x = Nothing => x.epoch = 0)
  /\ Nothing \in Selections
BY Bounds DEF Selections, Nothing

\* Appending adds one member.
LEMMA AppendedSet ==
  ASSUME NEW R, NEW q \in Seq(R), NEW x \in R
  PROVE  ToSet(Append(q, x)) = ToSet(q) \cup {x}
<1>1. DOMAIN Append(q, x) = 1..(Len(q) + 1) /\ DOMAIN q = 1..Len(q) /\ Len(q) \in Nat
  OBVIOUS
<1>2. \A k \in 1..(Len(q) + 1) : Append(q, x)[k] = IF k = Len(q) + 1 THEN x ELSE q[k]
  OBVIOUS
<1> QED
  BY <1>1, <1>2 DEF ToSet

\* Two states that differ in sequence number and tail only.
SameBody(b, n) ==
  /\ n.counter = b.counter /\ n.gen = b.gen /\ n.genFloor = b.genFloor /\ n.secFloor = b.secFloor
  /\ n.sel = b.sel /\ n.terminal = b.terminal /\ n.active = b.active

\* Chaining a record only sets the sequence number and the tail.
LEMMA ChainedFields ==
  ASSUME NEW st, NEW r \in Records, Advanced(st, r) \in States
  PROVE  Chained(st, r) \in States /\ Chained(st, r).seq = r.seq /\ SameBody(Advanced(st, r), Chained(st, r))
<1> DEFINE b == Advanced(st, r)
<1>1. <<r.seq, "record">> \in Tails /\ r.seq \in Nat
  BY DEF Records, Tails
<1> HIDE DEF b
<1>2. ASSUME b \in States PROVE 
      LET n == [b EXCEPT !.seq = r.seq, !.tail = <<r.seq, "record">>]
      IN n \in States /\ n.seq = r.seq /\ SameBody(b, n)
  BY <1>1, <1>2 DEF States, SameBody
<1> QED
  BY <1>2 DEF b, Chained

\* What advance() makes of a state, a record of each kind in turn.
Admits(st, b, o) ==
  LET old == st.active
      a == b.active
  IN  /\ b \in States /\ b.counter = st.counter + 1 /\ b.gen = st.gen
      /\ b.genFloor = st.genFloor /\ b.secFloor = st.secFloor /\ b.sel = st.sel
      /\ b.terminal = st.terminal /\ a \in Actives
      /\ a.tx = o.tx /\ a.op = o.op /\ a.cand = o.cand /\ a.seen = SeenBefore(old)
      /\ a.lineage = Extended(old, o)
      /\ a.stage = (IF o.op = "FinishCommittedCleanup" THEN "Committed" ELSE "Admitted")
      /\ a.target = (IF o.op \in Publications THEN st.genFloor + 1 ELSE st.gen)
      /\ a.origin = (IF old = None THEN o.tx ELSE old.origin)

\* The active work keeps all but its stage.
KeepsWork(a, old) ==
  /\ a \in Actives /\ a.tx = old.tx /\ a.op = old.op /\ a.cand = old.cand
  /\ a.lineage = old.lineage /\ a.target = old.target /\ a.origin = old.origin

\* The state a Block record leads to: both floors are raised.
Blocks(st, b) ==
  /\ b \in States /\ b.counter = st.counter /\ b.gen = st.gen
  /\ b.genFloor = st.active.target /\ b.sel = st.sel
  /\ b.secFloor = Larger(st.secFloor, Larger(st.active.cand.epoch, st.sel.epoch))
  /\ KeepsWork(b.active, st.active)
  /\ b.active.stage = "Blocked" /\ b.active.seen = TRUE

\* The state a Commit record leads to: the candidate is selected under the blocked generation.
Commits(st, b) ==
  /\ b \in States /\ b.counter = st.counter /\ b.gen = st.active.target
  /\ b.genFloor = st.genFloor /\ b.sel = st.active.cand /\ b.secFloor = st.secFloor
  /\ KeepsWork(b.active, st.active)
  /\ b.active.stage = "Committed" /\ b.active.seen = st.active.seen

\* The state any other record leads to: nothing is active, and the outcome is kept.
Ends(st, b, kind) ==
  /\ b \in States /\ b.counter = st.counter /\ b.gen = st.gen
  /\ b.genFloor = st.genFloor /\ b.sel = st.sel /\ b.secFloor = st.secFloor
  /\ b.active = None /\ b.terminal.tx = st.active.tx /\ b.terminal.op = st.active.op
  /\ b.terminal.outcome = Outcome(kind)

\* An Admission opens a lineage or adds a transaction to it.
LEMMA AdmitEffect ==
  ASSUME NEW st \in States, NEW o \in Offers, st.active # None => st.active \in Actives
  PROVE  Admits(st, Admit(st, o), o)
<1> DEFINE old == st.active
           a == [tx |-> o.tx, op |-> o.op, cand |-> o.cand, seen |-> SeenBefore(old), lineage |-> Extended(old, o),
                 stage    |-> IF o.op = "FinishCommittedCleanup" THEN "Committed" ELSE "Admitted",
                 target   |-> IF o.op \in Publications THEN st.genFloor + 1 ELSE st.gen,
                 origin   |-> IF old = None THEN o.tx   ELSE old.origin,
                 first    |-> IF old = None THEN o.op   ELSE old.first,
                 original |-> IF old = None THEN o.cand ELSE old.original,
                 previous |-> IF old = None THEN st.sel ELSE old.previous]
<1>1. o.tx \in Nat /\ o.cand \in Selections /\ o.op \in Operations
  BY DEF Offers
<1>2. Extended(old, o) \in Seq(Nat)
  <2>1. CASE old = None
    BY <2>1, <1>1 DEF Extended
  <2>2. CASE old # None
    <3>1. old.lineage \in Seq(Nat)
      BY <2>2 DEF Actives
    <3> QED
      BY <2>2, <3>1, <1>1 DEF Extended
  <2> QED
    BY <2>1, <2>2
<1>3. st.genFloor + 1 \in Nat /\ st.gen \in Nat /\ st.sel \in Selections
  BY DEF States
<1>4. a \in Actives
  <2>1. old # None => /\ old.origin \in Nat /\ old.seen \in BOOLEAN /\ old.original \in Selections
                      /\ old.previous \in Selections /\ old.first \in Operations
    BY DEF Actives
  <2>2. SeenBefore(old) \in BOOLEAN
    BY <2>1 DEF SeenBefore
  <2>3. a.stage \in Phases /\ a.target \in Nat /\ a.origin \in Nat /\ a.first \in Operations
        /\ a.original \in Selections /\ a.previous \in Selections
    BY <1>1, <1>3, <2>1 DEF Phases
  <2> QED
    BY <1>1, <1>2, <2>2, <2>3 DEF Actives
<1>5. Admit(st, o) = [st EXCEPT !.counter = st.counter + 1, !.active = a]
  <2>1. Admit(st, o) = [st EXCEPT !.counter = @ + 1, !.active = a]
    BY DEF Admit
  <2> HIDE DEF a
  <2> QED
    BY <2>1 DEF States
<1>6. LET n == [st EXCEPT !.counter = st.counter + 1, !.active = a]
      IN  /\ n \in States /\ n.counter = st.counter + 1 /\ n.gen = st.gen
          /\ n.genFloor = st.genFloor /\ n.secFloor = st.secFloor /\ n.sel = st.sel
          /\ n.terminal = st.terminal /\ n.active = a
  <2> DEFINE c == st.counter + 1
  <2>1. c \in Nat
    BY DEF States
  <2> HIDE DEF a, c
  <2>2. LET n == [st EXCEPT !.counter = c, !.active = a]
        IN  /\ n \in States /\ n.counter = c /\ n.gen = st.gen
            /\ n.genFloor = st.genFloor /\ n.secFloor = st.secFloor /\ n.sel = st.sel
            /\ n.terminal = st.terminal /\ n.active = a
    BY <1>4, <2>1 DEF States
  <2> QED
    BY <2>2 DEF c
<1>7. /\ a.tx = o.tx /\ a.op = o.op /\ a.cand = o.cand /\ a.seen = SeenBefore(old)
      /\ a.lineage = Extended(old, o)
      /\ a.stage = (IF o.op = "FinishCommittedCleanup" THEN "Committed" ELSE "Admitted")
      /\ a.target = (IF o.op \in Publications THEN st.genFloor + 1 ELSE st.gen)
      /\ a.origin = (IF old = None THEN o.tx ELSE old.origin)
  OBVIOUS
<1> QED
  <2> HIDE DEF a
  <2> QED
    BY <1>4, <1>5, <1>6, <1>7 DEF Admits

\* A Block record raises the floors and hides the selection.
LEMMA BlockEffect ==
  ASSUME NEW st \in States, st.active \in Actives, NEW r, r.kind = "Block"
  PROVE  Blocks(st, Advanced(st, r))
<1> DEFINE old == st.active
           a == [old EXCEPT !.stage = "Blocked", !.seen = TRUE]
           floor == RaisedFloor(st)
<1>1. KeepsWork(a, old) /\ a.stage = "Blocked" /\ a.seen = TRUE
  BY DEF Actives, KeepsWork, Phases
<1>2. floor = Larger(st.secFloor, Larger(old.cand.epoch, st.sel.epoch)) /\ floor \in Nat
  <2>1. st.sel \in Selections /\ old.cand \in Selections /\ st.secFloor \in Nat
    BY DEF States, Actives
  <2> QED
    BY <2>1, SelectionFacts DEF RaisedFloor, Larger
<1>3. Advanced(st, r) = [st EXCEPT !.active = a, !.genFloor = old.target, !.secFloor = floor]
  <2>1. Advanced(st, r) = [st EXCEPT !.active.stage = "Blocked", !.active.seen = TRUE,
                                     !.genFloor = old.target, !.secFloor = floor]
    BY DEF Advanced
  <2> HIDE DEF floor
  <2> QED
    BY <2>1 DEF States
<1>4. old.target \in Nat /\ a \in Actives
  BY <1>1 DEF Actives, KeepsWork
<1>5. LET n == [st EXCEPT !.active = a, !.genFloor = old.target, !.secFloor = floor]
      IN  /\ n \in States /\ n.counter = st.counter /\ n.gen = st.gen
          /\ n.genFloor = old.target /\ n.sel = st.sel /\ n.secFloor = floor /\ n.active = a
  <2> HIDE DEF a, floor
  <2> QED
    BY <1>2, <1>4 DEF States
<1> QED
  <2> HIDE DEF a, floor
  <2> QED
    BY <1>1, <1>2, <1>3, <1>5 DEF Blocks

\* A Commit record replaces the selection.
LEMMA CommitEffect ==
  ASSUME NEW st \in States, st.active \in Actives, NEW r, r.kind = "Commit"
  PROVE  Commits(st, Advanced(st, r))
<1> DEFINE old == st.active
           a == [old EXCEPT !.stage = "Committed"]
<1>1. KeepsWork(a, old) /\ a.stage = "Committed" /\ a.seen = old.seen
  BY DEF Actives, KeepsWork, Phases
<1>2. old.target \in Nat /\ old.cand \in Selections /\ a \in Actives
  BY <1>1 DEF Actives, KeepsWork
<1>3. Advanced(st, r) = [st EXCEPT !.active = a, !.gen = old.target, !.sel = old.cand]
  <2>1. Advanced(st, r) = [st EXCEPT !.active.stage = "Committed", !.gen = old.target, !.sel = old.cand]
    BY DEF Advanced
  <2> QED
    BY <2>1 DEF States
<1>4. LET n == [st EXCEPT !.active = a, !.gen = old.target, !.sel = old.cand]
      IN  /\ n \in States /\ n.counter = st.counter /\ n.gen = old.target
          /\ n.genFloor = st.genFloor /\ n.sel = old.cand /\ n.secFloor = st.secFloor /\ n.active = a
  <2> HIDE DEF a
  <2> QED
    BY <1>2 DEF States
<1> QED
  <2> HIDE DEF a
  <2> QED
    BY <1>1, <1>3, <1>4 DEF Commits

\* The other records end the lineage.
LEMMA EndEffect ==
  ASSUME NEW st \in States, st.active \in Actives, NEW r, r.kind \in {"Complete", "Retire", "AuthorizeCheckpoint"}
  PROVE  Ends(st, Advanced(st, r), r.kind)
<1> DEFINE t == [tx |-> st.active.tx, op |-> st.active.op, outcome |-> Outcome(r.kind)]
<1>1. t \in Terminals
  BY DEF Terminals, Actives, Outcome
<1>2. Advanced(st, r) = [st EXCEPT !.active = None, !.terminal = t]
  BY DEF Advanced
<1>3. t.tx = st.active.tx /\ t.op = st.active.op /\ t.outcome = Outcome(r.kind)
  OBVIOUS
<1> HIDE DEF t
<1>4. LET n == [st EXCEPT !.active = None, !.terminal = t]
      IN  /\ n \in States /\ n.counter = st.counter /\ n.gen = st.gen
          /\ n.genFloor = st.genFloor /\ n.sel = st.sel /\ n.secFloor = st.secFloor /\ n.active = None
          /\ n.terminal = t
  BY <1>1 DEF States
<1> QED
  BY <1>2, <1>3, <1>4 DEF Ends
-----------------------------------------------------------------------------
\* The phase of the ledger.
PhaseOf(st) == IF st.active = None THEN "Stable" ELSE IF Unresolved(st) THEN "Blocked" ELSE st.active.stage

\* Nothing but the active work and its outcome changes.
SameDeployment(st, n) ==
  n.gen = st.gen /\ n.genFloor = st.genFloor /\ n.secFloor = st.secFloor /\ n.sel = st.sel

\* The same lineage is still active.
SameLineage(st, n) ==
  /\ n.counter = st.counter /\ n.active # None /\ LineageOf(n) = LineageOf(st)
  /\ n.active.tx = st.active.tx /\ n.active.op = st.active.op /\ n.active.origin = st.active.origin

\* The step of the ledger a record of each kind stands for.
Moves(st, n, kind) ==
  CASE kind = "Admission" ->
         /\ n.counter = st.counter + 1 /\ SameDeployment(st, n)
         /\ PhaseOf(n) = IF PhaseOf(st) = "Stable" THEN "Admitted" ELSE PhaseOf(st)
         /\ n.active # None /\ LineageOf(n) = LineageOf(st) \cup {n.counter}
         /\ n.active.origin = (IF st.active = None THEN n.counter ELSE st.active.origin)
         /\ n.active.seen = SeenBefore(st.active)
    [] kind = "Block" ->
         /\ PhaseOf(st) \in {"Admitted", "Blocked"} /\ PhaseOf(n) = "Blocked"
         /\ n.genFloor = st.genFloor + 1 /\ n.secFloor >= st.secFloor /\ n.secFloor >= st.sel.epoch
         /\ n.gen = st.gen /\ n.sel = st.sel /\ SameLineage(st, n) /\ n.active.seen
    [] kind = "Commit" ->
         /\ PhaseOf(st) = "Blocked" /\ PhaseOf(n) = "Committed"
         /\ n.gen = st.genFloor /\ NotBelow(n.sel, st.secFloor)
         /\ n.genFloor = st.genFloor /\ n.secFloor = st.secFloor /\ SameLineage(st, n) /\ n.active.seen
    [] OTHER ->
         /\ PhaseOf(st) = (IF kind = "Complete" THEN "Committed" ELSE "Admitted") /\ PhaseOf(n) = "Stable"
         /\ n.counter = st.counter /\ SameDeployment(st, n) /\ n.active = None
         /\ kind = "Retire" => ~st.active.seen

\* The room a record may use: what its admission asked for, then what was reserved.
Budget(st, r) == IF r.kind = "Admission" THEN Costs(r.offer.op) ELSE Reserve(st)

\* The record r leads from st to the sound state n, within its room.
Advances(st, n, r) ==
  /\ Sound(n) /\ n.seq = r.seq /\ r.tx = n.counter /\ Moves(st, n, r.kind)
  /\ r.kind = "Admission" => n.active.op = r.offer.op
  /\ Reserve(n) + 1 <= Budget(st, r)

\* What is in scope where nothing is active, and where something is.
LEMMA ScopeFacts ==
  ASSUME NEW st, Sound(st), NEW o \in Offers, NEW count, InScope(st, o, count)
  PROVE  /\ st.active = None => o.op \in {"Maintenance"} \cup CheckpointOps
         /\ st.active # None => \/ o.op = "RecoverPublication" /\ Unresolved(st)
                                \/ o.op = "FinishCommittedCleanup" /\ st.active.stage = "Committed"
                                \/ o.op = "RetireAdmittedCandidate" /\ Retirable(st.active)
         /\ NotBelow(o.cand, st.secFloor) /\ NotBelow(o.cand, st.sel.epoch)
         /\ o.op \in Publications => st.genFloor < MaxGen
<1>1. o.op \in Operations /\ o.cand \in Selections
  BY DEF Offers
<1>2. NotBelow(o.cand, st.secFloor) /\ NotBelow(o.cand, st.sel.epoch)
  <2>1. o.cand # Nothing => o.cand.epoch >= Larger(st.secFloor, st.sel.epoch)
    BY DEF InScope
  <2>2. st.secFloor \in Nat /\ st.sel.epoch \in Nat /\ o.cand.epoch \in Nat
    BY <1>1, SelectionFacts DEF Sound, Bounded, States
  <2> QED
    BY <2>1, <2>2 DEF Larger, NotBelow
<1>3. o.op \in Publications => st.genFloor < MaxGen
  BY DEF InScope
<1>4. /\ o.op = "Maintenance" => st.active = None
      /\ o.op = "RecoverPublication" => Unresolved(st)
      /\ o.op = "FinishCommittedCleanup" => st.active # None /\ st.active.stage = "Committed"
      /\ o.op = "RetireAdmittedCandidate" => st.active # None /\ Retirable(st.active)
      /\ o.op \in CheckpointOps => st.active = None
  BY DEF InScope, CheckpointOps
<1>5. Unresolved(st) => st.active # None
  BY DEF Unresolved
<1> QED
  BY <1>1, <1>2, <1>3, <1>4, <1>5 DEF Operations, Publications, MetaOps, CheckpointOps

\* An admissible Admission leads from a sound state to a sound state.
LEMMA AdmissionAdvances ==
  ASSUME NEW st, Sound(st), NEW d, NEW r \in Records, r.kind = "Admission", r.seq = st.seq + 1, st.seq < MaxSeq,
         Fits(d, st, r)
  PROVE  Advances(st, Chained(st, r), r)
<1> DEFINE n == Chained(st, r)
           o == r.offer
           old == st.active
           a == n.active
<1>1. st \in States /\ (old # None => old \in Actives)
  BY DEF Sound, Bounded, States
<1>2. o \in Offers /\ o.tx = r.tx /\ Authorized(d, st, o)
  BY DEF Records, Fits
<1>3. n \in States /\ n.seq = r.seq /\ Admits(st, Admit(st, o), o) /\ SameBody(Admit(st, o), n)
  <2>1. Admits(st, Admit(st, o), o)
    BY <1>1, <1>2, AdmitEffect
  <2>2. Advanced(st, r) = Admit(st, o)
    BY DEF Advanced
  <2> QED
    BY <2>1, <2>2, ChainedFields DEF Admits
<1>4. /\ n.counter = st.counter + 1 /\ SameDeployment(st, n) /\ n.terminal = st.terminal
      /\ a \in Actives /\ a # None /\ a.tx = o.tx /\ a.op = o.op /\ a.cand = o.cand /\ a.seen = SeenBefore(old)
      /\ a.lineage = Extended(old, o)
      /\ a.stage = (IF o.op = "FinishCommittedCleanup" THEN "Committed" ELSE "Admitted")
      /\ a.target = (IF o.op \in Publications THEN st.genFloor + 1 ELSE st.gen)
      /\ a.origin = (IF old = None THEN o.tx ELSE old.origin)
  <2> HIDE DEF n, o
  <2> QED
    BY <1>3, NullAssumption DEF Admits, SameBody, SameDeployment
<1>5. /\ st.seq \in Nat /\ st.counter \in Nat /\ st.gen \in Nat /\ st.genFloor \in Nat /\ st.secFloor \in Nat
      /\ st.sel \in Selections /\ o.cand \in Selections /\ o.tx \in Nat /\ o.op \in Operations
  BY <1>1, <1>2 DEF States, Offers
<1>6. /\ o.tx = st.counter + 1 /\ st.counter < MaxCounter
      /\ (old # None => Len(old.lineage) < MaxLineage) /\ InScope(st, o, Len(d.records))
  BY <1>2 DEF Authorized, HasCapacity
<1>7. /\ old = None => o.op \in {"Maintenance"} \cup CheckpointOps
      /\ old # None => \/ o.op = "RecoverPublication" /\ Unresolved(st)
                       \/ o.op = "FinishCommittedCleanup" /\ old.stage = "Committed"
                       \/ o.op = "RetireAdmittedCandidate" /\ Retirable(old)
      /\ NotBelow(o.cand, st.secFloor) /\ NotBelow(o.cand, st.sel.epoch)
      /\ o.op \in Publications => st.genFloor < MaxGen
  BY <1>2, <1>6, ScopeFacts
<1> HIDE DEF n, o
<1>8. Bounded(n)
  BY <1>3, <1>4, <1>5, <1>6, Bounds, SMTT(30) DEF Sound, Bounded, SameDeployment
<1>9. ToSet(a.lineage) = LineageOf(st) \cup {n.counter} /\ Len(a.lineage) \in 1..MaxLineage
  <2>1. CASE old = None
    BY <2>1, <1>4, <1>5, <1>6, Bounds DEF Extended, LineageOf, ToSet
  <2>2. CASE old # None
    <3> DEFINE q == old.lineage
    <3>1. q \in Seq(Nat) /\ a.lineage = Append(q, o.tx) /\ LineageOf(st) = ToSet(q)
      BY <2>2, <1>1, <1>4 DEF Extended, LineageOf, Actives
    <3>2. Len(q) < MaxLineage
      BY <2>2, <1>6
    <3> HIDE DEF q
    <3>3. ToSet(Append(q, o.tx)) = ToSet(q) \cup {o.tx}
      <4>1. PICK t \in Nat : t = o.tx
        BY <1>5
      <4>2. ToSet(Append(q, t)) = ToSet(q) \cup {t}
        BY ONLY <3>1, t \in Nat, AppendedSet
      <4> QED
        BY <4>1, <4>2
    <3>4. Len(a.lineage) \in 1..MaxLineage
      <4>1. Len(Append(q, o.tx)) = Len(q) + 1 /\ Len(q) \in Nat
        BY <3>1
      <4> QED
        BY <3>1, <3>2, <4>1, Bounds
    <3> QED
      BY <3>1, <3>3, <3>4, <1>4, <1>6
  <2> QED
    BY <2>1, <2>2
<1>10. LineageOf(st) \subseteq 1..st.counter /\ (old # None => old.origin \in 1..st.counter)
  BY DEF Sound, Working, LineageOf
<1>11. a.stage = "Committed" \/ ~Unresolved(st) \/ o.op = "RecoverPublication"
  BY <1>4, <1>7 DEF Unresolved, Retirable
<1>12. a.seen => old # None /\ old.seen
  BY <1>4 DEF SeenBefore
<1>13. Working(n, a)
  <2>1. ToSet(a.lineage) \subseteq 1..n.counter /\ a.origin \in 1..n.counter /\ a.tx = n.counter
    BY <1>4, <1>5, <1>6, <1>9, <1>10
  <2>2. a.target <= MaxGen
    <3>1. st.gen <= MaxGen /\ (o.op \in Publications => st.genFloor < MaxGen) /\ st.gen \in Nat /\ st.genFloor \in Nat
      BY <1>5, <1>7 DEF Sound, Bounded
    <3> QED
      BY <3>1, <1>4, Bounds
  <2>3. a.op \in MetaOps => a.stage = "Admitted" /\ ~a.seen
    <3>1. SUFFICES ASSUME o.op \in MetaOps PROVE a.stage = "Admitted" /\ ~a.seen
      BY <1>4
    <3>2. o.op # "FinishCommittedCleanup" /\ o.op # "RecoverPublication"
      BY <3>1 DEF MetaOps, CheckpointOps
    <3>3. old # None => ~old.seen
      BY <3>2, <1>7 DEF Retirable
    <3> QED
      BY <3>2, <3>3, <1>4, <1>12
  <2> QED
    BY <2>1, <2>2, <2>3, <1>4, <1>9 DEF Working
<1>14. Targeted(n, a)
  BY <1>4, <1>7 DEF Targeted, SameDeployment
<1>15. Unresolved(n) <=> Unresolved(st)
  <2>1. CASE old = None
    BY <2>1, <1>4 DEF Unresolved, SeenBefore
  <2>2. CASE old # None
    BY <2>2, <1>4, <1>7 DEF Unresolved, SeenBefore, Retirable
  <2> QED
    BY <2>1, <2>2
<1>16. Sound(n)
  BY <1>4, <1>8, <1>13, <1>14, <1>15 DEF Sound, SameDeployment
<1>17. Moves(st, n, "Admission")
  <2>1. LineageOf(n) = LineageOf(st) \cup {n.counter}
    BY <1>4, <1>9 DEF LineageOf
  <2>2. PhaseOf(n) = IF PhaseOf(st) = "Stable" THEN "Admitted" ELSE PhaseOf(st)
    <3>1. CASE old = None
      <4>1. o.op # "FinishCommittedCleanup" /\ ~Unresolved(st)
        BY <3>1, <1>7 DEF CheckpointOps, Unresolved
      <4> QED
        BY <3>1, <4>1, <1>4, <1>15 DEF PhaseOf
    <3>2. CASE old # None
      <4>1. old.stage # "Stable"
        BY <3>2 DEF Sound, Working
      <4> QED
        BY <3>2, <4>1, <1>4, <1>7, <1>15 DEF PhaseOf, Retirable, Unresolved
    <3> QED
      BY <3>1, <3>2
  <2> QED
    BY <2>1, <2>2, <1>4, <1>6 DEF Moves
<1>18. Reserve(n) + 1 <= Costs(o.op)
  BY <1>4, <1>5 DEF Reserve, Outstanding, Costs, Publications, CheckpointOps, Operations, MetaOps
<1> QED
  BY <1>2, <1>3, <1>4, <1>6, <1>16, <1>17, <1>18 DEF Advances, Budget, n, o

\* So does a Block: the candidate still satisfies the raised floors.
LEMMA BlockAdvances ==
  ASSUME NEW st, Sound(st), NEW d, NEW r \in Records, r.kind = "Block", r.seq = st.seq + 1, st.seq < MaxSeq,
         Fits(d, st, r)
  PROVE  Advances(st, Chained(st, r), r)
<1> DEFINE n == Chained(st, r)
           old == st.active
           a == n.active
<1>1. st \in States /\ old # None /\ old \in Actives /\ old.tx = r.tx /\ old.stage = "Admitted" /\ old.op \in Publications
  BY DEF Sound, Bounded, States, Fits
<1>2. n \in States /\ n.seq = r.seq /\ Blocks(st, Advanced(st, r)) /\ SameBody(Advanced(st, r), n)
  <2>1. Blocks(st, Advanced(st, r))
    BY <1>1, BlockEffect
  <2> QED
    BY <2>1, ChainedFields DEF Blocks
<1>3. /\ n.counter = st.counter /\ n.gen = st.gen /\ n.genFloor = old.target /\ n.sel = st.sel
      /\ n.secFloor = Larger(st.secFloor, Larger(old.cand.epoch, st.sel.epoch))
      /\ KeepsWork(a, old) /\ a.stage = "Blocked" /\ a.seen = TRUE /\ a # None
  <2> HIDE DEF n
  <2> QED
    BY <1>2, NullAssumption DEF Blocks, SameBody, KeepsWork
<1>4. /\ st.seq \in Nat /\ st.counter \in Nat /\ st.gen \in Nat /\ st.genFloor \in Nat /\ st.secFloor \in Nat
      /\ st.sel \in Selections /\ old.cand \in Selections /\ old.target \in Nat
  BY <1>1 DEF States, Actives
<1> HIDE DEF n
<1>5. Working(st, old) /\ Targeted(st, old)
  BY <1>1 DEF Sound
<1>6. old.target = st.genFloor + 1 /\ NotBelow(old.cand, st.secFloor) /\ NotBelow(old.cand, st.sel.epoch)
  BY <1>1, <1>5 DEF Targeted
<1>7. /\ n.secFloor >= st.secFloor /\ n.secFloor >= st.sel.epoch /\ n.secFloor <= MaxEpoch
      /\ AtFloor(old.cand, n.secFloor)
  <2>1. \A x \in {st.sel, old.cand} :
          x.epoch \in Nat /\ x.epoch <= MaxEpoch /\ (x = Nothing => x.epoch = 0)
    BY <1>4, SelectionFacts
  <2>2. st.secFloor <= MaxEpoch
    BY DEF Sound, Bounded
  <2> QED
    BY <2>1, <2>2, <1>3, <1>4, <1>6, Bounds DEF Larger, NotBelow, AtFloor
<1>8. Bounded(n)
  <2>1. old.target <= MaxGen
    BY <1>5 DEF Working
  <2> QED
    BY <2>1, <1>2, <1>3, <1>4, <1>7, Bounds DEF Sound, Bounded
<1>9. Working(n, a)
  <2>1. old.op \notin MetaOps
    BY <1>1 DEF Publications, MetaOps, CheckpointOps
  <2> QED
    BY <2>1, <1>1, <1>3, <1>5 DEF Working, KeepsWork
<1>10. Targeted(n, a)
  BY <1>3, <1>7 DEF Targeted, KeepsWork
<1>11. Unresolved(n) /\ n.gen < n.genFloor
  <2>1. st.gen <= st.genFloor
    BY <1>4 DEF Sound
  <2> QED
    BY <2>1, <1>3, <1>4, <1>6 DEF Unresolved
<1>12. Sound(n)
  BY <1>3, <1>8, <1>9, <1>10, <1>11 DEF Sound
<1>13. SameLineage(st, n)
  BY <1>1, <1>3 DEF SameLineage, LineageOf, KeepsWork
<1>14. Moves(st, n, "Block")
  BY <1>1, <1>3, <1>6, <1>7, <1>11, <1>13 DEF Moves, PhaseOf
<1>15. Reserve(n) + 1 <= Reserve(st)
  BY <1>1, <1>3 DEF Reserve, Outstanding, KeepsWork, Publications, CheckpointOps
<1> QED
  BY <1>1, <1>2, <1>3, <1>5, <1>12, <1>14, <1>15 DEF Advances, Budget, Working, n

\* So does a Commit: what becomes visible is exactly at the security floor.
LEMMA CommitAdvances ==
  ASSUME NEW st, Sound(st), NEW d, NEW r \in Records, r.kind = "Commit", r.seq = st.seq + 1, st.seq < MaxSeq,
         Fits(d, st, r)
  PROVE  Advances(st, Chained(st, r), r)
<1> DEFINE n == Chained(st, r)
           old == st.active
           a == n.active
<1>1. st \in States /\ old # None /\ old \in Actives /\ old.tx = r.tx /\ old.stage = "Blocked"
  BY DEF Sound, Bounded, States, Fits
<1>2. n \in States /\ n.seq = r.seq /\ Commits(st, Advanced(st, r)) /\ SameBody(Advanced(st, r), n)
  <2>1. Commits(st, Advanced(st, r))
    BY <1>1, CommitEffect
  <2> QED
    BY <2>1, ChainedFields DEF Commits
<1>3. /\ n.counter = st.counter /\ n.gen = old.target /\ n.genFloor = st.genFloor /\ n.sel = old.cand
      /\ n.secFloor = st.secFloor
      /\ KeepsWork(a, old) /\ a.stage = "Committed" /\ a.seen = old.seen /\ a # None
  <2> HIDE DEF n
  <2> QED
    BY <1>2, NullAssumption DEF Commits, SameBody, KeepsWork
<1>4. /\ st.seq \in Nat /\ st.counter \in Nat /\ st.gen \in Nat /\ st.genFloor \in Nat /\ st.secFloor \in Nat
      /\ old.cand \in Selections /\ old.cand.epoch \in Nat
  BY <1>1, SelectionFacts DEF States, Actives
<1> HIDE DEF n
<1>5. Working(st, old) /\ Targeted(st, old)
  BY <1>1 DEF Sound
<1>6. old.seen /\ old.op \in Publications /\ old.target = st.genFloor /\ AtFloor(old.cand, st.secFloor)
  BY <1>1, <1>5 DEF Working, Targeted
<1>7. Bounded(n)
  BY <1>2, <1>3, <1>4, <1>6, Bounds DEF Sound, Bounded
<1>8. Working(n, a)
  <2>1. old.op \notin MetaOps
    BY <1>6 DEF Publications, MetaOps, CheckpointOps
  <2> QED
    BY <2>1, <1>3, <1>5 DEF Working, KeepsWork
<1>9. Targeted(n, a)
  BY <1>3 DEF Targeted
<1>10. Sound(n)
  BY <1>3, <1>6, <1>7, <1>8, <1>9 DEF Sound, Unresolved
<1>11. SameLineage(st, n)
  BY <1>1, <1>3 DEF SameLineage, LineageOf, KeepsWork
<1>12. Moves(st, n, "Commit")
  BY <1>1, <1>3, <1>4, <1>6, <1>11 DEF Moves, PhaseOf, Unresolved, AtFloor, NotBelow
<1>13. Reserve(n) + 1 <= Reserve(st)
  BY <1>1, <1>3, <1>6 DEF Reserve, Outstanding, KeepsWork, Publications, CheckpointOps
<1> QED
  BY <1>1, <1>2, <1>3, <1>5, <1>10, <1>12, <1>13 DEF Advances, Budget, Working, n

\* So does the end of the active work, which leaves the deployment alone.
LEMMA EndAdvances ==
  ASSUME NEW st, Sound(st), NEW d, NEW r \in Records, r.kind \in {"Complete", "Retire", "AuthorizeCheckpoint"},
         r.seq = st.seq + 1, st.seq < MaxSeq, Fits(d, st, r)
  PROVE  Advances(st, Chained(st, r), r)
<1> DEFINE n == Chained(st, r)
           old == st.active
<1>1. st \in States /\ old # None /\ old \in Actives /\ old.tx = r.tx
  BY DEF Sound, Bounded, States, Fits
<1>2. CASE \/ r.kind = "Complete" /\ old.stage = "Committed"
           \/ r.kind = "Retire" /\ old.op = "RetireAdmittedCandidate" /\ Retirable(old)
           \/ r.kind = "AuthorizeCheckpoint" /\ old.op \in CheckpointOps /\ old.stage = "Admitted"
  <2>1. n \in States /\ n.seq = r.seq /\ Ends(st, Advanced(st, r), r.kind) /\ SameBody(Advanced(st, r), n)
    <3>1. Ends(st, Advanced(st, r), r.kind)
      BY <1>1, EndEffect
    <3> QED
      BY <3>1, ChainedFields DEF Ends
  <2>2. /\ n.counter = st.counter /\ SameDeployment(st, n) /\ n.active = None
        /\ n.terminal.tx = old.tx /\ n.terminal.op = old.op /\ n.terminal.outcome = Outcome(r.kind)
    <3> HIDE DEF n
    <3> QED
      BY <2>1 DEF Ends, SameBody, SameDeployment
  <2> HIDE DEF n
  <2>3. Working(st, old) /\ old.tx = st.counter /\ old.op \in Operations
    BY <1>1 DEF Sound, Working, Actives
  <2>4. ~Unresolved(st)
    <3>1. old.op \in MetaOps => ~old.seen
      BY <2>3 DEF Working
    <3> QED
      BY <3>1, <1>2 DEF Unresolved, Retirable, MetaOps
  <2>5. Bounded(n)
    <3>1. st.seq \in Nat
      BY <1>1 DEF States
    <3> QED
      BY <3>1, <2>1, <2>2, Bounds DEF Sound, Bounded, SameDeployment
  <2>6. n.terminal.outcome = OutcomeOf(n.terminal.op)
    <3>1. old.stage = "Committed" => old.op \notin MetaOps
      BY <2>3 DEF Working
    <3>2. CASE r.kind = "Complete" /\ old.stage = "Committed"
      BY <3>1, <3>2, <2>2 DEF Outcome, OutcomeOf, MetaOps
    <3>3. CASE r.kind = "Retire" /\ old.op = "RetireAdmittedCandidate"
      BY <3>3, <2>2 DEF Outcome, OutcomeOf, CheckpointOps
    <3>4. CASE r.kind = "AuthorizeCheckpoint" /\ old.op \in CheckpointOps
      BY <3>4, <2>2 DEF Outcome, OutcomeOf, CheckpointOps
    <3> QED
      BY <3>2, <3>3, <3>4, <1>2
  <2>7. ~Unresolved(n)
    BY <2>2 DEF Unresolved
  <2>8. Sound(n)
    BY <2>2, <2>3, <2>4, <2>5, <2>6, <2>7 DEF Sound, Ended, SameDeployment
  <2>9. PhaseOf(st) = (IF r.kind = "Complete" THEN "Committed" ELSE "Admitted") /\ PhaseOf(n) = "Stable"
    BY <1>1, <1>2, <2>2, <2>4 DEF PhaseOf, Retirable
  <2>10. r.kind = "Retire" => ~old.seen
    BY <1>2 DEF Retirable
  <2>11. Moves(st, n, r.kind)
    BY <2>2, <2>9, <2>10 DEF Moves
  <2>12. Reserve(n) + 1 <= Reserve(st)
    <3>1. Outstanding(old) = 1
      BY <1>2, <2>3 DEF Outstanding, Publications, CheckpointOps
    <3> QED
      BY <3>1, <1>1, <2>2 DEF Reserve
  <2> QED
    BY <1>1, <2>1, <2>2, <2>3, <2>8, <2>11, <2>12 DEF Advances, Budget, n
<1> QED
  BY <1>1, <1>2 DEF Fits

\* So does every admissible record.
LEMMA RecordAdvances ==
  ASSUME NEW st, Sound(st), NEW d, NEW r \in Records, r.seq = st.seq + 1, st.seq < MaxSeq, Fits(d, st, r)
  PROVE  Advances(st, Chained(st, r), r)
<1>1. r.kind \in Kinds
  BY DEF Records
<1> QED
  BY <1>1, AdmissionAdvances, BlockAdvances, CommitAdvances, EndAdvances DEF Kinds

\* Nothing that a record does lowers a floor or a counter.
LEMMA AdvanceRaises ==
  ASSUME NEW st, NEW n, NEW r \in Records, Sound(st), Advances(st, n, r)
  PROVE  st.counter <= n.counter /\ st.genFloor <= n.genFloor /\ st.secFloor <= n.secFloor
<1>1. /\ st.counter \in Nat /\ st.genFloor \in Nat /\ st.secFloor \in Nat
      /\ n.counter \in Nat /\ n.genFloor \in Nat /\ n.secFloor \in Nat
  BY DEF Advances, Sound, Bounded, States
<1>2. r.kind \in Kinds /\ Moves(st, n, r.kind)
  BY DEF Records, Advances
<1>3. CASE r.kind = "Admission"
  BY <1>1, <1>2, <1>3 DEF Moves, SameDeployment
<1>4. CASE r.kind = "Block"
  BY <1>1, <1>2, <1>4 DEF Moves, SameLineage
<1>5. CASE r.kind = "Commit"
  BY <1>1, <1>2, <1>5 DEF Moves, SameLineage
<1>6. CASE r.kind \in {"Complete", "Retire", "AuthorizeCheckpoint"}
  BY <1>1, <1>2, <1>6 DEF Moves, SameDeployment
<1> QED
  BY <1>2, <1>3, <1>4, <1>5, <1>6 DEF Kinds
-----------------------------------------------------------------------------
(* The parts of the store the invariant is made of                         *)

\* A sound state has a head that can be published.
LEMMA HeadTyped ==
  ASSUME NEW st, Sound(st)
  PROVE  HeadFor(st) \in Heads /\ HeadFor(st).counter = st.counter /\ HeadFor(st).genFloor = st.genFloor
         /\ HeadFor(st).secFloor = st.secFloor
         /\ HeadFor(st).sel = (IF Unresolved(st) THEN Nothing ELSE st.sel)
<1>1. st \in States /\ (st.active # None => st.active \in Actives)
  BY DEF Sound, Bounded, States
<1> DEFINE phase == IF st.active = None THEN "Stable" ELSE st.active.stage
           sel == IF Unresolved(st) THEN Nothing ELSE st.sel
<1>2. phase \in Phases
  BY <1>1 DEF Actives, Phases
<1>3. sel \in Selections
  BY <1>1, SelectionFacts DEF States
<1>4. HeadFor(st) = [seq |-> st.seq, counter |-> st.counter, gen |-> st.gen, genFloor |-> st.genFloor,
                     secFloor |-> st.secFloor, sel |-> sel, phase |-> phase, tail |-> st.tail]
  BY DEF HeadFor
<1> HIDE DEF phase, sel
<1>5. HeadFor(st) \in Heads /\ HeadFor(st).counter = st.counter /\ HeadFor(st).genFloor = st.genFloor
      /\ HeadFor(st).secFloor = st.secFloor /\ HeadFor(st).sel = sel
  BY <1>1, <1>2, <1>3, <1>4 DEF Heads, States
<1> QED
  BY <1>5 DEF sel

\* The anchor of a state holds all but its active work and its tail.
SameAnchor(st, a) ==
  /\ a.seq = st.seq /\ a.counter = st.counter /\ a.gen = st.gen /\ a.genFloor = st.genFloor
  /\ a.secFloor = st.secFloor /\ a.sel = st.sel /\ a.terminal = st.terminal

\* A settled state becomes a valid anchor, and the anchor the same deployment again.
LEMMA AnchorKeeps ==
  ASSUME NEW st, Sound(st), st.active = None, NEW a, a = AnchorOf(st), NEW n, n = AtAnchor(a)
  PROVE  /\ a \in Anchors /\ a # None /\ ValidAnchor(a) /\ SameAnchor(st, a)
         /\ Sound(n) /\ Start(a) = n /\ SameAnchor(st, n) /\ n.active = None
<1>1. st \in States /\ ~Unresolved(st) /\ st.gen = st.genFloor /\ AtFloor(st.sel, st.secFloor) /\ Ended(st)
  BY DEF Sound, Bounded, Unresolved
<1>2. a \in Anchors /\ SameAnchor(st, a)
  BY <1>1 DEF AnchorOf, Anchors, States, SameAnchor
<1>3. ValidAnchor(a)
  <2>1. st.sel # Nothing => st.sel.epoch = st.secFloor /\ st.secFloor \in Nat
    BY <1>1 DEF AtFloor, States
  <2> QED
    BY <1>1, <1>2, <2>1 DEF ValidAnchor, SameAnchor, Ended
<1>4. <<a.seq, "anchor">> \in Tails
  BY <1>2 DEF Tails, Anchors
<1>5. /\ n \in States /\ SameAnchor(a, n) /\ n.active = None
  BY <1>2, <1>4 DEF AtAnchor, Anchors, States, SameAnchor
<1>6. SameAnchor(st, n)
  BY <1>2, <1>5 DEF SameAnchor
<1>7. Sound(n)
  <2>1. ~Unresolved(n)
    BY <1>5 DEF Unresolved
  <2>2. Bounded(n)
    BY <1>5, <1>6 DEF Bounded, Sound, SameAnchor
  <2>3. Ended(n)
    BY <1>1, <1>6 DEF Ended, SameAnchor
  <2> QED
    BY <1>1, <1>5, <1>6, <2>1, <2>2, <2>3 DEF Sound, SameAnchor
<1> QED
  BY <1>2, <1>3, <1>5, <1>6, <1>7, NullAssumption DEF Start

\* The parts of the invariant that are about what is stored.
StoredView == <<anchor, records, candidate, obsolete, s, finished, shown>>

\* A step that leaves the journal, the checkpoints and the state alone keeps their agreement.
LEMMA StoredFrame ==
  ASSUME IInv, UNCHANGED StoredView
  PROVE  JournalInv' /\ CheckpointInv' /\ FinishedInv' /\ ShownInv'
<1>1. /\ anchor' = anchor /\ records' = records /\ candidate' = candidate /\ obsolete' = obsolete
      /\ s' = s /\ finished' = finished /\ shown' = shown
  BY DEF StoredView
<1>2. JournalInv'
  BY <1>1 DEF IInv, JournalInv
<1>3. CheckpointInv'
  BY <1>1 DEF IInv, CheckpointInv, CheckpointsAgree
<1>4. FinishedInv'
  BY <1>1 DEF IInv, FinishedInv
<1>5. ShownInv'
  BY <1>1 DEF IInv, ShownInv, RetiredNeverShown
<1> QED
  BY <1>2, <1>3, <1>4, <1>5

\* What the record in flight leads to.
LEMMA ArrivingAdvances ==
  ASSUME IInv, Arriving
  PROVE  /\ pending.record \in Records /\ pending.record.seq = s.seq + 1 /\ s.seq < MaxSeq
         /\ Len(records) < MaxRecords /\ Fits(Disk, s, pending.record)
         /\ Advances(s, Chained(s, pending.record), pending.record)
<1>1. /\ pending.record \in Records /\ pending.record.seq = s.seq + 1 /\ s.seq < MaxSeq
      /\ Len(records) < MaxRecords /\ Fits(Disk, s, pending.record)
  BY DEF IInv, PendingInv, Arriving, Writes
<1>2. Sound(s)
  BY DEF IInv, JournalInv
<1> QED
  BY <1>1, <1>2, RecordAdvances

\* The minimum is never below the state a session works with.
LEMMA MinCovers ==
  ASSUME IInv
  PROVE  min \in Minima /\ min.counter >= s.counter /\ min.gen >= s.genFloor /\ min.secFloor >= s.secFloor
<1>1. CASE ~Arriving
  BY <1>1 DEF IInv, MinInv, Reached
<1>2. CASE Arriving
  <2> DEFINE r == pending.record
             n == Chained(s, r)
  <2>1. r \in Records /\ Advances(s, n, r) /\ Sound(s)
    BY <1>2, ArrivingAdvances DEF IInv, JournalInv
  <2>2. s.counter <= n.counter /\ s.genFloor <= n.genFloor /\ s.secFloor <= n.secFloor
    BY <2>1, AdvanceRaises
  <2>3. /\ s.counter \in Nat /\ s.genFloor \in Nat /\ s.secFloor \in Nat
        /\ n.counter \in Nat /\ n.genFloor \in Nat /\ n.secFloor \in Nat
    BY <2>1 DEF Advances, Sound, Bounded, States
  <2>4. /\ min \in Minima
        /\ min.counter >= n.counter /\ min.gen >= n.genFloor /\ min.secFloor >= n.secFloor
    BY <1>2 DEF IInv, MinInv, Reached
  <2>5. min.counter \in Nat /\ min.gen \in Nat /\ min.secFloor \in Nat
    BY <2>4 DEF Minima
  <2> HIDE DEF n, r
  <2> QED
    BY <2>2, <2>3, <2>4, <2>5
<1> QED
  BY <1>1, <1>2

\* However a session ends, what is stored is still sound and covered.
LEMMA CloseKeeps ==
  ASSUME IInv, NEW u \in BOOLEAN, Close(u),
         UNCHANGED <<anchor, records, head, candidate, obsolete, s, auth, finished, shown>>,
         UNCHANGED min \/ (u = TRUE /\ \E n : Raise(n) /\ n \in States)
  PROVE  IInv'
<1> USE DEF IInv
<1>1. /\ open' = FALSE /\ pending' = None /\ acks' = {} /\ headRequired' = FALSE /\ admitted' = FALSE
      /\ waiting' = FALSE /\ verified' = FALSE /\ published' = FALSE /\ completed' = FALSE
      /\ known' = (known /\ ~u /\ pending = None /\ ~headRequired)
  BY DEF Close
<1>2. JournalInv' /\ CheckpointInv' /\ FinishedInv' /\ ShownInv'
  BY StoredFrame DEF StoredView
<1>3. SessionInv'
  <2>1. known' \in BOOLEAN
    BY <1>1
  <2> QED
    BY <1>1, <2>1 DEF SessionInv
<1>4. PendingInv'
  BY <1>1 DEF PendingInv
<1>5. HeadInv'
  BY <1>1 DEF HeadInv
<1>6. MinInv'
  <2>1. Reached' = s /\ Sound(s)
    BY <1>1 DEF Reached, Arriving, JournalInv
  <2>2. s.counter \in Nat /\ s.genFloor \in Nat /\ s.secFloor \in Nat
    BY <2>1 DEF Sound, Bounded, States
  <2>3. CASE UNCHANGED min
    <3>1. known' => min = Minimum(s)
      BY <1>1 DEF MinInv, Reached, Arriving
    <3> QED
      BY <2>1, <2>3, <3>1, MinCovers DEF MinInv
  <2>4. CASE u = TRUE /\ \E n : Raise(n) /\ n \in States
    <3>1. PICK n \in States : Raise(n)
      BY <2>4
    <3>2. n.counter \in Nat /\ n.genFloor \in Nat /\ n.secFloor \in Nat
      BY DEF States
    <3>3. ~known'
      BY <1>1, <2>4
    <3>4. min \in Minima /\ min.counter >= s.counter /\ min.gen >= s.genFloor /\ min.secFloor >= s.secFloor
      BY MinCovers
    <3>5. /\ min' \in Minima
          /\ min'.counter >= s.counter /\ min'.gen >= s.genFloor /\ min'.secFloor >= s.secFloor
      BY <3>1, <3>2, <2>2, <3>4 DEF Raise, Larger, Minima
    <3> QED
      BY <2>1, <3>3, <3>5 DEF MinInv
  <2> QED
    BY <2>3, <2>4
<1> QED
  BY <1>2, <1>3, <1>4, <1>5, <1>6

\* Nothing arrives once the write in flight is flushed or gone.
LEMMA MinFrame ==
  ASSUME MinInv, ~Arriving, ~Arriving', UNCHANGED <<known, min>>,
         s'.counter = s.counter, s'.genFloor = s.genFloor, s'.secFloor = s.secFloor
  PROVE  MinInv'
BY DEF MinInv, Reached, Minimum

-----------------------------------------------------------------------------
(* Every step preserves the invariant                                      *)

\* An offer prepared for a sound state is an offer.
LEMMA OffersAreTyped ==
  ASSUME IInv
  PROVE  OffersFor(s) \subseteq Offers
<1>1. Sound(s) /\ head \in Heads /\ candidate \in Anchors \cup {None} /\ obsolete \in Anchors \cup {None}
      /\ min \in Minima
  BY DEF IInv, JournalInv, HeadInv, CheckpointInv, MinInv
<1>2. s.counter + 1 \in Nat /\ s.tail \in Tails /\ (s.active # None => s.active.origin \in Nat)
  BY <1>1 DEF Sound, Bounded, States, Actives
<1>3. Classified(Disk, s, min) \in Classes
  BY DEF Classified, Classes
<1>4. Observed(Disk, s, min) \in Bases
  BY <1>1, <1>2, <1>3 DEF Observed, Disk, Bases
<1>5. (IF s.active = None THEN 0 ELSE s.active.origin) \in Nat
  BY <1>2
<1> SUFFICES ASSUME NEW o \in [op : Operations, tx : {s.counter + 1}, cand : Selections, target : Targets \cup {"None"},
          origin : {IF s.active = None THEN 0 ELSE s.active.origin}, basis : {Observed(Disk, s, min)}]
             PROVE  o \in Offers
  BY DEF OffersFor
<1> QED
  BY <1>2, <1>4, <1>5 DEF Offers

\* A restart goes on with exactly what is stored.
LEMMA OpenKeeps == IInv /\ Open => IInv'
<1> SUFFICES ASSUME IInv, Open PROVE IInv'
  OBVIOUS
<1> USE DEF IInv
<1>1. UNCHANGED <<anchor, records, head, candidate, obsolete, known, pending, headRequired, admitted, waiting,
                  verified, published, completed, acks, finished, shown>>
  BY DEF Open, storage, progress, history
<1>2. /\ open' = TRUE /\ known = TRUE /\ s' = s /\ Raise(s) /\ auth' \in Offers \cup {None} /\ pending = None
      /\ ~headRequired /\ ~verified /\ ~published
  <2>1. s = Reconstruct(anchor, records)
    BY DEF JournalInv
  <2>2. OffersFor(s) \subseteq Offers /\ auth \in Offers \cup {None}
    BY OffersAreTyped DEF SessionInv
  <2> QED
    BY <2>1, <2>2 DEF Open, SessionInv
<1>3. JournalInv' /\ CheckpointInv' /\ FinishedInv' /\ ShownInv'
  BY <1>1, <1>2, StoredFrame DEF StoredView
<1>4. SessionInv' /\ PendingInv' /\ HeadInv'
  BY <1>1, <1>2 DEF SessionInv, PendingInv, HeadInv
<1>5. MinInv'
  <2>1. min = Minimum(s) /\ Reached' = s
    BY <1>1, <1>2 DEF MinInv, Reached, Arriving
  <2>2. s.counter \in Nat /\ s.genFloor \in Nat /\ s.secFloor \in Nat
    BY DEF JournalInv, Sound, Bounded, States
  <2>3. min' = Minimum(s)
    BY <1>2, <2>1, <2>2 DEF Raise, Larger, Minimum
  <2> QED
    BY <2>1, <2>2, <2>3 DEF MinInv, Minimum, Minima
<1> QED
  BY <1>3, <1>4, <1>5

\* The end of a session leaves a write in flight uncertain.
LEMMA EndSessionKeeps == IInv /\ EndSession => IInv'
BY CloseKeeps DEF EndSession, history

\* Acknowledging and querying change nothing that is stored or in flight.
LEMMA AnswersKeep ==
  ASSUME IInv, QueryStatus \/ \E phase \in {"Admission", "Result"} : Acknowledge(phase)
  PROVE  IInv'
<1> USE DEF IInv
<1>1. /\ waiting' \in BOOLEAN /\ acks' \subseteq {"Admission", "Result"}
      /\ UNCHANGED <<anchor, records, head, candidate, obsolete, known, min, s, open, auth, pending, headRequired,
                     admitted, verified, published, completed, finished, shown>>
  BY DEF QueryStatus, Acknowledge, storage, history, SessionInv
<1>2. JournalInv' /\ CheckpointInv' /\ FinishedInv' /\ ShownInv'
  BY <1>1, StoredFrame DEF StoredView
<1>3. SessionInv'
  BY <1>1 DEF SessionInv
<1>4. PendingInv'
  BY <1>1 DEF PendingInv, Disk
<1>5. HeadInv' /\ MinInv'
  BY <1>1 DEF HeadInv, MinInv, Reached, Arriving
<1> QED
  BY <1>2, <1>3, <1>4, <1>5

\* The minimum runs ahead of a record that may persist, never of one that did not.
LEMMA WriteRecordKeeps == ASSUME IInv, NEW kind \in Kinds, WriteRecord(kind) PROVE IInv'
<1> DEFINE r == NewRecord(kind)
           n == Chained(s, r)
<1>1. /\ open /\ ~waiting /\ pending = None /\ ~headRequired /\ ~verified /\ auth \in Offers
      /\ s.seq < MaxSeq /\ Len(records) < MaxRecords /\ Fits(Disk, s, r)
      /\ UNCHANGED <<anchor, records, head, candidate, obsolete, s, auth, finished, shown>>
  BY DEF WriteRecord, MayWrite, IInv, SessionInv, history
<1>2. r \in Records /\ r.seq = s.seq + 1
  <2>1. s.seq + 1 \in Nat /\ auth.tx \in Nat
    BY <1>1 DEF IInv, JournalInv, Sound, Bounded, States, Offers
  <2> QED
    BY <1>1, <2>1 DEF NewRecord, Records
<1>3. Sound(s)
  BY DEF IInv, JournalInv
<1>4. Advances(s, n, r)
  BY <1>1, <1>2, <1>3, RecordAdvances
<1>5. n \in States
  BY <1>4 DEF Advances, Sound, Bounded
<1>6. \/ /\ pending' = [target |-> "Record", flushed |-> FALSE, record |-> r]
         /\ Raise(n) /\ UNCHANGED <<known, open, progress>>
      \/ Close(TRUE) /\ Raise(n)
      \/ NotWritten(n)
  BY DEF WriteRecord
<1> HIDE DEF r, n
<1>7. CASE Close(TRUE) /\ Raise(n)
  BY <1>1, <1>5, <1>7, CloseKeeps
<1>8. CASE NotWritten(n)
  BY <1>1, <1>8, CloseKeeps DEF NotWritten
<1>9. CASE /\ pending' = [target |-> "Record", flushed |-> FALSE, record |-> r]
           /\ Raise(n) /\ UNCHANGED <<known, open, progress>>
  <2> USE DEF IInv
  <2>1. UNCHANGED <<known, open, headRequired, admitted, waiting, verified, published, completed, acks>>
    BY <1>9 DEF progress
  <2>2. JournalInv' /\ CheckpointInv' /\ FinishedInv' /\ ShownInv'
    BY <1>1, StoredFrame DEF StoredView
  <2>3. SessionInv'
    BY <1>1, <2>1 DEF SessionInv
  <2>4. pending' \in Writes /\ pending' # None /\ pending'.target = "Record" /\ ~pending'.flushed /\ pending'.record = r
    <3>1. /\ pending' \in [target : {"Record"}, flushed : BOOLEAN, record : Records]
          /\ pending'.target = "Record" /\ ~pending'.flushed /\ pending'.record = r
      BY <1>2, <1>9
    <3>2. pending' \in Writes
      BY <3>1 DEF Writes
    <3> QED
      BY <3>1, <3>2, NullAssumption
  <2>5. PendingInv'
    <3>1. Disk' = Disk
      BY <1>1 DEF Disk
    <3> QED
      BY <1>1, <1>2, <2>1, <2>4, <3>1 DEF PendingInv
  <2>6. HeadInv'
    BY <1>1, <2>1 DEF HeadInv
  <2>7. MinInv'
    <3>1. Reached' = n /\ min = Minimum(s)
      BY <1>1, <2>1, <2>4 DEF Reached, Arriving, MinInv, SessionInv, n
    <3>2. /\ s.counter \in Nat /\ s.genFloor \in Nat /\ s.secFloor \in Nat
          /\ n.counter \in Nat /\ n.genFloor \in Nat /\ n.secFloor \in Nat
      BY <1>3, <1>5 DEF Sound, Bounded, States
    <3>3. s.counter <= n.counter /\ s.genFloor <= n.genFloor /\ s.secFloor <= n.secFloor
      BY <1>2, <1>3, <1>4, AdvanceRaises
    <3>4. min' = Minimum(n)
      BY <1>9, <3>1, <3>2, <3>3 DEF Raise, Larger, Minimum
    <3> QED
      BY <3>1, <3>2, <3>4 DEF MinInv, Minimum, Minima
  <2> QED
    BY <2>2, <2>3, <2>5, <2>6, <2>7
<1> QED
  BY <1>6, <1>7, <1>8, <1>9

\* A record that fits what is on disk also fits what a restart checks it against: an
\* admission names the representations it was offered on, no other record looks at them.
LEMMA FitsAgain ==
  ASSUME NEW st, NEW r \in Records, Fits(Disk, st, r)
  PROVE  Fits(Historical(records, r, st), st, r)
<1>1. CASE r.kind = "Admission"
  <2>1. r.offer # None /\ Authorized(Disk, st, r.offer)
    BY <1>1 DEF Fits
  <2>2. r.offer.basis = Observed(Disk, st, r.offer.basis.min)
    BY <2>1 DEF Authorized
  <2>3. r.offer.basis.head = head /\ r.offer.basis.candidate = candidate /\ r.offer.basis.obsolete = obsolete
    BY <2>2 DEF Observed, Disk
  <2>4. Historical(records, r, st) = Disk
    BY <2>1, <2>3 DEF Historical, Disk
  <2> QED
    BY <2>4
<1>2. CASE r.kind # "Admission"
  BY <1>2 DEF Fits
<1> QED
  BY <1>1, <1>2

\* The journal's records, as far as the rest of it depends on them.
Journalled(rs, a, st) == \A n \in 1..Len(rs) : rs[n].seq = a.seq + n /\ rs[n].tx <= st.counter

\* One more record, numbered next and of the newest transaction.
LEMMA JournalledGrows ==
  ASSUME NEW rs \in Seq(Records), NEW a, NEW st, NEW n, NEW r \in Records, Journalled(rs, a, st),
         a.seq \in Nat, st.counter \in Nat, n.counter \in Nat, st.counter <= n.counter,
         r.seq = a.seq + Len(rs) + 1, r.tx = n.counter
  PROVE  Journalled(Append(rs, r), a, n)
<1>1. PICK longer : longer = Append(rs, r)
  OBVIOUS
<1>2. PICK m \in Nat : m = Len(rs)
  OBVIOUS
<1>3. /\ longer \in Seq(Records) /\ Len(longer) = m + 1 /\ (\A k \in 1..m : longer[k] = rs[k])
      /\ longer[m + 1] = r
  BY <1>1, <1>2
<1>4. ASSUME NEW k \in 1..(m + 1) PROVE longer[k].seq = a.seq + k /\ longer[k].tx <= n.counter
  <2>1. CASE k = m + 1
    <3>1. r.seq = a.seq + (m + 1)
      BY <1>2
    <3> QED
      BY <2>1, <3>1, <1>3
  <2>2. CASE k # m + 1
    <3>1. k \in 1..m /\ k \in 1..Len(rs) /\ longer[k] = rs[k]
      BY <2>2, <1>2, <1>3
    <3>2. rs[k] \in Records /\ rs[k].seq = a.seq + k /\ rs[k].tx <= st.counter
      BY <3>1 DEF Journalled
    <3>3. PICK t \in Nat : t = rs[k].tx
      BY <3>2 DEF Records
    <3>4. t <= n.counter
      BY <3>2, <3>3
    <3> QED
      BY <3>1, <3>2, <3>3, <3>4
  <2> QED
    BY <2>1, <2>2
<1> QED
  BY <1>1, <1>3, <1>4 DEF Journalled

\* A flushed record is reconstructed to exactly the state the session goes on with, and the
\* room its admission reserved is enough.
LEMMA JournalGrows ==
  ASSUME JournalInv, NEW r \in Records, r.seq = s.seq + 1, s.seq < MaxSeq, Len(records) < MaxRecords,
         Fits(Disk, s, r), anchor' = anchor, records' = Append(records, r), s' = Chained(s, r)
  PROVE  /\ JournalInv' /\ Advances(s, s', r)
         /\ s.counter <= s'.counter /\ s.genFloor <= s'.genFloor /\ s.secFloor <= s'.secFloor
<1>1. Sound(s) /\ s = Reconstruct(anchor, records) /\ records \in Seq(Records) /\ Room(s, Len(records))
      /\ Journalled(records, anchor, s) /\ s.seq = anchor.seq + Len(records)
  BY DEF JournalInv, Journalled
<1>2. Advances(s, s', r)
  BY <1>1, RecordAdvances
<1>3. s.counter <= s'.counter /\ s.genFloor <= s'.genFloor /\ s.secFloor <= s'.secFloor
  BY <1>1, <1>2, AdvanceRaises
<1>4. /\ s.seq \in Nat /\ s.counter \in Nat /\ s.genFloor \in Nat /\ s.secFloor \in Nat
      /\ s'.counter \in Nat /\ s'.genFloor \in Nat /\ s'.secFloor \in Nat /\ s'.seq \in Nat
      /\ anchor.seq \in Nat /\ anchor.counter \in Nat /\ anchor.genFloor \in Nat /\ anchor.secFloor \in Nat
  BY <1>1, <1>2 DEF Advances, Sound, Bounded, States, JournalInv, Anchors
<1>5. Reconstruct(anchor, records)' = s'
  <2>1. Reconstruct(anchor, records)' = Reconstruct(anchor, Append(records, r))
    BY DEF Reconstruct, Rechecked, ValidAnchor, AtAnchor
  <2>2. Reconstruct(anchor, Append(records, r)) = Rechecked(records, r, s)
    BY <1>1, ReconstructAppend
  <2>3. s # None /\ Fits(Historical(records, r, s), s, r)
    BY <1>1, FitsAgain, NullAssumption DEF Sound, Bounded
  <2> QED
    BY <2>1, <2>2, <2>3 DEF Rechecked
<1>6. PICK m \in Nat : m = Len(records) /\ Len(Append(records, r)) = m + 1
  BY <1>1
<1>7. records' \in Seq(Records) /\ Len(records') <= MaxRecords
  BY <1>1, <1>6, Bounds
<1>8. Journalled(records', anchor, s')
  <2>1. r.tx = s'.counter
    BY <1>2 DEF Advances
  <2>2. r.seq = anchor.seq + Len(records) + 1
    BY <1>1
  <2> QED
    BY <2>1, <2>2, <1>1, <1>3, <1>4, JournalledGrows
<1>9. s'.seq = anchor.seq + Len(records')
  <2>1. s'.seq = s.seq + 1
    BY <1>2 DEF Advances
  <2>2. s.seq = anchor.seq + m
    BY <1>1, <1>6
  <2>3. s'.seq = anchor.seq + (m + 1)
    BY ONLY <2>1, <2>2, <1>4, m \in Nat
  <2> QED
    BY <2>3, <1>6
<1>10. anchor.counter <= s'.counter /\ anchor.genFloor <= s'.genFloor /\ anchor.secFloor <= s'.secFloor
  <2>1. anchor.counter <= s.counter /\ anchor.genFloor <= s.genFloor /\ anchor.secFloor <= s.secFloor
    BY DEF JournalInv
  <2> QED
    BY ONLY <2>1, <1>3, <1>4
<1>11. Room(s', Len(records'))
  <2>1. Reserve(s') + 1 <= Budget(s, r) /\ s'.seq = s.seq + 1
    BY <1>2 DEF Advances
  <2>2. m + Budget(s, r) <= MaxRecords /\ s.seq + Budget(s, r) <= MaxSeq
    <3>1. CASE r.kind = "Admission"
      <4>1. HasCapacity(Len(records), s, r.offer.op)
        BY <3>1 DEF Fits, Authorized, Disk
      <4> QED
        BY <3>1, <4>1, <1>6 DEF HasCapacity, Budget
    <3>2. CASE r.kind # "Admission"
      BY <3>2, <1>1, <1>6 DEF Budget, Room
    <3> QED
      BY <3>1, <3>2
  <2>3. Reserve(s') \in Nat /\ Budget(s, r) \in Nat
    BY DEF Reserve, Budget, Costs, Outstanding
  <2>4. (m + 1) + Reserve(s') <= MaxRecords /\ s'.seq + Reserve(s') <= MaxSeq
    BY ONLY <2>1, <2>2, <2>3, <1>4, m \in Nat, Bounds
  <2> QED
    BY <2>4, <1>6 DEF Room
<1>12. JournalInv'
  <2>1. anchor' \in Anchors /\ ValidAnchor(anchor)'
    BY DEF JournalInv, ValidAnchor
  <2>2. Sound(s')
    BY <1>2 DEF Advances
  <2>3. Sound(s)' /\ Room(s, Len(records))' /\ Journalled(records, anchor, s)'
    BY <2>2, <1>11, <1>8
  <2> QED
    BY <2>1, <2>3, <1>5, <1>7, <1>9, <1>10 DEF JournalInv, Journalled
<1> QED
  BY <1>2, <1>3, <1>12

\* What is admitted stays accounted for: finished, or in the lineage of the work under way.
LEMMA FinishedGrows ==
  ASSUME JournalInv, FinishedInv, NEW r \in Records, Advances(s, s', r),
         finished' = finished \cup IF s'.active = None THEN ToSet(s.active.lineage) ELSE {},
         s.active # None \/ r.kind = "Admission"
  PROVE  FinishedInv'
<1>1. Sound(s) /\ s.counter \in Nat /\ LineageOf(s) \subseteq 1..s.counter
  BY DEF JournalInv, Sound, Bounded, States, Working, LineageOf
<1>2. r.kind \in Kinds /\ Moves(s, s', r.kind)
  BY DEF Records, Advances
<1>3. CASE r.kind = "Admission"
  BY <1>1, <1>2, <1>3 DEF Moves, FinishedInv
<1>4. CASE r.kind = "Block"
  BY <1>2, <1>4 DEF Moves, SameLineage, FinishedInv
<1>5. CASE r.kind = "Commit"
  BY <1>2, <1>5 DEF Moves, SameLineage, FinishedInv
<1>6. CASE r.kind \in {"Complete", "Retire", "AuthorizeCheckpoint"}
  <2>1. finished' = finished \cup LineageOf(s) /\ LineageOf(s') = {} /\ s'.counter = s.counter
    BY <1>2, <1>6 DEF Moves, LineageOf
  <2> QED
    BY <2>1, <1>1 DEF FinishedInv
<1> QED
  BY <1>2, <1>3, <1>4, <1>5, <1>6 DEF Kinds

\* Only the reconciliation of a checkpoint can be admitted beside one, and only its
\* authorization can follow.
LEMMA CheckpointKeeps ==
  ASSUME IInv, NEW r \in Records, Fits(Disk, s, r), Advances(s, s', r), s.counter <= s'.counter,
         UNCHANGED <<candidate, obsolete>>
  PROVE  CheckpointInv'
<1>1. /\ candidate \in Anchors \cup {None} /\ obsolete \in Anchors \cup {None}
      /\ (obsolete # None => candidate # None) /\ CheckpointsAgree
      /\ (candidate # None /\ s.active # None => s.active.op \in CheckpointOps)
  BY DEF IInv, CheckpointInv
<1>2. Sound(s) /\ Sound(s') /\ Moves(s, s', r.kind) /\ r.kind \in Kinds
  BY DEF IInv, JournalInv, Advances, Records
<1>3. s.counter \in Nat /\ s'.counter \in Nat
  BY <1>2 DEF Sound, Bounded, States
<1>4. ASSUME candidate # None
      PROVE  SameDeployment(s, s') /\ (s'.active # None => s'.active.op \in CheckpointOps)
  <2>1. CASE r.kind = "Admission"
    <3> DEFINE o == r.offer
               cls == Classified(Disk, s, o.basis.min)
    <3>1. /\ o.basis.cls = cls /\ cls # "Conflict" /\ InScope(s, o, Len(records)) /\ o \in Offers
          /\ s'.active.op = o.op
      BY <2>1, <1>2 DEF Fits, Authorized, Observed, Disk, Records, Advances
    <3>2. s.active = None /\ cls \in {"PreparedUnpublished", "PublishedUnretired"}
      BY <3>1, <1>4 DEF Classified, Disk
    <3> HIDE DEF cls, o
    <3>3. o.op \in {"Maintenance"} \cup CheckpointOps
      BY <3>1, <3>2, <1>2, ScopeFacts
    <3>4. ~Settled(o.basis.cls)
      BY <3>1, <3>2 DEF Settled
    <3>5. o.op # "Maintenance"
      BY <3>1, <3>4 DEF InScope
    <3> QED
      BY <3>1, <3>3, <3>5, <2>1, <1>2 DEF Moves
  <2>2. CASE r.kind # "Admission"
    <3>1. s.active # None /\ s.active.op \in CheckpointOps
      BY <2>2, <1>1, <1>4 DEF Fits
    <3>2. s.active.stage = "Admitted"
      BY <3>1, <1>2 DEF Sound, Working, MetaOps
    <3>3. s.active.op \notin Publications /\ s.active.op # "RetireAdmittedCandidate"
      BY <3>1 DEF Publications, CheckpointOps
    <3>4. /\ r.kind = "Block"    => s.active.op \in Publications
          /\ r.kind = "Commit"   => s.active.stage = "Blocked"
          /\ r.kind = "Retire"   => s.active.op = "RetireAdmittedCandidate"
          /\ r.kind = "Complete" => s.active.stage = "Committed"
      BY <2>2 DEF Fits
    <3>5. r.kind = "AuthorizeCheckpoint"
      BY <2>2, <3>2, <3>3, <3>4, <1>2 DEF Kinds
    <3> QED
      BY <3>5, <1>2 DEF Moves
  <2> QED
    BY <2>1, <2>2
<1>5. CheckpointsAgree'
  <2> SUFFICES ASSUME NEW c \in {candidate, obsolete} \ {None}
               PROVE  /\ <<c.gen, c.genFloor, c.secFloor, c.sel>> = <<s'.gen, s'.genFloor, s'.secFloor, s'.sel>>
                      /\ c.counter <= s'.counter
    BY DEF CheckpointsAgree
  <2>1. candidate # None /\ c \in Anchors
    BY <1>1
  <2>2. c.counter \in Nat
    BY <2>1 DEF Anchors
  <2>3. /\ c.gen = s.gen /\ c.genFloor = s.genFloor /\ c.secFloor = s.secFloor /\ c.sel = s.sel
        /\ c.counter <= s.counter
    BY <1>1 DEF CheckpointsAgree
  <2>4. c.counter <= s'.counter
    BY <2>2, <2>3, <1>3
  <2> QED
    BY <2>1, <2>3, <2>4, <1>4 DEF SameDeployment
<1> QED
  BY <1>1, <1>4, <1>5 DEF CheckpointInv

\* The origin a journalled offer names is older than its transaction, and it is the origin
\* of the lineage as long as that transaction is the active one.
Traced(q, st) ==
  q.offer # None => /\ q.offer.origin < q.tx
                    /\ st.active # None /\ q.tx = st.active.tx => q.offer.origin \in {0, st.active.origin}

\* What was retired is older than the active lineage.
Older(q, st) == q.kind = "Retire" /\ st.active # None => q.tx < st.active.origin

\* What is shown stays shown, what is retired was never shown: the four kinds of record.
LEMMA ShownGrows ==
  ASSUME IInv, NEW r \in Records, Fits(Disk, s, r), Advances(s, s', r), records' = Append(records, r),
         shown' = shown \cup IF r.kind = "Block" THEN {s.active.origin} ELSE {}
  PROVE  ShownInv'
<1>1. /\ shown \subseteq 1..s.counter
      /\ (s.active # None /\ s.active.origin \in shown => s.active.seen)
      /\ (\A q \in ToSet(records) : Traced(q, s)) /\ (\A q \in ToSet(records) : Older(q, s)) /\ RetiredNeverShown
  BY DEF IInv, ShownInv, Traced, Older
<1>2. Sound(s) /\ Sound(s') /\ Moves(s, s', r.kind) /\ r.kind \in Kinds /\ r.tx = s'.counter /\ records \in Seq(Records)
  BY DEF IInv, JournalInv, Advances, Records
<1>3. s.counter \in Nat /\ s'.counter \in Nat
  BY <1>2 DEF Sound, Bounded, States
<1>4. ToSet(records)' = ToSet(records) \cup {r}
  <2>1. ToSet(Append(records, r)) = ToSet(records) \cup {r}
    BY <1>2, AppendedSet
  <2> QED
    BY <2>1
<1>5. \A q \in ToSet(records) : /\ q \in Records /\ q.tx \in Nat /\ q.tx <= s.counter
                                /\ (q.offer # None => q.offer.origin \in Nat)
  <2> SUFFICES ASSUME NEW q \in ToSet(records)
               PROVE  q \in Records /\ q.tx \in Nat /\ q.tx <= s.counter /\ (q.offer # None => q.offer.origin \in Nat)
    OBVIOUS
  <2>1. PICK n \in 1..Len(records) : q = records[n]
    BY <1>2 DEF ToSet
  <2>2. q \in Records /\ q.tx <= s.counter
    BY <2>1, <1>2 DEF IInv, JournalInv
  <2> QED
    BY <2>2 DEF Records, Offers
<1>6. /\ s.active # None => /\ s.active.tx = s.counter /\ s.active.origin \in 1..s.counter
      /\ s'.active # None => /\ s'.active.tx = s'.counter /\ s'.active.origin \in 1..s'.counter
  BY <1>2 DEF Sound, Working
<1>7. CASE r.kind = "Admission"
  <2>1. /\ s'.counter = s.counter + 1 /\ s'.active # None /\ r.offer # None
        /\ s'.active.origin = (IF s.active = None THEN s'.counter ELSE s.active.origin)
        /\ s'.active.seen = SeenBefore(s.active) /\ shown' = shown
        /\ r.offer.origin = (IF s.active = None THEN 0 ELSE s.active.origin)
    BY <1>2, <1>7 DEF Moves, Fits, Authorized, InScope
  <2>2. shown' \subseteq 1..s'.counter /\ s'.counter \notin shown
    <3>1. shown \subseteq 1..s.counter
      BY <1>1
    <3>2. s'.counter = s.counter + 1
      BY <2>1
    <3>3. \A x \in 1..s.counter : x \in 1..s'.counter /\ x # s'.counter
      BY ONLY <3>2, <1>3
    <3> QED
      BY <3>1, <3>3, <2>1
  <2>3. s'.active.origin \in shown' => s'.active.seen
    <3>1. s.active # None /\ s.active.origin \in shown => s.active.seen
      BY <1>1
    <3> QED
      BY <3>1, <2>1, <2>2 DEF SeenBefore
  <2>4. ASSUME NEW q \in ToSet(records) \cup {r} PROVE Traced(q, s') /\ Older(q, s')
    <3>1. CASE q = r
      <4>1. Traced(q, s')
        BY <3>1, <2>1, <1>2, <1>3, <1>6 DEF Traced
      <4>2. Older(q, s')
        BY <3>1, <1>7 DEF Older
      <4> QED
        BY <4>1, <4>2
    <3>2. CASE q # r
      <4>1. q \in ToSet(records) /\ Traced(q, s) /\ Older(q, s) /\ q.tx \in Nat /\ q.tx <= s.counter
        BY <3>2, <1>1, <1>5
      <4>2. q.tx # s'.active.tx
        BY <4>1, <2>1, <1>3, <1>6
      <4>3. Traced(q, s')
        BY <4>1, <4>2 DEF Traced
      <4>4. Older(q, s')
        BY <4>1, <2>1, <1>3 DEF Older
      <4> QED
        BY <4>3, <4>4
    <3> QED
      BY <3>1, <3>2
  <2>5. RetiredNeverShown'
    <3> SUFFICES ASSUME NEW x \in ToSet(records) \cup {r}, x.kind = "Retire",
                        NEW q \in ToSet(records) \cup {r}, q.offer # None, q.tx = x.tx
                 PROVE  q.offer.origin \notin shown'
      BY <1>4 DEF RetiredNeverShown
    <3>1. x \in ToSet(records) /\ x.tx \in Nat /\ x.tx <= s.counter
      BY <1>5, <1>7
    <3>2. q # r
      BY <3>1, <2>1, <1>2, <1>3
    <3> QED
      BY <3>1, <3>2, <2>1, <1>1 DEF RetiredNeverShown
  <2> QED
    BY <2>1, <2>2, <2>3, <2>4, <2>5, <1>4 DEF ShownInv, Traced, Older
<1>8. ASSUME r.kind # "Admission"
      PROVE  s.active # None /\ r.offer = None /\ r.tx = s.active.tx /\ s'.counter = s.counter
             /\ (s'.active # None => SameLineage(s, s'))
  <2>1. s.active # None /\ r.offer = None /\ r.tx = s.active.tx
    BY <1>8 DEF Fits
  <2> QED
    BY <2>1, <1>2, <1>8 DEF Moves, SameLineage, Kinds
<1>9. CASE r.kind \in {"Block", "Commit"}
  <2>1. /\ s.active # None /\ r.offer = None /\ s'.counter = s.counter /\ s'.active # None
        /\ s'.active.tx = s.active.tx /\ s'.active.origin = s.active.origin /\ s'.active.seen
        /\ shown' \subseteq shown \cup {s.active.origin} /\ (r.kind = "Commit" => shown' = shown)
    BY <1>2, <1>8, <1>9 DEF Moves, SameLineage
  <2>2. shown' \subseteq 1..s'.counter
    BY <1>1, <1>6, <2>1
  <2>3. ASSUME NEW q \in ToSet(records) \cup {r} PROVE Traced(q, s') /\ Older(q, s')
    <3>1. CASE q = r
      BY <3>1, <2>1, <1>9 DEF Traced, Older
    <3>2. CASE q # r
      <4>1. Traced(q, s) /\ Older(q, s)
        BY <3>2, <1>1
      <4> QED
        BY <4>1, <2>1 DEF Traced, Older
    <3> QED
      BY <3>1, <3>2
  <2>4. RetiredNeverShown'
    <3> SUFFICES ASSUME NEW x \in ToSet(records) \cup {r}, x.kind = "Retire",
                        NEW q \in ToSet(records) \cup {r}, q.offer # None, q.tx = x.tx
                 PROVE  q.offer.origin \notin shown'
      BY <1>4 DEF RetiredNeverShown
    <3>1. x \in ToSet(records) /\ q \in ToSet(records)
      BY <1>9, <2>1
    <3>2. q.offer.origin \notin shown
      BY <3>1, <1>1 DEF RetiredNeverShown
    <3>3. q.offer.origin < q.tx /\ q.tx < s.active.origin
      BY <3>1, <2>1, <1>1 DEF Traced, Older
    <3>4. q.offer.origin # s.active.origin
      BY <3>1, <3>3, <1>5, <1>6, <2>1, <1>3
    <3> QED
      BY <3>2, <3>4, <2>1
  <2> QED
    BY <2>1, <2>2, <2>3, <2>4, <1>4 DEF ShownInv, Traced, Older
<1>10. CASE r.kind \in {"Complete", "Retire", "AuthorizeCheckpoint"}
  <2>1. /\ s.active # None /\ r.offer = None /\ r.tx = s.active.tx /\ s'.counter = s.counter /\ s'.active = None
        /\ shown' = shown /\ (r.kind = "Retire" => ~s.active.seen)
    BY <1>2, <1>8, <1>10 DEF Moves
  <2>2. shown' \subseteq 1..s'.counter
    BY <1>1, <2>1
  <2>3. ASSUME NEW q \in ToSet(records) \cup {r} PROVE Traced(q, s') /\ Older(q, s')
    <3>1. Older(q, s')
      BY <2>1 DEF Older
    <3>2. Traced(q, s')
      <4>1. CASE q = r
        BY <4>1, <2>1 DEF Traced
      <4>2. CASE q # r
        <5>1. Traced(q, s)
          BY <4>2, <1>1
        <5> QED
          BY <5>1, <2>1 DEF Traced
      <4> QED
        BY <4>1, <4>2
    <3> QED
      BY <3>1, <3>2
  <2>4. RetiredNeverShown'
    <3> SUFFICES ASSUME NEW x \in ToSet(records) \cup {r}, x.kind = "Retire",
                        NEW q \in ToSet(records) \cup {r}, q.offer # None, q.tx = x.tx
                 PROVE  q.offer.origin \notin shown
      BY <1>4, <2>1 DEF RetiredNeverShown
    <3>1. q \in ToSet(records)
      BY <2>1
    <3>2. CASE x \in ToSet(records)
      BY <3>1, <3>2, <1>1 DEF RetiredNeverShown
    <3>3. CASE x = r
      <4>1. s.active.origin \notin shown
        BY <3>3, <2>1, <1>1
      <4>2. q.offer.origin \in {0, s.active.origin}
        BY <3>1, <3>3, <2>1, <1>1 DEF Traced
      <4>3. 0 \notin shown
        BY <1>1, <1>3
      <4> QED
        BY <4>1, <4>2, <4>3
    <3> QED
      BY <3>2, <3>3
  <2> QED
    BY <2>1, <2>2, <2>3, <2>4, <1>4 DEF ShownInv, Traced, Older
<1> QED
  BY <1>2, <1>7, <1>9, <1>10 DEF Kinds

\* A flushed record takes the journal, the checkpoints and the history along.
LEMMA FlushRecordKeeps ==
  ASSUME IInv, Flush, ~Close(TRUE), pending.target = "Record"
  PROVE  IInv'
<1> USE DEF IInv
<1> DEFINE r == pending.record
<1>1. /\ open /\ pending # None /\ ~pending.flushed
      /\ pending' = [pending EXCEPT !.flushed = TRUE]
      /\ records' = Append(records, r) /\ s' = Chained(s, r)
      /\ admitted' = (admitted \/ r.kind = "Admission")
      /\ finished' = finished \cup IF s'.active = None THEN ToSet(s.active.lineage) ELSE {}
      /\ shown' = shown \cup IF r.kind = "Block" THEN {s.active.origin} ELSE {}
      /\ UNCHANGED <<anchor, head, candidate, obsolete, known, open, headRequired, waiting, verified, published,
                     completed, acks, min, auth>>
  BY DEF Flush, FlushRecord
<1>2. /\ pending \in [target : {"Record"}, flushed : BOOLEAN, record : Records]
      /\ r \in Records /\ r.seq = s.seq + 1 /\ s.seq < MaxSeq /\ Len(records) < MaxRecords
      /\ Fits(Disk, s, r) /\ ~headRequired /\ ~verified
  BY <1>1 DEF PendingInv, Writes
<1>3. pending' \in Writes /\ pending' # None /\ pending'.target = "Record" /\ pending'.flushed
  <2>1. /\ pending' \in [target : {"Record"}, flushed : BOOLEAN, record : Records]
        /\ pending'.target = "Record" /\ pending'.flushed
    BY <1>1, <1>2
  <2>2. pending' \in Writes
    BY <2>1 DEF Writes
  <2> QED
    BY <2>1, <2>2, NullAssumption
<1> HIDE DEF r
<1>4. /\ JournalInv' /\ Advances(s, s', r)
      /\ s.counter <= s'.counter /\ s.genFloor <= s'.genFloor /\ s.secFloor <= s'.secFloor
  BY <1>1, <1>2, JournalGrows
<1>5. FinishedInv'
  BY <1>1, <1>2, <1>4, FinishedGrows DEF Fits
<1>6. CheckpointInv'
  BY <1>1, <1>2, <1>4, CheckpointKeeps
<1>7. ShownInv'
  BY <1>1, <1>2, <1>4, ShownGrows
<1>8. ~published
  BY <1>2 DEF SessionInv
<1>9. SessionInv'
  <2>1. admitted' \in BOOLEAN
    BY <1>1
  <2> QED
    BY <1>1, <1>2, <1>8, <2>1 DEF SessionInv
<1>10. PendingInv'
  BY <1>1, <1>2, <1>3 DEF PendingInv
<1>11. HeadInv'
  <2>1. /\ s.counter \in Nat /\ s.genFloor \in Nat /\ s.secFloor \in Nat
        /\ s'.counter \in Nat /\ s'.genFloor \in Nat /\ s'.secFloor \in Nat
    BY <1>4 DEF Advances, JournalInv, Sound, Bounded, States
  <2>2. head \in Heads /\ head.counter <= s.counter /\ head.genFloor <= s.genFloor /\ head.secFloor <= s.secFloor
    BY DEF HeadInv
  <2>3. head.counter \in Nat /\ head.genFloor \in Nat /\ head.secFloor \in Nat
    BY <2>2 DEF Heads
  <2>4. head.counter <= s'.counter /\ head.genFloor <= s'.genFloor /\ head.secFloor <= s'.secFloor
    BY ONLY <1>4, <2>1, <2>2, <2>3
  <2> QED
    BY <1>1, <1>3, <2>2, <2>4 DEF HeadInv
<1>12. MinInv'
  <2>1. Reached = s'
    BY <1>1 DEF Reached, Arriving, PendingInv, r
  <2>2. Reached' = s'
    BY <1>3 DEF Reached, Arriving
  <2> QED
    BY <1>1, <2>1, <2>2 DEF MinInv
<1> QED
  BY <1>4, <1>5, <1>6, <1>7, <1>9, <1>10, <1>11, <1>12

\* The head a session may write, of its state or of its checkpoint, is one of its deployment.
LEMMA HeadsToWrite ==
  ASSUME IInv, NEW h, h = HeadFor(IF verified THEN AtAnchor(candidate) ELSE s)
  PROVE  h \in Heads /\ h.counter = s.counter /\ h.genFloor = s.genFloor /\ h.secFloor = s.secFloor
<1>1. Sound(s)
  BY DEF IInv, JournalInv
<1>2. CASE verified
  <2> DEFINE n == AtAnchor(candidate)
  <2>1. candidate = AnchorOf(s) /\ s.active = None
    BY <1>2 DEF IInv, SessionInv
  <2>2. Sound(n) /\ SameAnchor(s, n)
    BY <1>1, <2>1, AnchorKeeps
  <2> HIDE DEF n
  <2>3. h = HeadFor(n)
    BY <1>2 DEF n
  <2> QED
    BY <2>2, <2>3, HeadTyped DEF SameAnchor
<1>3. CASE ~verified
  BY <1>1, <1>3, HeadTyped
<1> QED
  BY <1>2, <1>3

\* A flushed head shows the journal or the verified checkpoint.
LEMMA FlushHeadKeeps ==
  ASSUME IInv, Flush, ~Close(TRUE), pending.target = "Head"
  PROVE  IInv'
<1> USE DEF IInv
<1>1. /\ open /\ pending # None /\ ~pending.flushed
      /\ pending' = [pending EXCEPT !.flushed = TRUE] /\ head' = pending.head
      /\ UNCHANGED <<anchor, records, candidate, obsolete, known, open, s, headRequired, admitted, waiting, verified,
                     published, completed, acks, min, auth, finished, shown>>
  BY DEF Flush, history
<1>2. JournalInv' /\ CheckpointInv' /\ FinishedInv' /\ ShownInv'
  BY <1>1, StoredFrame DEF StoredView
<1>3. pending \in [target : {"Head"}, flushed : BOOLEAN, checkpoint : BOOLEAN, head : Heads]
  BY <1>1 DEF PendingInv, Writes
<1>4. /\ pending' \in [target : {"Head"}, flushed : BOOLEAN, checkpoint : BOOLEAN, head : Heads]
      /\ pending'.target = "Head" /\ pending'.flushed /\ pending'.checkpoint = pending.checkpoint
  BY <1>1, <1>3
<1>5. pending' \in Writes /\ pending' # None
  <2>1. pending' \in Writes
    BY <1>4 DEF Writes
  <2> QED
    BY <2>1, NullAssumption
<1>6. /\ ~published /\ (headRequired \/ verified) /\ pending.checkpoint = verified
      /\ head' = HeadFor(IF verified THEN AtAnchor(candidate) ELSE s)
  BY <1>1 DEF PendingInv
<1>7. PendingInv'
  BY <1>1, <1>4, <1>5, <1>6 DEF PendingInv
<1>8. SessionInv'
  BY <1>1, <1>6 DEF SessionInv
<1>9. MinInv'
  BY <1>1, <1>4, MinFrame DEF Arriving
<1>10. HeadInv'
  <2>1. head' \in Heads /\ head'.counter = s.counter /\ head'.genFloor = s.genFloor /\ head'.secFloor = s.secFloor
    BY <1>6, HeadsToWrite
  <2>2. s.counter \in Nat /\ s.genFloor \in Nat /\ s.secFloor \in Nat
    BY DEF JournalInv, Sound, Bounded, States
  <2>3. verified => candidate # None
    BY DEF SessionInv
  <2> QED
    BY <1>1, <1>6, <2>1, <2>2, <2>3 DEF HeadInv
<1> QED
  BY <1>2, <1>7, <1>8, <1>9, <1>10

\* A flushed checkpoint supersedes the one it reconciles, and shows the same deployment.
LEMMA FlushCheckpointKeeps ==
  ASSUME IInv, Flush, ~Close(TRUE), pending.target = "Checkpoint"
  PROVE  IInv'
<1> USE DEF IInv
<1>1. /\ open /\ pending # None /\ ~pending.flushed
      /\ pending' = [pending EXCEPT !.flushed = TRUE] /\ obsolete' = candidate /\ candidate' = pending.anchor
      /\ UNCHANGED <<anchor, records, head, known, open, s, headRequired, admitted, waiting, verified,
                     published, completed, acks, min, auth, finished, shown>>
  BY DEF Flush, history
<1>2. /\ ~headRequired /\ ~verified /\ s.active = None /\ head = HeadFor(s) /\ candidate' = AnchorOf(s)
  BY <1>1 DEF PendingInv
<1>3. Sound(s) /\ ~published
  BY <1>2 DEF JournalInv, SessionInv
<1>4. candidate' \in Anchors /\ candidate' # None /\ SameAnchor(s, candidate')
  BY <1>2, <1>3, AnchorKeeps
<1>5. JournalInv' /\ FinishedInv' /\ ShownInv'
  <2>1. JournalInv'
    BY <1>1 DEF JournalInv
  <2>2. FinishedInv'
    BY <1>1 DEF FinishedInv
  <2>3. ShownInv'
    BY <1>1 DEF ShownInv, RetiredNeverShown
  <2> QED
    BY <2>1, <2>2, <2>3
<1>6. CheckpointInv'
  <2>1. s.counter \in Nat
    BY <1>3 DEF Sound, Bounded, States
  <2>2. candidate \in Anchors \cup {None} /\ CheckpointsAgree
    BY DEF CheckpointInv
  <2>3. CheckpointsAgree'
    BY <1>1, <1>4, <2>1, <2>2 DEF CheckpointsAgree, SameAnchor
  <2> QED
    BY <1>1, <1>2, <1>4, <2>2, <2>3 DEF CheckpointInv
<1>7. pending \in [target : {"Checkpoint"}, flushed : BOOLEAN, anchor : Anchors]
  BY <1>1 DEF PendingInv, Writes
<1>8. /\ pending' \in [target : {"Checkpoint"}, flushed : BOOLEAN, anchor : Anchors]
      /\ pending'.target = "Checkpoint" /\ pending'.flushed
  BY <1>1, <1>7
<1>9. pending' \in Writes /\ pending' # None
  <2>1. pending' \in Writes
    BY <1>8 DEF Writes
  <2> QED
    BY <2>1, NullAssumption
<1>10. PendingInv'
  <2>1. AnchorOf(s)' = candidate'
    BY <1>1, <1>2
  <2> QED
    BY <1>1, <1>2, <1>8, <1>9, <2>1 DEF PendingInv
<1>11. SessionInv'
  BY <1>1, <1>2, <1>3 DEF SessionInv
<1>12. HeadInv'
  BY <1>1, <1>2 DEF HeadInv
<1>13. MinInv'
  BY <1>1, <1>8, MinFrame DEF Arriving
<1> QED
  BY <1>5, <1>6, <1>10, <1>11, <1>12, <1>13

\* A flush, whatever it flushes, and whether its outcome is known.
LEMMA FlushKeeps == IInv /\ Flush => IInv'
<1> SUFFICES ASSUME IInv, Flush PROVE IInv'
  OBVIOUS
<1>1. CASE Close(TRUE)
  <2>1. UNCHANGED <<anchor, min, auth>>
    BY DEF Flush
  <2>2. open' # open
    BY <1>1 DEF Close, Flush
  <2>3. UNCHANGED <<records, head, candidate, obsolete, s, finished, shown>>
    BY <2>2 DEF Flush, history
  <2> QED
    BY <1>1, <2>1, <2>3, CloseKeeps
<1>2. CASE ~Close(TRUE)
  <2>1. pending # None /\ pending \in Writes \cup {None}
    BY DEF Flush, IInv, PendingInv
  <2>2. pending.target \in {"Record", "Head", "Checkpoint"}
    BY <2>1 DEF Writes
  <2> QED
    BY <1>2, <2>2, FlushRecordKeeps, FlushHeadKeeps, FlushCheckpointKeeps
<1> QED
  BY <1>1, <1>2

\* A record read back demands a new head, a head read back settles it, and a checkpoint
\* read back is verified.
LEMMA ReadBackKeeps == IInv /\ ReadBack => IInv'
<1> SUFFICES ASSUME IInv, ReadBack PROVE IInv'
  OBVIOUS
<1>1. CASE Close(TRUE)
  BY <1>1, CloseKeeps DEF ReadBack, history
<1>2. CASE ~Close(TRUE)
  <2> USE DEF IInv
  <2>1. /\ open /\ pending # None /\ pending.flushed /\ pending' = None
        /\ headRequired' = (pending.target = "Record")
        /\ published' = (published \/ (pending.target = "Head" /\ pending.checkpoint))
        /\ verified' = (verified \/ pending.target = "Checkpoint")
        /\ UNCHANGED <<anchor, records, head, candidate, obsolete, known, open, s, auth, admitted, waiting, completed,
                       acks, min, finished, shown>>
    BY <1>2 DEF ReadBack, history
  <2>2. JournalInv' /\ CheckpointInv' /\ FinishedInv' /\ ShownInv'
    BY <2>1, StoredFrame DEF StoredView
  <2>3. MinInv'
    BY <2>1, MinFrame DEF Arriving
  <2>4. PendingInv'
    BY <2>1 DEF PendingInv
  <2>5. pending.target \in {"Record", "Head", "Checkpoint"}
    BY <2>1 DEF PendingInv, Writes
  <2>6. CASE pending.target = "Record"
    <3>1. ~verified /\ ~published
      BY <2>1, <2>6 DEF PendingInv, SessionInv
    <3>2. headRequired' = TRUE /\ published' = FALSE /\ verified' = FALSE
      BY <2>1, <2>6, <3>1
    <3>3. SessionInv'
      BY <2>1, <3>2 DEF SessionInv
    <3>4. HeadInv'
      BY <2>1, <3>2 DEF HeadInv
    <3> QED
      BY <2>2, <2>3, <2>4, <3>3, <3>4
  <2>7. CASE pending.target = "Head"
    <3>1. /\ ~published /\ (headRequired \/ verified) /\ pending.checkpoint = verified
          /\ head = HeadFor(IF verified THEN AtAnchor(candidate) ELSE s)
      BY <2>1, <2>7 DEF PendingInv
    <3>2. headRequired' = FALSE /\ published' = verified /\ verified' = verified
      BY <2>1, <2>7, <3>1 DEF SessionInv
    <3>3. SessionInv'
      BY <2>1, <3>1, <3>2 DEF SessionInv
    <3>4. HeadInv'
      BY <2>1, <3>1, <3>2 DEF HeadInv, SessionInv
    <3> QED
      BY <2>2, <2>3, <2>4, <3>3, <3>4
  <2>8. CASE pending.target = "Checkpoint"
    <3>1. /\ ~headRequired /\ ~verified /\ ~published /\ s.active = None /\ head = HeadFor(s)
          /\ candidate = AnchorOf(s)
      BY <2>1, <2>8 DEF PendingInv, SessionInv
    <3>2. headRequired' = FALSE /\ published' = FALSE /\ verified' = TRUE
      BY <2>1, <2>8, <3>1
    <3>3. candidate # None
      BY <3>1, AnchorKeeps DEF JournalInv
    <3>4. AnchorOf(s)' = AnchorOf(s)
      BY <2>1
    <3>5. SessionInv'
      BY <2>1, <3>1, <3>2, <3>3, <3>4 DEF SessionInv
    <3>6. HeadInv'
      BY <2>1, <3>1, <3>2 DEF HeadInv
    <3> QED
      BY <2>2, <2>3, <2>4, <3>5, <3>6
  <2> QED
    BY <2>5, <2>6, <2>7, <2>8
<1> QED
  BY <1>1, <1>2

\* The head written is the one of the session's state or of its checkpoint.
LEMMA WriteHeadKeeps == IInv /\ WriteHead => IInv'
<1> SUFFICES ASSUME IInv, WriteHead PROVE IInv'
  OBVIOUS
<1> DEFINE h == HeadFor(IF verified THEN AtAnchor(candidate) ELSE s)
<1>1. CASE \E uncertain \in BOOLEAN : Close(uncertain)
  BY <1>1, CloseKeeps DEF WriteHead, history
<1>2. CASE ~\E uncertain \in BOOLEAN : Close(uncertain)
  <2> USE DEF IInv
  <2>1. /\ open /\ ~waiting /\ pending = None /\ (headRequired \/ verified) /\ ~published
        /\ pending' = [target |-> "Head", flushed |-> FALSE, checkpoint |-> verified, head |-> h]
        /\ UNCHANGED <<anchor, records, head, candidate, obsolete, known, open, s, auth, headRequired, admitted,
                       waiting, verified, published, completed, acks, min, finished, shown>>
    BY <1>2 DEF WriteHead, MayWrite, Attempt, progress, history
  <2>2. h \in Heads
    BY HeadsToWrite
  <2> HIDE DEF h
  <2>3. JournalInv' /\ CheckpointInv' /\ FinishedInv' /\ ShownInv'
    BY <2>1, StoredFrame DEF StoredView
  <2>4. verified \in BOOLEAN
    BY DEF SessionInv
  <2>5. /\ pending' \in [target : {"Head"}, flushed : BOOLEAN, checkpoint : BOOLEAN, head : Heads]
        /\ pending'.target = "Head" /\ ~pending'.flushed /\ pending'.checkpoint = verified /\ pending'.head = h
    BY <2>1, <2>2, <2>4
  <2>6. pending' \in Writes /\ pending' # None
    <3>1. pending' \in Writes
      BY <2>5 DEF Writes
    <3> QED
      BY <3>1, NullAssumption
  <2>7. PendingInv'
    <3>1. h = HeadFor(IF verified' THEN AtAnchor(candidate') ELSE s')
      BY <2>1 DEF h
    <3> QED
      BY <2>1, <2>5, <2>6, <3>1 DEF PendingInv
  <2>8. MinInv'
    BY <2>1, <2>5, MinFrame DEF Arriving
  <2>9. SessionInv'
    BY <2>1 DEF SessionInv
  <2>10. HeadInv'
    BY <2>1 DEF HeadInv
  <2> QED
    BY <2>3, <2>7, <2>8, <2>9, <2>10
<1> QED
  BY <1>1, <1>2

\* A checkpoint is only written of a settled state whose head is published.
LEMMA WriteCheckpointKeeps == IInv /\ WriteCheckpoint => IInv'
<1> SUFFICES ASSUME IInv, WriteCheckpoint PROVE IInv'
  OBVIOUS
<1> DEFINE a == AnchorOf(s)
<1>1. CASE \E uncertain \in BOOLEAN : Close(uncertain)
  BY <1>1, CloseKeeps DEF WriteCheckpoint, history
<1>2. CASE ~\E uncertain \in BOOLEAN : Close(uncertain)
  <2> USE DEF IInv
  <2>1. /\ open /\ ~waiting /\ pending = None /\ ~headRequired /\ s.active = None
        /\ head = HeadFor(s) /\ ~verified
        /\ pending' = [target |-> "Checkpoint", flushed |-> FALSE, anchor |-> a]
        /\ UNCHANGED <<anchor, records, head, candidate, obsolete, known, open, s, auth, headRequired, admitted,
                       waiting, verified, published, completed, acks, min, finished, shown>>
    BY <1>2 DEF WriteCheckpoint, MayWrite, Attempt, progress, history
  <2>2. a \in Anchors
    BY <2>1, AnchorKeeps DEF JournalInv
  <2>3. a = AnchorOf(s')
    BY <2>1
  <2> HIDE DEF a
  <2>4. JournalInv' /\ CheckpointInv' /\ FinishedInv' /\ ShownInv'
    BY <2>1, StoredFrame DEF StoredView
  <2>5. /\ pending' \in [target : {"Checkpoint"}, flushed : BOOLEAN, anchor : Anchors]
        /\ pending'.target = "Checkpoint" /\ ~pending'.flushed /\ pending'.anchor = a
    BY <2>1, <2>2
  <2>6. pending' \in Writes /\ pending' # None
    <3>1. pending' \in Writes
      BY <2>5 DEF Writes
    <3> QED
      BY <3>1, NullAssumption
  <2>7. PendingInv'
    BY <2>1, <2>3, <2>5, <2>6 DEF PendingInv
  <2>8. MinInv'
    BY <2>1, <2>5, MinFrame DEF Arriving
  <2>9. SessionInv'
    BY <2>1 DEF SessionInv
  <2>10. HeadInv'
    BY <2>1 DEF HeadInv
  <2> QED
    BY <2>4, <2>7, <2>8, <2>9, <2>10
<1> QED
  BY <1>1, <1>2

\* Compaction replaces the journal by a checkpoint of what it says, and nothing else.
LEMMA RetireJournalKeeps == IInv /\ RetireJournal => IInv'
<1> SUFFICES ASSUME IInv, RetireJournal PROVE IInv'
  OBVIOUS
<1>1. CASE \E uncertain \in BOOLEAN : Close(uncertain) /\ UNCHANGED <<anchor, records, candidate, obsolete, s>>
  BY <1>1, CloseKeeps DEF RetireJournal, history
<1>2. CASE ~\E uncertain \in BOOLEAN : Close(uncertain) /\ UNCHANGED <<anchor, records, candidate, obsolete, s>>
  <2> USE DEF IInv
  <2>1. /\ open /\ ~waiting /\ pending = None /\ ~headRequired /\ verified /\ published /\ s.active = None
        /\ anchor' = candidate /\ records' = <<>> /\ candidate' = None /\ obsolete' = None
        /\ s' = AtAnchor(candidate) /\ completed' = TRUE /\ verified' = FALSE /\ published' = FALSE
        /\ UNCHANGED <<head, known, open, auth, pending, headRequired, admitted, waiting, acks, min, finished, shown>>
    BY <1>2 DEF RetireJournal, MayWrite, history
  <2>2. candidate = AnchorOf(s) /\ head = HeadFor(AtAnchor(candidate)) /\ known
    BY <2>1 DEF SessionInv
  <2>3. Sound(s) /\ Room(s, Len(records))
    BY DEF JournalInv
  <2>4. /\ candidate \in Anchors /\ ValidAnchor(candidate) /\ SameAnchor(s, candidate)
        /\ Sound(s') /\ Start(candidate) = s' /\ SameAnchor(s, s') /\ s'.active = None
    BY <2>1, <2>2, <2>3, AnchorKeeps
  <2>5. /\ s.seq \in Nat /\ s.counter \in Nat /\ s.genFloor \in Nat /\ s.secFloor \in Nat
    BY <2>3 DEF Sound, Bounded, States
  <2>6. JournalInv'
    <3>1. Reconstruct(anchor, records)' = s'
      <4>1. Reconstruct(anchor, records)' = Reconstruct(candidate, <<>>)
        BY <2>1 DEF Reconstruct, Rechecked, ValidAnchor, AtAnchor
      <4> QED
        BY <4>1, <2>4, ReconstructEmpty
    <3>2. records' \in Seq(Records) /\ Len(records') = 0 /\ MaxRecords \in Nat
      BY <2>1, Bounds
    <3>3. anchor' \in Anchors /\ ValidAnchor(anchor)' /\ Len(records') <= MaxRecords
      BY <2>1, <2>4, <3>2 DEF ValidAnchor
    <3>4. \A k \in 1..Len(records') : records'[k].seq = anchor'.seq + k /\ records'[k].tx <= s'.counter
      BY <3>2
    <3>5. s'.seq = anchor'.seq + Len(records')
      BY <2>1, <2>4, <2>5, <3>2 DEF SameAnchor
    <3>6. anchor'.counter <= s'.counter /\ anchor'.genFloor <= s'.genFloor /\ anchor'.secFloor <= s'.secFloor
      BY <2>1, <2>4, <2>5 DEF SameAnchor
    <3>7. Room(s', Len(records'))
      <4>1. Reserve(s') = Reserve(s) /\ Reserve(s) \in 0..2
        BY <2>1, <2>4 DEF Reserve, SameAnchor
      <4>2. s'.seq + Reserve(s') <= MaxSeq
        BY <2>3, <2>4, <4>1 DEF Room, SameAnchor
      <4> QED
        BY <3>2, <4>1, <4>2, Bounds DEF Room
    <3> QED
      BY <2>4, <3>1, <3>2, <3>3, <3>4, <3>5, <3>6, <3>7 DEF JournalInv
  <2>7. FinishedInv'
    BY <2>1, <2>4 DEF FinishedInv, LineageOf, SameAnchor
  <2>8. ShownInv'
    <3>1. ToSet(records)' = {}
      BY <2>1 DEF ToSet
    <3>2. shown' \subseteq 1..s'.counter
      BY <2>1, <2>4 DEF ShownInv, SameAnchor
    <3> QED
      BY <2>4, <3>1, <3>2 DEF ShownInv, RetiredNeverShown
  <2>9. CheckpointInv'
    BY <2>1 DEF CheckpointInv, CheckpointsAgree
  <2>10. SessionInv'
    BY <2>1, <2>2 DEF SessionInv
  <2>11. PendingInv'
    BY <2>1 DEF PendingInv
  <2>12. HeadInv'
    BY <2>1, <2>2, <2>4 DEF HeadInv, SameAnchor
  <2>13. MinInv'
    BY <2>1, <2>4, MinFrame DEF Arriving, SameAnchor
  <2> QED
    BY <2>6, <2>7, <2>8, <2>9, <2>10, <2>11, <2>12, <2>13
<1> QED
  BY <1>1, <1>2

-----------------------------------------------------------------------------
(* The theorems                                                            *)

\* The empty store is sound.
LEMMA FirstIsSound ==
  LET n == AtAnchor(FirstAnchor)
  IN  /\ FirstAnchor \in Anchors /\ ValidAnchor(FirstAnchor) /\ Sound(n) /\ Start(FirstAnchor) = n
      /\ SameAnchor(FirstAnchor, n) /\ n.active = None
<1> DEFINE a == FirstAnchor
           n == AtAnchor(a)
<1>1. /\ a.seq = 0 /\ a.counter = 0 /\ a.gen = 0 /\ a.genFloor = 0 /\ a.secFloor = 0 /\ a.sel = Nothing
      /\ a.terminal.op = "None"
  BY DEF FirstAnchor
<1>2. a \in Anchors
  <2>1. [tx |-> 0, op |-> "None", outcome |-> "None"] \in Terminals
    BY DEF Terminals
  <2> QED
    BY <2>1, SelectionFacts DEF FirstAnchor, Anchors
<1>3. ValidAnchor(a)
  BY <1>1 DEF ValidAnchor
<1> HIDE DEF a
<1>4. <<a.seq, "anchor">> \in Tails
  BY <1>1 DEF Tails
<1>5. n \in States /\ SameAnchor(a, n) /\ n.active = None
  BY <1>2, <1>4 DEF AtAnchor, Anchors, States, SameAnchor
<1> HIDE DEF n
<1>6. Sound(n)
  <2>1. Bounded(n)
    BY <1>1, <1>5, Bounds DEF Bounded, SameAnchor
  <2> QED
    BY <1>1, <1>5, <2>1 DEF Sound, Unresolved, AtFloor, Ended, SameAnchor
<1> QED
  BY <1>2, <1>3, <1>5, <1>6 DEF n, a, Start

\* The invariant holds of the empty store.
LEMMA InitHolds == Init => IInv
<1> SUFFICES ASSUME Init PROVE IInv
  OBVIOUS
<1>1. /\ anchor \in Anchors /\ ValidAnchor(anchor) /\ Sound(s) /\ Start(anchor) = s /\ SameAnchor(anchor, s)
      /\ s.active = None
  BY FirstIsSound DEF Init
<1>2. anchor.seq = 0 /\ anchor.counter = 0 /\ anchor.genFloor = 0 /\ anchor.secFloor = 0
      /\ anchor.terminal.op = "None"
  BY DEF Init, FirstAnchor
<1>3. /\ s.seq = 0 /\ s.counter = 0 /\ s.genFloor = 0 /\ s.secFloor = 0 /\ s.terminal.op = "None"
  BY <1>1, <1>2 DEF SameAnchor
<1>4. JournalInv
  <2>1. Reconstruct(anchor, records) = s
    BY <1>1, ReconstructEmpty DEF Init
  <2>2. records \in Seq(Records) /\ Len(records) = 0 /\ MaxRecords \in Nat
    BY Bounds DEF Init
  <2>3. Reserve(s) = 2
    BY <1>1, <1>3 DEF Reserve, CheckpointOps
  <2>4. Room(s, Len(records))
    BY <1>3, <2>2, <2>3, Bounds DEF Room
  <2> QED
    BY <1>1, <1>2, <1>3, <2>1, <2>2, <2>4 DEF JournalInv
<1>5. SessionInv /\ PendingInv
  BY DEF Init, SessionInv, PendingInv
<1>6. CheckpointInv
  BY DEF Init, CheckpointInv, CheckpointsAgree
<1>7. HeadInv
  <2>1. head = HeadFor(s)
    BY DEF Init
  <2> QED
    BY <1>1, <1>3, <2>1, HeadTyped DEF HeadInv
<1>8. MinInv
  <2>1. min = Minimum(s) /\ Reached = s
    BY DEF Init, Reached, Arriving
  <2> QED
    BY <1>3, <2>1 DEF MinInv, Minimum, Minima
<1>9. FinishedInv
  BY <1>1, <1>3 DEF Init, FinishedInv, LineageOf
<1>10. ShownInv
  <2>1. ToSet(records) = {} /\ shown = {}
    BY DEF Init, ToSet
  <2> QED
    BY <2>1 DEF ShownInv, RetiredNeverShown
<1> QED
  BY <1>4, <1>5, <1>6, <1>7, <1>8, <1>9, <1>10 DEF IInv

\* Nothing changes when nothing happens.
LEMMA StutterKeeps == IInv /\ UNCHANGED vars => IInv'
<1> SUFFICES ASSUME IInv, UNCHANGED vars PROVE IInv'
  OBVIOUS
<1> USE DEF IInv
<1>1. UNCHANGED <<anchor, records, head, candidate, obsolete, known, min, s, open, auth, pending, headRequired,
                  admitted, waiting, verified, published, completed, acks, finished, shown>>
  BY DEF vars, storage, progress, history
<1>2. JournalInv' /\ CheckpointInv' /\ FinishedInv' /\ ShownInv'
  BY <1>1, StoredFrame DEF StoredView
<1>3. SessionInv'
  BY <1>1 DEF SessionInv
<1>4. PendingInv'
  BY <1>1 DEF PendingInv, Disk
<1>5. HeadInv' /\ MinInv'
  BY <1>1 DEF HeadInv, MinInv, Reached, Arriving
<1> QED
  BY <1>2, <1>3, <1>4, <1>5

\* Every step keeps the invariant.
LEMMA StepKeeps == IInv /\ [Next]_vars => IInv'
<1> SUFFICES ASSUME IInv, [Next]_vars PROVE IInv'
  OBVIOUS
<1>1. CASE Open
  BY <1>1, OpenKeeps
<1>2. CASE EndSession
  BY <1>2, EndSessionKeeps
<1>3. CASE Flush
  BY <1>3, FlushKeeps
<1>4. CASE ReadBack
  BY <1>4, ReadBackKeeps
<1>5. CASE WriteHead
  BY <1>5, WriteHeadKeeps
<1>6. CASE WriteCheckpoint
  BY <1>6, WriteCheckpointKeeps
<1>7. CASE RetireJournal
  BY <1>7, RetireJournalKeeps
<1>8. CASE QueryStatus \/ \E phase \in {"Admission", "Result"} : Acknowledge(phase)
  BY <1>8, AnswersKeep
<1>9. CASE \E kind \in Kinds : WriteRecord(kind)
  BY <1>9, WriteRecordKeeps
<1>10. CASE UNCHANGED vars
  BY <1>10, StutterKeeps
<1> QED
  BY <1>1, <1>2, <1>3, <1>4, <1>5, <1>6, <1>7, <1>8, <1>9, <1>10 DEF Next

\* Whatever is lost, uncertain, retried, superseded or compacted, the stored journal
\* reconstructs to what the session works with, each historical admission checked against
\* what it was offered on, within the room its admission reserved.
THEOREM RecoveryInvariance == Spec => []IInv
<1>1. Init => IInv
  BY InitHolds
<1>2. IInv /\ [Next]_vars => IInv'
  BY StepKeeps
<1> QED
  BY <1>1, <1>2, PTL DEF Spec

\* A published head is that of the journal: what the classification lets pass as quiet.
LEMMA QuietHead ==
  ASSUME NEW d, NEW st, NEW m, Classified(d, st, m) \in {"Stable", "Active"}
  PROVE  d.candidate = None /\ d.head = HeadFor(st)
BY DEF Classified

\* Every counter stays within its limit.
LEMMA TypesHold == IInv => TypeOK
<1> SUFFICES ASSUME IInv PROVE TypeOK
  OBVIOUS
<1>1. Sound(s) /\ Len(records) <= MaxRecords
  BY DEF IInv, JournalInv
<1>2. /\ s.seq \in Nat /\ s.counter \in Nat /\ s.gen \in Nat /\ s.genFloor \in Nat
      /\ s.secFloor \in Nat /\ s.sel \in Selections /\ (s.active # None => s.active \in Actives)
      /\ s.seq <= MaxSeq /\ s.counter <= MaxCounter /\ s.gen <= MaxGen /\ s.genFloor <= MaxGen
      /\ s.secFloor <= MaxEpoch
  BY <1>1 DEF Sound, Bounded, States
<1>3. /\ s.seq \in 0..MaxSeq /\ s.counter \in 0..MaxCounter /\ {s.gen, s.genFloor} \subseteq 0..MaxGen
      /\ s.secFloor \in 0..MaxEpoch
  BY <1>2, Bounds
<1>4. s.active # None => s.active.target \in 0..MaxGen /\ Len(s.active.lineage) \in 1..MaxLineage
  <2> SUFFICES ASSUME s.active # None
               PROVE  s.active.target \in 0..MaxGen /\ Len(s.active.lineage) \in 1..MaxLineage
    OBVIOUS
  <2>1. s.active.target \in Nat
    BY <1>2 DEF Actives
  <2>2. s.active.target <= MaxGen /\ Len(s.active.lineage) \in 1..MaxLineage
    BY <1>1 DEF Sound, Working
  <2> QED
    BY <2>1, <2>2, Bounds
<1>5. /\ {known, open, headRequired, admitted, waiting, verified, published, completed} \subseteq BOOLEAN
      /\ acks \subseteq {"Admission", "Result"}
  BY DEF IInv, SessionInv
<1> QED
  BY <1>1, <1>2, <1>3, <1>4, <1>5 DEF TypeOK

\* What any ended session leaves satisfies the codec.
LEMMA SnapshotHolds == IInv => SnapshotKeeps
<1> SUFFICES ASSUME IInv, ~open PROVE Encodable
  BY DEF SnapshotKeeps
<1> USE DEF IInv
<1>1. Sound(s) /\ s = Reconstruct(anchor, records) /\ pending = None /\ ~headRequired
  BY DEF JournalInv, SessionInv
<1>2. /\ s.counter \in Nat /\ s.genFloor \in Nat /\ s.secFloor \in Nat /\ s \in States
      /\ min.counter \in Nat /\ min.gen \in Nat /\ min.secFloor \in Nat
      /\ s.counter <= min.counter /\ s.genFloor <= min.gen /\ s.secFloor <= min.secFloor
  BY <1>1, MinCovers DEF Sound, Bounded, States, Minima
<1>3. \A part \in {anchor, head, candidate, obsolete} \ {None} :
        part.counter <= min.counter /\ part.genFloor <= min.gen /\ part.secFloor <= min.secFloor
  <2> SUFFICES ASSUME NEW part \in {anchor, head, candidate, obsolete} \ {None}
               PROVE  part.counter <= min.counter /\ part.genFloor <= min.gen /\ part.secFloor <= min.secFloor
    OBVIOUS
  <2>1. part \in Anchors \cup Heads
    BY DEF JournalInv, HeadInv, CheckpointInv
  <2>2. part.counter \in Nat /\ part.genFloor \in Nat /\ part.secFloor \in Nat
    BY <2>1 DEF Anchors, Heads
  <2>3. part.counter <= s.counter /\ part.genFloor <= s.genFloor /\ part.secFloor <= s.secFloor
    <3>1. CASE part \in {anchor, head}
      BY <3>1 DEF JournalInv, HeadInv
    <3>2. CASE part \in {candidate, obsolete} \ {None}
      <4>1. part.genFloor = s.genFloor /\ part.secFloor = s.secFloor /\ part.counter <= s.counter
        BY <3>2 DEF CheckpointInv, CheckpointsAgree
      <4> QED
        BY <4>1, <1>2
    <3> QED
      BY <3>1, <3>2
  <2> QED
    BY ONLY <2>2, <2>3, <1>2
<1>4. \A n \in 1..Len(records) : records[n].seq = anchor.seq + n /\ records[n].tx <= min.counter
  <2> SUFFICES ASSUME NEW n \in 1..Len(records)
               PROVE  records[n].seq = anchor.seq + n /\ records[n].tx <= min.counter
    OBVIOUS
  <2>1. records[n].seq = anchor.seq + n /\ records[n].tx <= s.counter /\ records[n] \in Records
    BY DEF JournalInv
  <2>2. records[n].tx \in Nat
    BY <2>1 DEF Records
  <2>3. records[n].tx <= min.counter
    BY ONLY <2>1, <2>2, <1>2
  <2> QED
    BY <2>1, <2>3
<1>5. known /\ candidate = None
        => LET st == Reconstruct(anchor, records) IN st # None /\ Classified(Disk, st, min) # "Conflict"
  <2> SUFFICES ASSUME known, candidate = None PROVE s # None /\ Classified(Disk, s, min) # "Conflict"
    BY <1>1
  <2>1. min = Minimum(s)
    BY <1>1 DEF MinInv, Reached, Arriving
  <2>2. obsolete = None /\ head = HeadFor(s)
    BY <1>1 DEF CheckpointInv, HeadInv
  <2> QED
    BY <1>2, <2>1, <2>2, NullAssumption DEF Classified, Disk
<1> QED
  BY <1>3, <1>4, <1>5 DEF Encodable

\* Journal, head, checkpoints and minimum tell one story: a restart reconstructs the state
\* the sessions worked with, any snapshot they leave can be encoded, and no checkpoint
\* rolls back.
THEOREM StoreIsOneStory == Spec => []StoreAgrees
<1>1. IInv => StoreAgrees
  <2> SUFFICES ASSUME IInv PROVE StoreAgrees
    OBVIOUS
  <2>1. RestartAgrees
    BY DEF RestartAgrees, IInv, JournalInv
  <2>2. CheckpointsAgree
    BY DEF IInv, CheckpointInv
  <2> QED
    BY <2>1, <2>2, TypesHold, SnapshotHolds DEF StoreAgrees
<1> QED
  BY <1>1, RecoveryInvariance, PTL

\* What an admission asked room for is enough for all it still has to write, and for the
\* compaction after it, whatever crashes and recoveries come between.
THEOREM CapacityIsReserved == Spec => []AdmittedFits
<1>1. IInv => AdmittedFits
  <2> SUFFICES ASSUME IInv PROVE AdmittedFits
    OBVIOUS
  <2>1. Sound(s) /\ Room(s, Len(records)) /\ records \in Seq(Records)
    BY DEF IInv, JournalInv
  <2>2. PICK m \in Nat : m = Len(records)
    BY <2>1
  <2>3. s.seq \in Nat /\ m + Reserve(s) <= MaxRecords /\ s.seq + Reserve(s) <= MaxSeq
    BY <2>1, <2>2 DEF Room, Sound, Bounded, States
  <2>4. s.active # None => m + Outstanding(s.active) <= MaxRecords /\ s.seq + Outstanding(s.active) <= MaxSeq
    BY <2>3, Bounds DEF Reserve, Outstanding
  <2>5. s.active = None /\ s.terminal.op \notin CheckpointOps => Reserve(s) = 2
    BY DEF Reserve
  <2>6. Costs("CompactTerminalState") = 2
    BY DEF Costs, Publications, CheckpointOps
  <2>7. AdmittedCanEnd
    BY <2>2, <2>4 DEF AdmittedCanEnd
  <2>8. RoomToCompact
    BY <2>2, <2>3, <2>5, <2>6 DEF RoomToCompact, HasCapacity
  <2> QED
    BY <2>7, <2>8 DEF AdmittedFits
<1> QED
  BY <1>1, RecoveryInvariance, PTL

\* A status answer tells finished from unfinished work, a reported selection is the settled
\* one, and what is reported as retired was never shown.
THEOREM ReportsAreSound == Spec => []ReportsAreTrue
<1>1. IInv => ReportsAreTrue
  <2> SUFFICES ASSUME IInv PROVE ReportsAreTrue
    OBVIOUS
  <2>1. StatusIsTrue
    <3> SUFFICES ASSUME Quiet, NEW t \in 1..s.counter
                 PROVE  t \in finished <=> StatusOf(t) \in {"Completed", "CandidateRetired", "Retired"}
      BY DEF StatusIsTrue
    <3>1. t \in finished <=> t \notin LineageOf(s)
      BY DEF IInv, FinishedInv
    <3>2. CASE s.active # None /\ t \in ToSet(s.active.lineage)
      BY <3>1, <3>2 DEF LineageOf, StatusOf
    <3>3. CASE ~(s.active # None /\ t \in ToSet(s.active.lineage))
      BY <3>1, <3>3 DEF LineageOf, StatusOf
    <3> QED
      BY <3>2, <3>3
  <2>2. KnownIsSettled
    <3> SUFFICES ASSUME SelectionKnown PROVE s.gen = s.genFloor /\ head.sel = s.sel
      BY DEF KnownIsSettled
    <3>1. Sound(s) /\ ~Unresolved(s)
      BY DEF SelectionKnown, Unresolved, IInv, JournalInv
    <3>2. head = HeadFor(s)
      BY QuietHead DEF SelectionKnown, Quiet, Disk
    <3> QED
      BY <3>1, <3>2, HeadTyped DEF Sound
  <2>3. RetiredNeverShown
    BY DEF IInv, ShownInv
  <2> QED
    BY <2>1, <2>2, <2>3 DEF ReportsAreTrue
<1> QED
  BY <1>1, RecoveryInvariance, PTL

-----------------------------------------------------------------------------
(* The store implements the ledger all maintenance models share            *)

\* Two states the ledger cannot tell apart.
SameLedger(st, n) == n.counter = st.counter /\ SameDeployment(st, n) /\ PhaseOf(n) = PhaseOf(st)

\* A step leaves what is stored alone, rebases it, or flushes one record.
LEMMA StateMoves ==
  ASSUME IInv, [Next]_vars
  PROVE  SameLedger(s, s') \/ \E r \in Records : Advances(s, s', r)
<1>1. Sound(s) /\ s = Reconstruct(anchor, records)
  BY DEF IInv, JournalInv
<1>2. CASE s' = s
  BY <1>2 DEF SameLedger, SameDeployment, PhaseOf, Unresolved
<1>3. CASE Flush /\ s' # s
  <2> DEFINE r == pending.record
  <2>1. Arriving /\ s' = Chained(s, r)
    BY <1>3 DEF Flush, FlushRecord, Arriving
  <2>2. r \in Records /\ Advances(s, s', r)
    BY <2>1, ArrivingAdvances
  <2> QED
    BY <2>2
<1>4. CASE RetireJournal /\ s' # s
  <2>1. verified /\ s.active = None /\ s' = AtAnchor(candidate)
    BY <1>4 DEF RetireJournal
  <2>2. candidate = AnchorOf(s)
    BY <2>1 DEF IInv, SessionInv
  <2>3. SameAnchor(s, s') /\ s'.active = None
    BY <1>1, <2>1, <2>2, AnchorKeeps
  <2> QED
    BY <2>1, <2>3 DEF SameLedger, SameDeployment, SameAnchor, PhaseOf
<1>5. CASE ~Flush /\ ~RetireJournal /\ s' # s
  BY <1>1, <1>5 DEF Next, Open, EndSession, ReadBack, WriteHead, WriteCheckpoint, QueryStatus, WriteRecord,
     Acknowledge, vars
<1> QED
  BY <1>2, <1>3, <1>4, <1>5

\* Each flushed record is the step of the ledger its kind names; one that only wrote
\* metadata, or gave its candidate up, retires.
LEMMA LedgerStep ==
  ASSUME IInv, IInv', [Next]_vars
  PROVE  [L!LedgerNext]_(L!ledger)
<1>1. /\ (IF s.active = None THEN "Stable" ELSE IF Unresolved(s) THEN "Blocked" ELSE s.active.stage) = PhaseOf(s)
      /\ (IF s.active = None THEN "Stable" ELSE IF Unresolved(s) THEN "Blocked" ELSE s.active.stage)' = PhaseOf(s')
  BY DEF PhaseOf, Unresolved
<1>2. Sound(s) /\ Sound(s')
  BY DEF IInv, JournalInv, Sound, Bounded, Working, Targeted, Ended, Unresolved
<1>3. s.secFloor \in Nat /\ s'.secFloor \in Nat /\ s.sel \in Selections /\ s'.sel \in Selections
  BY <1>2 DEF Sound, Bounded, States
<1>4. CASE SameLedger(s, s')
  BY <1>1, <1>4 DEF L!ledger, SameLedger, SameDeployment
<1>5. CASE \E r \in Records : Advances(s, s', r)
  <2>1. PICK r \in Records : Advances(s, s', r)
    BY <1>5
  <2>2. Moves(s, s', r.kind) /\ r.kind \in Kinds
    BY <2>1 DEF Advances, Records
  <2>3. CASE r.kind = "Admission"
    <3>1. L!Admit
      BY <1>1, <2>2, <2>3 DEF L!Admit, Moves, SameDeployment
    <3> QED
      BY <3>1 DEF L!LedgerNext
  <2>4. CASE r.kind = "Block"
    <3>1. s'.secFloor >= s.secFloor /\ s'.secFloor >= s.sel.epoch /\ 0 <= s'.secFloor
      BY <1>3, <2>2, <2>4 DEF Moves
    <3>2. L!Block
      BY <1>1, <1>3, <2>2, <2>4, <3>1 DEF L!Block, L!EpochOf, Moves, SameLineage
    <3> QED
      BY <3>2 DEF L!LedgerNext
  <2>5. CASE r.kind = "Commit"
    <3>1. L!Commit
      BY <1>1, <2>2, <2>5 DEF L!Commit, L!AtFloor, Moves, SameLineage, NotBelow
    <3> QED
      BY <3>1 DEF L!LedgerNext
  <2>6. CASE r.kind = "Complete"
    <3>1. L!Complete
      BY <1>1, <2>2, <2>6 DEF L!Complete, Moves, SameDeployment
    <3> QED
      BY <3>1 DEF L!LedgerNext
  <2>7. CASE r.kind \in {"Retire", "AuthorizeCheckpoint"}
    <3>1. L!Retire
      BY <1>1, <2>2, <2>7 DEF L!Retire, Moves, SameDeployment
    <3> QED
      BY <3>1 DEF L!LedgerNext
  <2> QED
    BY <2>2, <2>3, <2>4, <2>5, <2>6, <2>7 DEF Kinds
<1> QED
  BY <1>4, <1>5, StateMoves

\* What is stored behaves as the ledger of one machine: a record in flight, a lost or
\* repeated write, a restart, a checkpoint and a compaction are no steps of it.
THEOREM RecoveryImplementsLedger == Spec => ImplementsLedger
<1>1. Init => L!LedgerInit
  <2> SUFFICES ASSUME Init PROVE L!LedgerInit
    OBVIOUS
  <2>1. SameAnchor(FirstAnchor, s) /\ s.active = None
    BY FirstIsSound DEF Init
  <2>2. s.counter = 0 /\ s.gen = 0 /\ s.genFloor = 0 /\ s.secFloor = 0 /\ s.sel = Nothing
    BY <2>1 DEF SameAnchor, FirstAnchor
  <2> QED
    BY <2>1, <2>2 DEF L!LedgerInit, L!AtFloor
<1> QED
  BY <1>1, LedgerStep, RecoveryInvariance, PTL DEF Spec, ImplementsLedger, L!Ledger
=============================================================================
