-------------------- MODULE MaintenancePersistenceProofs --------------------
(***************************************************************************)
(* Proofs about the maintenance store.                                     *)
(*                                                                         *)
(* The first part unrolls Replay, the recursion over the journal, by the   *)
(* least counterexample; the second follows each kind of record from one   *)
(* sound state to the next; the third shows that every step of a session   *)
(* keeps the stored journal, the head, the checkpoint and the watermarks   *)
(* in agreement; the last derives what the runs check, maps the store to   *)
(* the ledger all maintenance models share, and shows what the store       *)
(* inherits by implementing it.                                            *)
(***************************************************************************)
EXTENDS MaintenancePersistence, FiniteSetTheorems, WellFoundedInduction, TLAPS

\* Every nonempty set of naturals has a least element.
LEMMA LeastNumber ==
  ASSUME NEW T \in SUBSET Nat, T # {}
  PROVE  \E x \in T : \A y \in T : x <= y
<1> DEFINE U == {1..k : k \in T}
<1>1. IsWellFoundedOn(StrictSubsetOrdering(Nat), FiniteSubsetsOf(Nat))
  BY FS_StrictSubsetOrderingWellFounded
<1>2. U \subseteq FiniteSubsetsOf(Nat) /\ U # {}
  <2>1. ASSUME NEW k \in T PROVE 1..k \in SUBSET Nat /\ IsFiniteSet(1..k)
    BY FS_Interval
  <2> QED
    BY <2>1 DEF FiniteSubsetsOf
<1>3. PICK X \in U : \A Y \in U : <<Y, X>> \notin StrictSubsetOrdering(Nat)
  <2> HIDE DEF U
  <2> QED
    BY <1>1, <1>2, WFMin
<1>4. PICK x \in T : X = 1..x
  OBVIOUS
<1>5. ASSUME NEW y \in T PROVE x <= y
  <2> SUFFICES ASSUME y < x PROVE FALSE
    OBVIOUS
  <2>1. 1..y \subseteq 1..x /\ x \in 1..x /\ x \notin 1..y /\ 1..x \in SUBSET Nat /\ 1..y \in SUBSET Nat
    OBVIOUS
  <2>2. <<1..y, 1..x>> \in StrictSubsetOrdering(Nat)
    BY <2>1 DEF StrictSubsetOrdering
  <2> QED
    BY <2>2, <1>3, <1>4
<1> QED
  BY <1>5

\* The replay of an empty journal.
Start(a) == IF ValidAnchor(a) THEN FromAnchor(a) ELSE None

\* f holds the states of the replay up to the record m.
Unrolls(f, a, rs, m) ==
  f = [n \in 0..m |-> IF n = 0 THEN Start(a) ELSE Replayed(f[n - 1], rs[n])]

\* The replay is defined for every length: no least length could lack it.
LEMMA Unrolling ==
  ASSUME NEW a, NEW rs
  PROVE  \A m \in Nat : \E f : Unrolls(f, a, rs, m)
<1> DEFINE T == {m \in Nat : ~\E f : Unrolls(f, a, rs, m)}
<1> SUFFICES ASSUME T # {} PROVE FALSE
  OBVIOUS
<1>1. PICK m \in T : \A k \in T : m <= k
  <2> HIDE DEF T
  <2>1. T \in SUBSET Nat
    BY DEF T
  <2> QED
    BY <2>1, LeastNumber
<1>2. m # 0
  <2>1. Unrolls([n \in 0..0 |-> Start(a)], a, rs, 0)
    BY DEF Unrolls
  <2> QED
    BY <2>1
<1>3. PICK f : Unrolls(f, a, rs, m - 1)
  <2>1. m - 1 \in Nat /\ m - 1 \notin T
    BY <1>1, <1>2
  <2> QED
    BY <2>1
<1> DEFINE g == [n \in 0..m |-> IF n = m THEN Replayed(f[m - 1], rs[m]) ELSE f[n]]
<1>4. ASSUME NEW n \in 0..m
      PROVE  g[n] = IF n = 0 THEN Start(a) ELSE Replayed(g[n - 1], rs[n])
  <2>1. CASE n = m
    <3>1. g[n - 1] = f[m - 1]
      BY <2>1, <1>2
    <3> QED
      BY <3>1, <2>1, <1>2
  <2>2. CASE n # m
    <3>1. n \in 0..(m - 1) /\ (n # 0 => n - 1 \in 0..(m - 1))
      BY <2>2, <1>2
    <3>2. f[n] = IF n = 0 THEN Start(a) ELSE Replayed(f[n - 1], rs[n])
      BY <3>1, <1>3 DEF Unrolls
    <3> QED
      BY <3>1, <3>2, <2>2
  <2> QED
    BY <2>1, <2>2
<1>5. Unrolls(g, a, rs, m)
  <2> HIDE DEF g
  <2>1. g = [n \in 0..m |-> g[n]]
    BY DEF g
  <2> QED
    BY <2>1, <1>4 DEF Unrolls
<1> QED
  BY <1>5, <1>1

\* Replay is the last state of its unrolling.
LEMMA ReplayUnrolls ==
  ASSUME NEW a, NEW R, NEW rs \in Seq(R)
  PROVE  \E f : Unrolls(f, a, rs, Len(rs)) /\ Replay(a, rs) = f[Len(rs)]
<1> DEFINE after == CHOOSE f : f = [n \in 0..Len(rs) |->
              IF n = 0 THEN IF ValidAnchor(a) THEN FromAnchor(a) ELSE None
                 ELSE CHOOSE next \in {Replayed(s, rs[n]) : s \in {f[n - 1]}} : TRUE]
<1>1. Replay(a, rs) = after[Len(rs)]
  BY DEF Replay
<1>2. ASSUME NEW f PROVE
        [n \in 0..Len(rs) |->
              IF n = 0 THEN IF ValidAnchor(a) THEN FromAnchor(a) ELSE None
                 ELSE CHOOSE next \in {Replayed(s, rs[n]) : s \in {f[n - 1]}} : TRUE]
        = [n \in 0..Len(rs) |-> IF n = 0 THEN Start(a) ELSE Replayed(f[n - 1], rs[n])]
  <2>1. ASSUME NEW n PROVE (CHOOSE next \in {Replayed(s, rs[n]) : s \in {f[n - 1]}} : TRUE)
                             = Replayed(f[n - 1], rs[n])
    <3> DEFINE x == Replayed(f[n - 1], rs[n])
    <3>1. {Replayed(s, rs[n]) : s \in {f[n - 1]}} = {x}
      OBVIOUS
    <3> HIDE DEF x
    <3>2. (CHOOSE next \in {x} : TRUE) = x
      OBVIOUS
    <3>3. (CHOOSE next \in {Replayed(s, rs[n]) : s \in {f[n - 1]}} : TRUE) = x
      BY <3>1, <3>2
    <3> QED
      BY <3>3 DEF x
  <2> QED
    BY <2>1 DEF Start
<1>3. Len(rs) \in Nat
  OBVIOUS
<1>4. \E f : Unrolls(f, a, rs, Len(rs))
  BY <1>3, Unrolling
<1>5. after = CHOOSE f : Unrolls(f, a, rs, Len(rs))
  BY <1>2 DEF Unrolls
<1>6. Unrolls(after, a, rs, Len(rs))
  <2> HIDE DEF after
  <2> QED
    BY <1>4, <1>5
<1> QED
  BY <1>6, <1>1

\* Two replays agree as long as their records do.
LEMMA UnrollingsAgree ==
  ASSUME NEW a, NEW rs, NEW ss, NEW f, NEW g, NEW m \in Nat, NEW k \in Nat, m <= k,
         Unrolls(f, a, rs, m), Unrolls(g, a, ss, k), \A n \in 1..m : rs[n] = ss[n]
  PROVE  f[m] = g[m]
<1> DEFINE T == {n \in 0..m : f[n] # g[n]}
<1>1. \A n \in 0..m : f[n] = IF n = 0 THEN Start(a) ELSE Replayed(f[n - 1], rs[n])
  BY DEF Unrolls
<1>2. \A n \in 0..k : g[n] = IF n = 0 THEN Start(a) ELSE Replayed(g[n - 1], ss[n])
  BY DEF Unrolls
<1> SUFFICES ASSUME T # {} PROVE FALSE
  OBVIOUS
<1>3. PICK n \in T : \A j \in T : n <= j
  <2>1. T \in SUBSET Nat
    OBVIOUS
  <2> HIDE DEF T
  <2> QED
    BY <2>1, LeastNumber
<1>4. n # 0
  BY <1>1, <1>2
<1>5. n - 1 \in 0..m /\ n - 1 \notin T
  BY <1>3, <1>4
<1>6. f[n] = g[n]
  <2>1. f[n - 1] = g[n - 1] /\ rs[n] = ss[n]
    BY <1>4, <1>5
  <2>2. f[n] = Replayed(f[n - 1], rs[n]) /\ g[n] = Replayed(g[n - 1], ss[n])
    BY <1>1, <1>2, <1>4
  <2> QED
    BY <2>1, <2>2
<1> QED
  BY <1>6

\* Nothing is replayed on an empty journal.
LEMMA ReplayEmpty ==
  ASSUME NEW a
  PROVE  Replay(a, <<>>) = Start(a)
<1>1. PICK f : Unrolls(f, a, <<>>, Len(<<>>)) /\ Replay(a, <<>>) = f[Len(<<>>)]
  <2>1. <<>> \in Seq({})
    OBVIOUS
  <2> QED
    BY <2>1, ReplayUnrolls
<1> QED
  BY <1>1 DEF Unrolls

\* Appending a record replays that record after all the others.
LEMMA ReplayAppend ==
  ASSUME NEW a, NEW R, NEW rs \in Seq(R), NEW r \in R
  PROVE  Replay(a, Append(rs, r)) = Replayed(Replay(a, rs), r)
<1>1. PICK longer : longer = Append(rs, r)
  OBVIOUS
<1>2. PICK m \in Nat : m = Len(rs)
  OBVIOUS
<1>3. PICK k \in Nat : k = m + 1 /\ m <= k
  OBVIOUS
<1>4. longer \in Seq(R) /\ Len(longer) = k /\ longer[k] = r /\ (\A n \in 1..m : rs[n] = longer[n])
  BY <1>1, <1>2, <1>3
<1>5. PICK f : Unrolls(f, a, rs, m) /\ Replay(a, rs) = f[m]
  BY <1>2, ReplayUnrolls
<1>6. PICK g : Unrolls(g, a, longer, k) /\ Replay(a, longer) = g[k]
  BY <1>4, ReplayUnrolls
<1>7. f[m] = g[m]
  <2>1. m \in Nat /\ k \in Nat /\ m <= k
    BY <1>3
  <2>2. Unrolls(f, a, rs, m) /\ Unrolls(g, a, longer, k)
    BY <1>5, <1>6
  <2>3. \A n \in 1..m : rs[n] = longer[n]
    BY <1>4
  <2>4. \A x \in Nat, y \in Nat : x <= y /\ (\A n \in 1..x : rs[n] = longer[n]) /\ Unrolls(f, a, rs, x) /\ Unrolls(g, a, longer, y) => f[x] = g[x]
    BY ONLY UnrollingsAgree
  <2> QED
    BY ONLY <2>1, <2>2, <2>3, <2>4
<1>8. g[k] = Replayed(g[m], r)
  BY <1>3, <1>4, <1>6 DEF Unrolls
<1> QED
  BY <1>1, <1>5, <1>6, <1>7, <1>8
-----------------------------------------------------------------------------
\* A visible selection at, or not below, a security floor.
AtFloor(sel, floor) == sel # Nothing => sel.epoch = floor
NotBelow(sel, floor) == sel # Nothing => sel.epoch >= floor

\* The types and limits of a state.
Bounded(s) ==
  /\ s \in States
  /\ s.seq <= MaxSeq /\ s.counter <= MaxCounter /\ s.gen <= MaxGen /\ s.genFloor <= MaxGen
  /\ s.secFloor <= MaxEpoch /\ s.last <= s.counter

\* The active work is the newest transaction of its lineage.
Working(s, a) ==
  /\ a.tx = s.counter /\ Len(a.lineage) \in 1..MaxLineage /\ a.target <= MaxGen
  /\ ToSet(a.lineage) \subseteq 1..s.counter /\ s.last \notin ToSet(a.lineage)
  /\ a.stage = "Blocked" => a.publishing
  /\ a.stage = "Committed" => ~a.publishing
  /\ a.cleanup => a.stage = "Committed"

\* The generation it aims at is fresh until it is blocked, then it is the floor.
Targeted(s, a) ==
  /\ a.stage = "Admitted" => /\ a.target = s.genFloor + 1 
                             /\ NotBelow(a.cand, s.secFloor) /\ NotBelow(a.cand, s.sel.epoch)
  /\ a.stage = "Blocked" => a.target = s.genFloor /\ AtFloor(a.cand, s.secFloor)

\* Until it commits, its candidate is the original one or the previous selection, and the
\* original still satisfies every floor.
Undecided(s, a) ==
  a.stage = "Admitted" \/ a.publishing =>
    /\ a.previous = s.sel /\ a.cand \in {a.original, a.previous}
    /\ NotBelow(a.original, s.secFloor) /\ NotBelow(a.original, s.sel.epoch)

\* What replay() may produce: a visible selection is exactly at the security floor, a
\* publication under way raised both floors above what is selected.
Sound(s) ==
  /\ Bounded(s)
  /\ s.active = None => s.last \in {0, s.counter}
  /\ s.active # None => Working(s, s.active) /\ Targeted(s, s.active) /\ Undecided(s, s.active)
  /\ IF Publishing(s) THEN s.gen < s.genFloor /\ s.sel.epoch <= s.secFloor
     ELSE s.gen = s.genFloor /\ AtFloor(s.sel, s.secFloor)

\* The chain without its newest record.
Previous == Replay(anchor, Front(records))

\* The journal replays to the state of the session, which is sound.
JournalInv ==
  /\ anchor \in Anchors /\ ValidAnchor(anchor)
  /\ records \in Seq(Records) /\ Len(records) <= MaxRecords
  /\ \A n \in 1..Len(records) : records[n].seq = anchor.seq + n /\ records[n].tx <= st.counter
  /\ st = Durable /\ Sound(st) /\ st.seq = anchor.seq + Len(records)
  /\ anchor.counter <= st.counter /\ anchor.gen <= st.genFloor /\ anchor.secFloor <= st.secFloor

\* The types of the session.
TypeInv ==
  /\ known \in BOOLEAN /\ open \in BOOLEAN /\ headRequired \in BOOLEAN /\ verified \in BOOLEAN
  /\ published \in BOOLEAN /\ quiescent \in BOOLEAN /\ reserved \in BOOLEAN /\ waiting \in BOOLEAN
  /\ acks \subseteq {"Admission", "Result"} /\ intent \in Intents \cup {None}

\* A checkpoint only exists for a settled state, and is published after it was verified.
SessionInv ==
  /\ open => known
  /\ ~open => pending = None /\ ~headRequired /\ ~verified /\ ~published
  /\ published => verified /\ head = HeadFor(FromAnchor(candidate))
  /\ verified => candidate # None
  /\ candidate # None => st.active = None /\ candidate = AnchorFor(st) /\ ~headRequired

\* A record was written and is not known to be durable.
Arriving == pending # None /\ pending.target = "Journal" /\ ~pending.flushed

\* The write in flight fits the state the session was in when it wrote.
PendingInv ==
  /\ pending \in Writes \cup {None}
  /\ pending # None =>
      CASE pending.target = "Journal" ->
             /\ candidate = None /\ ~headRequired
             /\ IF pending.flushed THEN records # <<>> /\ head = HeadFor(Previous)
                ELSE /\ st.seq < MaxSeq /\ Len(records) < MaxRecords
                     /\ pending.record.seq = st.seq + 1 
                     /\ Fits(st, pending.record.kind, pending.record.tx, pending.record.intent)
        [] pending.target = "Head" ->
             /\ ~published /\ (headRequired \/ verified)
             /\ (IF pending.flushed THEN head ELSE pending.head)
                  = HeadFor(IF verified THEN FromAnchor(candidate) ELSE st)
        [] pending.target = "Checkpoint" -> candidate # None

\* The head is the one of the chain or of the checkpoint, or lags by one record, and then
\* the session knows that it must publish again.
HeadInv ==
  /\ head \in Heads
  /\ head = HeadFor(st) \/ (candidate # None /\ head = HeadFor(FromAnchor(candidate)))
       \/ (records # <<>> /\ candidate = None /\ head = HeadFor(Previous)
           /\ (open => headRequired \/ (pending # None /\ pending.target = "Journal" /\ pending.flushed)))

\* The watermarks of a state, and the state the store will be in once the write arrives.
MarksOf(s) == [counter |-> s.counter, gen |-> s.genFloor, secFloor |-> s.secFloor]
Reached == IF Arriving THEN Chained(st, pending.record) ELSE st

\* The watermarks cover that state, and are exactly it while the image is Known.
MarksInv ==
  /\ marks \in [counter : Nat, gen : Nat, secFloor : Nat]
  /\ marks.counter >= Reached.counter /\ marks.gen >= Reached.genFloor /\ marks.secFloor >= Reached.secFloor
  /\ known => marks = MarksOf(Reached)

\* The transactions of the active lineage.
LineageOf(s) == IF s.active = None THEN {} ELSE ToSet(s.active.lineage)

\* Every transaction ever admitted is finished or in the active lineage.
FinishedInv == finished = (1..st.counter) \ LineageOf(st)

\* The inductive invariant of the store.
IInv == JournalInv /\ TypeInv /\ SessionInv /\ PendingInv /\ HeadInv /\ MarksInv /\ FinishedInv

-----------------------------------------------------------------------------
\* The limits are numbers.
LEMMA Bounds ==
  /\ MaxEpoch \in Nat /\ MaxCounter \in Nat /\ MaxGen \in Nat /\ MaxSeq \in Nat
  /\ MaxRecords \in Nat /\ MaxLineage \in Nat
  /\ MaxSeq > 0 /\ MaxLineage > 0
BY PersistenceAssumption

\* A selection has an epoch within the limit, zero when nothing is selected.
LEMMA SelectionFacts ==
  /\ \A x \in Selections : x.epoch \in Nat /\ x.epoch <= MaxEpoch /\ (x = Nothing => x.epoch = 0)
  /\ Nothing \in Selections
BY Bounds DEF Selections, Nothing

\* Only a recovery names a recovery target.
LEMMA IntentFacts ==
  ASSUME NEW i \in Intents
  PROVE  /\ i.kind \in {"Maintenance", "Recovery"} /\ i.tx \in Nat /\ i.sel \in Selections
         /\ i.target \in Targets \cup {"none"}
         /\ i.kind = "Maintenance" => i.target = "none"
BY DEF Intents

\* Appending adds one member.
LEMMA AppendedSet ==
  ASSUME NEW R, NEW q \in Seq(R), NEW x \in R
  PROVE  ToSet(Append(q, x)) = ToSet(q) \cup {x}
<1>1. DOMAIN Append(q, x) = 1..(Len(q) + 1) /\ DOMAIN q = 1..Len(q) /\ Len(q) \in Nat
  OBVIOUS
<1>2. \A k \in 1..(Len(q) + 1) : Append(q, x)[k] = IF k = Len(q) + 1 THEN x ELSE q[k]
  OBVIOUS
<1> QED
  BY <1>1, <1>2 DEF ToSet

\* Chaining a record only sets the sequence number and the tail.
LEMMA ChainedFields ==
  ASSUME NEW s, NEW r \in Records, Advanced(s, r.kind, r.tx, r.intent) \in States
  PROVE  LET b == Advanced(s, r.kind, r.tx, r.intent)
             n == Chained(s, r)
         IN  /\ n \in States /\ n.seq = r.seq /\ n.counter = b.counter /\ n.gen = b.gen
             /\ n.genFloor = b.genFloor /\ n.secFloor = b.secFloor /\ n.sel = b.sel
             /\ n.last = b.last /\ n.active = b.active
<1> DEFINE b == Advanced(s, r.kind, r.tx, r.intent)
<1>1. <<r.seq, "record">> \in Tails /\ r.seq \in Nat
  BY DEF Records, Tails
<1> HIDE DEF b
<1>2. ASSUME b \in States PROVE 
      LET n == [b EXCEPT !.seq = r.seq, !.tail = <<r.seq, "record">>]
      IN /\ n \in States /\ n.seq = r.seq /\ n.counter = b.counter /\ n.gen = b.gen
             /\ n.genFloor = b.genFloor /\ n.secFloor = b.secFloor /\ n.sel = b.sel
             /\ n.last = b.last /\ n.active = b.active
  BY <1>1, <1>2 DEF States
<1> QED
  BY <1>2 DEF b, Chained

\* What advance() makes of a state, a record of each kind in turn.
Reserves(s, b, i) ==
  LET old == s.active
      a == b.active
      cleanup == i.target = "FinishCommittedCleanup"
  IN  /\ b \in States /\ b.seq = s.seq /\ b.counter = s.counter + 1 /\ b.gen = s.gen
      /\ b.genFloor = s.genFloor /\ b.secFloor = s.secFloor /\ b.sel = s.sel
      /\ b.last = s.last /\ a \in Actives
      /\ a.tx = i.tx /\ a.cleanup = cleanup /\ a.cand = i.sel /\ a.lineage = Extended(old, i.tx)
      /\ a.stage = (IF cleanup THEN "Committed" ELSE "Admitted")
      /\ a.target = (IF cleanup THEN s.gen ELSE s.genFloor + 1)
      /\ a.publishing = (IF old = None THEN FALSE ELSE old.publishing)
      /\ a.original = (IF old = None THEN i.sel ELSE old.original)
      /\ a.previous = (IF old = None THEN s.sel ELSE old.previous)

\* The active work keeps all but its stage.
KeepsWork(a, old) ==
  /\ a \in Actives /\ a.tx = old.tx /\ a.cleanup = old.cleanup /\ a.cand = old.cand
  /\ a.lineage = old.lineage /\ a.target = old.target
  /\ a.original = old.original /\ a.previous = old.previous

\* The state a Block record leads to: both floors are raised.
Blocks(s, b) ==
  /\ b \in States /\ b.seq = s.seq /\ b.counter = s.counter /\ b.gen = s.gen
  /\ b.genFloor = s.active.target /\ b.sel = s.sel
  /\ b.secFloor = Max2(s.secFloor, Max2(s.sel.epoch, s.active.cand.epoch))
  /\ b.last = s.last /\ KeepsWork(b.active, s.active)
  /\ b.active.stage = "Blocked" /\ b.active.publishing = TRUE

\* The state a Commit record leads to: the candidate is selected under the blocked generation.
Commits(s, b) ==
  /\ b \in States /\ b.seq = s.seq /\ b.counter = s.counter /\ b.gen = s.active.target
  /\ b.genFloor = s.genFloor /\ b.sel = s.active.cand /\ b.secFloor = s.secFloor
  /\ b.last = s.last /\ KeepsWork(b.active, s.active)
  /\ b.active.stage = "Committed" /\ b.active.publishing = FALSE

\* The state a Complete record leads to: nothing is active.
Completes(s, b, t) ==
  /\ b \in States /\ b.seq = s.seq /\ b.counter = s.counter /\ b.gen = s.gen
  /\ b.genFloor = s.genFloor /\ b.sel = s.sel /\ b.secFloor = s.secFloor
  /\ b.last = t /\ b.active = None

\* A Reserve record opens a lineage or adds a transaction to it.
LEMMA ReserveEffect ==
  ASSUME NEW s \in States, NEW i \in Intents, s.active # None => s.active \in Actives
  PROVE  Reserves(s, Reserved(s, i), i)
<1> DEFINE old == s.active
           cleanup == i.target = "FinishCommittedCleanup"
           a == [tx |-> i.tx, cleanup |-> cleanup, cand |-> i.sel, lineage |-> Extended(old, i.tx),
                 stage |-> IF cleanup THEN "Committed" ELSE "Admitted",
                 target |-> IF cleanup THEN s.gen ELSE FreshTarget(s),
                 origin     |-> IF old = None THEN i.tx  ELSE old.origin,
                 publishing |-> IF old = None THEN FALSE ELSE old.publishing,
                 original   |-> IF old = None THEN i.sel ELSE old.original,
                 previous   |-> IF old = None THEN s.sel ELSE old.previous]
<1>1. i.tx \in Nat /\ i.sel \in Selections
  BY IntentFacts
<1>2. Extended(old, i.tx) \in Seq(Nat)
  <2>1. CASE old = None
    BY <2>1, <1>1 DEF Extended
  <2>2. CASE old # None
    <3>1. old.lineage \in Seq(Nat)
      BY <2>2 DEF Actives
    <3> QED
      BY <2>2, <3>1, <1>1 DEF Extended
  <2> QED
    BY <2>1, <2>2
<1>3. FreshTarget(s) = s.genFloor + 1 /\ FreshTarget(s) \in Nat /\ s.gen \in Nat /\ s.sel \in Selections
  BY DEF FreshTarget, States
<1>4. a \in Actives
  <2>1. old # None => old.origin \in Nat /\ old.publishing \in BOOLEAN /\ old.original \in Selections
                      /\ old.previous \in Selections
    BY DEF Actives
  <2>2. cleanup \in BOOLEAN
    OBVIOUS
  <2> QED
    BY <1>1, <1>2, <1>3, <2>1, <2>2 DEF Actives
<1>5. Reserved(s, i) = [s EXCEPT !.counter = s.counter + 1, !.active = a]
  <2>1. Reserved(s, i) = [s EXCEPT !.counter = @ + 1, !.active = a]
    BY DEF Reserved
  <2> HIDE DEF a
  <2> QED
    BY <2>1 DEF States
<1>6. LET n == [s EXCEPT !.counter = s.counter + 1, !.active = a]
      IN  /\ n \in States /\ n.seq = s.seq /\ n.counter = s.counter + 1 /\ n.gen = s.gen
          /\ n.genFloor = s.genFloor /\ n.secFloor = s.secFloor /\ n.sel = s.sel
          /\ n.last = s.last /\ n.active = a
  <2> DEFINE c == s.counter + 1
  <2>1. c \in Nat
    BY DEF States
  <2> HIDE DEF a, c
  <2>2. LET n == [s EXCEPT !.counter = c, !.active = a]
        IN  /\ n \in States /\ n.seq = s.seq /\ n.counter = c /\ n.gen = s.gen
            /\ n.genFloor = s.genFloor /\ n.secFloor = s.secFloor /\ n.sel = s.sel
            /\ n.last = s.last /\ n.active = a
    BY <1>4, <2>1 DEF States
  <2> QED
    BY <2>2 DEF c
<1>7. /\ a.tx = i.tx /\ a.cleanup = cleanup /\ a.cand = i.sel /\ a.lineage = Extended(old, i.tx)
      /\ a.stage = (IF cleanup THEN "Committed" ELSE "Admitted")
      /\ a.target = (IF cleanup THEN s.gen ELSE s.genFloor + 1)
      /\ a.publishing = (IF old = None THEN FALSE ELSE old.publishing)
      /\ a.original = (IF old = None THEN i.sel ELSE old.original)
      /\ a.previous = (IF old = None THEN s.sel ELSE old.previous)
  BY <1>3
<1> QED
  <2> HIDE DEF a
  <2> QED
    BY <1>4, <1>5, <1>6, <1>7 DEF Reserves

\* A Block record raises the floors and hides the selection.
LEMMA BlockEffect ==
  ASSUME NEW s \in States, s.active \in Actives, NEW t, NEW i
  PROVE  Blocks(s, Advanced(s, "Block", t, i))
<1> DEFINE old == s.active
           a == [old EXCEPT !.stage = "Blocked", !.publishing = TRUE]
           floor == RaisedSecFloor(s)
<1>1. /\ a \in Actives /\ a.tx = old.tx /\ a.cleanup = old.cleanup /\ a.cand = old.cand
      /\ a.lineage = old.lineage
      /\ a.stage = "Blocked" /\ a.target = old.target /\ a.publishing = TRUE
      /\ a.original = old.original /\ a.previous = old.previous
  BY DEF Actives
<1>2. floor = Max2(s.secFloor, Max2(s.sel.epoch, old.cand.epoch)) /\ floor \in Nat
  <2>1. s.sel \in Selections /\ old.cand \in Selections /\ s.secFloor \in Nat
    BY DEF States, Actives
  <2> QED
    BY <2>1, SelectionFacts DEF RaisedSecFloor, Max2
<1>3. Advanced(s, "Block", t, i)
        = [s EXCEPT !.active = a, !.genFloor = old.target, !.secFloor = floor]
  <2>1. Advanced(s, "Block", t, i) = [s EXCEPT !.active.stage = "Blocked", !.active.publishing = TRUE,
                                      !.genFloor = RaisedGenFloor(s), !.secFloor = floor]
    BY DEF Advanced
  <2> HIDE DEF floor
  <2> QED
    BY <2>1, <1>1 DEF RaisedGenFloor, States
<1>4. old.target \in Nat
  BY DEF Actives
<1>5. LET n == [s EXCEPT !.active = a, !.genFloor = old.target, !.secFloor = floor]
      IN  /\ n \in States /\ n.seq = s.seq /\ n.counter = s.counter /\ n.gen = s.gen
          /\ n.genFloor = old.target /\ n.sel = s.sel /\ n.secFloor = floor
          /\ n.last = s.last /\ n.active = a
  <2> HIDE DEF a, floor
  <2> QED
    BY <1>1, <1>2, <1>4 DEF States
<1> QED
  <2> HIDE DEF a, floor
  <2> QED
    BY <1>1, <1>2, <1>3, <1>5 DEF Blocks, KeepsWork

\* A Commit record replaces the selection.
LEMMA CommitEffect ==
  ASSUME NEW s \in States, s.active \in Actives, NEW t, NEW i
  PROVE  Commits(s, Advanced(s, "Commit", t, i))
<1> DEFINE old == s.active
           a == [old EXCEPT !.stage = "Committed", !.publishing = FALSE]
<1>1. /\ a \in Actives /\ a.tx = old.tx /\ a.cleanup = old.cleanup /\ a.cand = old.cand
      /\ a.lineage = old.lineage
      /\ a.stage = "Committed" /\ a.target = old.target /\ a.publishing = FALSE
      /\ a.original = old.original /\ a.previous = old.previous
  BY DEF Actives
<1>2. old.target \in Nat /\ old.cand \in Selections
  BY DEF Actives
<1>3. Advanced(s, "Commit", t, i) = [s EXCEPT !.active = a, !.gen = old.target, !.sel = old.cand]
  <2>1. Advanced(s, "Commit", t, i) = [s EXCEPT !.active.stage = "Committed", !.active.publishing = FALSE,
                                      !.gen = s.active.target, !.sel = s.active.cand]
    BY DEF Advanced
  <2> QED
    BY <2>1, <1>1 DEF States
<1>4. LET n == [s EXCEPT !.active = a, !.gen = old.target, !.sel = old.cand]
      IN  /\ n \in States /\ n.seq = s.seq /\ n.counter = s.counter /\ n.gen = old.target
          /\ n.genFloor = s.genFloor /\ n.sel = old.cand /\ n.secFloor = s.secFloor
          /\ n.last = s.last /\ n.active = a
  <2> HIDE DEF a
  <2> QED
    BY <1>1, <1>2 DEF States
<1> QED
  <2> HIDE DEF a
  <2> QED
    BY <1>1, <1>2, <1>3, <1>4 DEF Commits, KeepsWork

\* A Complete record ends the lineage.
LEMMA CompleteEffect ==
  ASSUME NEW s \in States, NEW t \in Nat, NEW i
  PROVE  Completes(s, Advanced(s, "Complete", t, i), t)
BY DEF Advanced, States, Completes

-----------------------------------------------------------------------------
\* The phase of the ledger.
PhaseOf(s) == IF s.active = None THEN "Stable" ELSE IF s.active.publishing THEN "Blocked" ELSE s.active.stage

\* The step of the ledger a record of each kind stands for.
Moves(s, n, kind) ==
  CASE kind = "Reserve" ->
         /\ n.counter = s.counter + 1
         /\ PhaseOf(n) = IF PhaseOf(s) = "Stable" THEN "Admitted" ELSE PhaseOf(s)
         /\ n.gen = s.gen /\ n.genFloor = s.genFloor /\ n.secFloor = s.secFloor /\ n.sel = s.sel
         /\ LineageOf(n) = LineageOf(s) \cup {n.counter}
    [] kind = "Block" ->
         /\ PhaseOf(s) \in {"Admitted", "Blocked"} /\ PhaseOf(n) = "Blocked"
         /\ n.genFloor = s.genFloor + 1 /\ n.secFloor >= s.secFloor /\ n.secFloor >= s.sel.epoch
         /\ n.counter = s.counter /\ n.gen = s.gen /\ n.sel = s.sel
         /\ LineageOf(n) = LineageOf(s)
    [] kind = "Commit" ->
         /\ PhaseOf(s) = "Blocked" /\ PhaseOf(n) = "Committed"
         /\ n.gen = s.genFloor /\ NotBelow(n.sel, s.secFloor)
         /\ n.counter = s.counter /\ n.genFloor = s.genFloor /\ n.secFloor = s.secFloor
         /\ LineageOf(n) = LineageOf(s)
    [] kind = "Complete" ->
         /\ PhaseOf(s) = "Committed" /\ PhaseOf(n) = "Stable"
         /\ n.counter = s.counter /\ n.gen = s.gen /\ n.genFloor = s.genFloor
         /\ n.secFloor = s.secFloor /\ n.sel = s.sel /\ n.active = None

\* The record r leads from s to the sound state n.
Advances(s, n, r) == Sound(n) /\ n.seq = r.seq /\ r.tx <= n.counter /\ Moves(s, n, r.kind)

\* An admissible Reserve leads from a sound state to a sound state.
LEMMA ReserveAdvances ==
  ASSUME NEW s, Sound(s), NEW r \in Records, r.kind = "Reserve", r.seq = s.seq + 1, s.seq < MaxSeq,
         Fits(s, r.kind, r.tx, r.intent)
  PROVE  Advances(s, Chained(s, r), r)
<1> DEFINE n == Chained(s, r)
           i == r.intent
           old == s.active
           a == n.active
           cleanup == i.target = "FinishCommittedCleanup"
<1>1. s \in States /\ (old # None => old \in Actives) /\ i \in Intents /\ i.tx = r.tx /\ ReserveFits(s, i)
  BY DEF Sound, Bounded, States, Records, Fits
<1>2. Advanced(s, r.kind, r.tx, i) = Reserved(s, i)
  BY DEF Advanced
<1>3. /\ n \in States /\ n.seq = r.seq /\ n.counter = s.counter + 1 /\ n.gen = s.gen
      /\ n.genFloor = s.genFloor /\ n.secFloor = s.secFloor /\ n.sel = s.sel
      /\ n.last = s.last /\ a \in Actives /\ a # None
      /\ a.tx = i.tx /\ a.cleanup = cleanup /\ a.cand = i.sel /\ a.lineage = Extended(old, i.tx)
      /\ a.stage = (IF cleanup THEN "Committed" ELSE "Admitted")
      /\ a.target = (IF cleanup THEN s.gen ELSE s.genFloor + 1)
      /\ a.publishing = (IF old = None THEN FALSE ELSE old.publishing)
      /\ a.original = (IF old = None THEN i.sel ELSE old.original)
      /\ a.previous = (IF old = None THEN s.sel ELSE old.previous)
  <2> DEFINE b == Reserved(s, i)
  <2>1. Reserves(s, b, i)
    BY <1>1, ReserveEffect
  <2> HIDE DEF b
  <2>2. Advanced(s, r.kind, r.tx, r.intent) = b
    BY <1>2 DEF b
  <2>3. /\ n \in States /\ n.seq = r.seq /\ n.counter = b.counter /\ n.gen = b.gen
        /\ n.genFloor = b.genFloor /\ n.secFloor = b.secFloor /\ n.sel = b.sel
        /\ n.last = b.last /\ n.active = b.active
    BY <2>1, <2>2, ChainedFields DEF Reserves
  <2> QED
    BY <2>1, <2>3, NullAssumption DEF Reserves
<1>4. /\ s.seq \in Nat /\ s.counter \in Nat /\ s.gen \in Nat /\ s.genFloor \in Nat /\ s.secFloor \in Nat
      /\ s.last \in Nat /\ s.sel \in Selections /\ i.sel \in Selections /\ i.tx \in Nat
  BY <1>1, IntentFacts DEF States
<1> HIDE DEF n, i
<1>5. Bounded(n)
  BY <1>1, <1>3, <1>4, Bounds, SMTT(30) DEF Sound, Bounded, ReserveFits, NoOverflow
<1>6. i.tx = s.counter + 1 /\ NoOverflow(s, i) /\ PermitsEpoch(s, i)
  BY <1>1 DEF ReserveFits
<1>7. NotBelow(i.sel, s.secFloor) /\ NotBelow(i.sel, s.sel.epoch)
  BY <1>4, <1>6, SelectionFacts DEF PermitsEpoch, Max2, NotBelow
<1>8. old # None => /\ Len(old.lineage) \in 1..(MaxLineage - 1) /\ old.lineage \in Seq(Nat)
                    /\ (IF cleanup THEN old.stage = "Committed" /\ ~old.publishing ELSE old.publishing)
                    /\ i.sel = Expected(s, i.target)
  BY <1>1, Bounds DEF ReserveFits, Sound, Working, Publishing, Actives
<1>9. ToSet(a.lineage) = LineageOf(s) \cup {n.counter} /\ Len(a.lineage) \in 1..MaxLineage
  <2>1. CASE old = None
    BY <2>1, <1>3, <1>6, Bounds DEF Extended, LineageOf, ToSet
  <2>2. CASE old # None
    <3> DEFINE q == old.lineage
    <3>1. q \in Seq(Nat) /\ Len(q) \in 1..(MaxLineage - 1) /\ a.lineage = Append(q, i.tx) /\ LineageOf(s) = ToSet(q)
      BY <2>2, <1>3, <1>8 DEF Extended, LineageOf
    <3> HIDE DEF q
    <3>2. ToSet(Append(q, i.tx)) = ToSet(q) \cup {i.tx}
      BY <3>1, <1>4, AppendedSet, SMTT(30)
    <3>3. Len(a.lineage) \in 1..MaxLineage
      <4>1. Len(Append(q, i.tx)) = Len(q) + 1 /\ Len(q) \in Nat
        BY <3>1
      <4> QED
        BY <3>1, <4>1, Bounds
    <3> QED
      BY <3>1, <3>2, <3>3, <1>3, <1>6
  <2> QED
    BY <2>1, <2>2
<1>10. Working(n, a)
  <2>1. LineageOf(s) \subseteq 1..s.counter /\ s.last \notin LineageOf(s) /\ s.last <= s.counter
    BY DEF Sound, Bounded, Working, LineageOf
  <2>2. ToSet(a.lineage) \subseteq 1..n.counter /\ n.last \notin ToSet(a.lineage)
    BY <2>1, <1>3, <1>4, <1>9
  <2>3. a.stage = "Committed" => ~a.publishing
    <3>1. CASE old = None
      BY <3>1, <1>3
    <3>2. CASE old # None
      BY <3>2, <1>3, <1>8
    <3> QED
      BY <3>1, <3>2
  <2>4. a.target <= MaxGen
    BY <1>3, <1>4, <1>6, Bounds DEF NoOverflow, Sound, Bounded
  <2> QED
    BY <2>2, <2>3, <2>4, <1>3, <1>6, <1>9 DEF Working
<1>11. Targeted(n, a)
  BY <1>3, <1>7 DEF Targeted
<1>12. Undecided(n, a)
  <2>1. CASE old = None
    BY <2>1, <1>3, <1>7 DEF Undecided
  <2>2. CASE old # None /\ cleanup
    BY <2>2, <1>3, <1>8 DEF Undecided
  <2>3. CASE old # None /\ ~cleanup
    <3>1. old.publishing /\ i.sel \in {old.original, old.previous}
      BY <2>3, <1>8 DEF Expected
    <3>2. Undecided(s, old)
      BY <2>3 DEF Sound
    <3> QED
      BY <2>3, <3>1, <3>2, <1>3 DEF Undecided
  <2> QED
    BY <2>1, <2>2, <2>3
<1>13. IF Publishing(n) THEN n.gen < n.genFloor /\ n.sel.epoch <= n.secFloor
       ELSE n.gen = n.genFloor /\ AtFloor(n.sel, n.secFloor)
  <2>1. Publishing(n) <=> Publishing(s)
    BY <1>3 DEF Publishing
  <2> QED
    BY <2>1, <1>3 DEF Sound
<1>14. Sound(n)
  BY <1>3, <1>5, <1>10, <1>11, <1>12, <1>13 DEF Sound
<1>15. Moves(s, n, "Reserve")
  <2>1. LineageOf(n) = LineageOf(s) \cup {n.counter}
    BY <1>3, <1>9 DEF LineageOf
  <2>2. PhaseOf(n) = IF PhaseOf(s) = "Stable" THEN "Admitted" ELSE PhaseOf(s)
    <3>1. CASE old = None
      <4>1. ~cleanup
        BY <3>1, <1>1, IntentFacts DEF ReserveFits
      <4> QED
        BY <3>1, <4>1, <1>3 DEF PhaseOf
    <3>2. CASE old # None
      <4>1. old.stage \in {"Admitted", "Blocked", "Committed"}
        BY <3>2, <1>1 DEF Actives
      <4> QED
        BY <3>2, <4>1, <1>3, <1>8 DEF PhaseOf
    <3> QED
      BY <3>1, <3>2
  <2> QED
    BY <2>1, <2>2, <1>3 DEF Moves
<1> QED
  BY <1>3, <1>4, <1>6, <1>1, <1>14, <1>15 DEF Advances, n, i

\* So does a Block: the candidate and the original still satisfy the raised floors.
LEMMA BlockAdvances ==
  ASSUME NEW s, Sound(s), NEW r \in Records, r.kind = "Block", r.seq = s.seq + 1, s.seq < MaxSeq,
         Fits(s, r.kind, r.tx, r.intent)
  PROVE  Advances(s, Chained(s, r), r)
<1> DEFINE n == Chained(s, r)
           old == s.active
           a == n.active
<1>1. s \in States /\ old # None /\ old \in Actives /\ old.tx = r.tx /\ old.stage = "Admitted" /\ ~old.cleanup
  BY DEF Sound, Bounded, States, Fits
<1>2. /\ n \in States /\ n.seq = r.seq /\ n.counter = s.counter /\ n.gen = s.gen
      /\ n.genFloor = old.target /\ n.sel = s.sel
      /\ n.secFloor = Max2(s.secFloor, Max2(s.sel.epoch, old.cand.epoch))
      /\ n.last = s.last /\ a \in Actives /\ a # None
      /\ a.tx = old.tx /\ a.cleanup = old.cleanup /\ a.cand = old.cand /\ a.lineage = old.lineage
      /\ a.stage = "Blocked" /\ a.target = old.target /\ a.publishing = TRUE
      /\ a.original = old.original /\ a.previous = old.previous
  <2> DEFINE b == Advanced(s, "Block", r.tx, r.intent)
  <2>1. Blocks(s, b)
    BY <1>1, BlockEffect
  <2>2. /\ n \in States /\ n.seq = r.seq /\ n.counter = b.counter /\ n.gen = b.gen
        /\ n.genFloor = b.genFloor /\ n.secFloor = b.secFloor /\ n.sel = b.sel
        /\ n.last = b.last /\ n.active = b.active
    <3>1. Advanced(s, r.kind, r.tx, r.intent) = b
      OBVIOUS
    <3> HIDE DEF b
    <3> QED
      BY <2>1, <3>1, ChainedFields DEF Blocks
  <2> HIDE DEF b, n
  <2> QED
    BY <2>1, <2>2, NullAssumption DEF Blocks, KeepsWork
<1>3. /\ s.seq \in Nat /\ s.counter \in Nat /\ s.gen \in Nat /\ s.genFloor \in Nat /\ s.secFloor \in Nat
      /\ s.last \in Nat /\ s.sel \in Selections /\ old.cand \in Selections /\ old.original \in Selections
      /\ old.target \in Nat
  BY <1>1 DEF States, Actives
<1> HIDE DEF n
<1>4. Working(s, old) /\ Targeted(s, old) /\ Undecided(s, old)
  BY <1>1 DEF Sound
<1>5. /\ old.target = s.genFloor + 1 /\ NotBelow(old.cand, s.secFloor) /\ NotBelow(old.cand, s.sel.epoch)
      /\ old.previous = s.sel /\ old.cand \in {old.original, old.previous}
      /\ NotBelow(old.original, s.secFloor) /\ NotBelow(old.original, s.sel.epoch)
  BY <1>1, <1>4 DEF Targeted, Undecided
<1>6. /\ n.secFloor >= s.secFloor /\ n.secFloor >= s.sel.epoch /\ n.secFloor <= MaxEpoch
      /\ AtFloor(old.cand, n.secFloor) /\ NotBelow(old.original, n.secFloor)
  <2>1. \A x \in {s.sel, old.cand, old.original} :
          x.epoch \in Nat /\ x.epoch <= MaxEpoch /\ (x = Nothing => x.epoch = 0)
    BY <1>3, SelectionFacts
  <2>2. s.secFloor <= MaxEpoch
    BY DEF Sound, Bounded
  <2> QED
    BY <2>1, <2>2, <1>2, <1>3, <1>5, Bounds DEF Max2, NotBelow, AtFloor
<1>7. Bounded(n)
  <2>1. old.target <= MaxGen
    BY <1>4 DEF Working
  <2> QED
    BY <2>1, <1>2, <1>3, <1>6, Bounds DEF Sound, Bounded
<1>8. Working(n, a)
  BY <1>1, <1>2, <1>4 DEF Working
<1>9. Targeted(n, a)
  BY <1>2, <1>6 DEF Targeted
<1>10. Undecided(n, a)
  BY <1>2, <1>5, <1>6 DEF Undecided
<1>11. Publishing(n) /\ n.gen < n.genFloor /\ n.sel.epoch <= n.secFloor
  <2>1. s.gen <= s.genFloor
    BY <1>3 DEF Sound
  <2>2. s.sel.epoch \in Nat /\ n.secFloor \in Nat
    BY <1>2, <1>3, SelectionFacts DEF States
  <2> QED
    BY <2>1, <2>2, <1>2, <1>3, <1>5, <1>6 DEF Publishing
<1>12. Sound(n)
  BY <1>2, <1>7, <1>8, <1>9, <1>10, <1>11 DEF Sound
<1>13. Moves(s, n, "Block")
  BY <1>1, <1>2, <1>5, <1>6 DEF Moves, PhaseOf, LineageOf
<1> QED
  BY <1>1, <1>2, <1>3, <1>4, <1>12, <1>13 DEF Advances, Working, n

\* So does a Commit: what becomes visible is exactly at the security floor.
LEMMA CommitAdvances ==
  ASSUME NEW s, Sound(s), NEW r \in Records, r.kind = "Commit", r.seq = s.seq + 1, s.seq < MaxSeq,
         Fits(s, r.kind, r.tx, r.intent)
  PROVE  Advances(s, Chained(s, r), r)
<1> DEFINE n == Chained(s, r)
           old == s.active
           a == n.active
<1>1. s \in States /\ old # None /\ old \in Actives /\ old.tx = r.tx /\ old.stage = "Blocked"
  BY DEF Sound, Bounded, States, Fits
<1>2. /\ n \in States /\ n.seq = r.seq /\ n.counter = s.counter /\ n.gen = old.target
      /\ n.genFloor = s.genFloor /\ n.sel = old.cand /\ n.secFloor = s.secFloor
      /\ n.last = s.last /\ a \in Actives /\ a # None
      /\ a.tx = old.tx /\ a.cleanup = old.cleanup /\ a.cand = old.cand /\ a.lineage = old.lineage
      /\ a.stage = "Committed" /\ a.target = old.target /\ a.publishing = FALSE
      /\ a.original = old.original /\ a.previous = old.previous
  <2> DEFINE b == Advanced(s, "Commit", r.tx, r.intent)
  <2>1. Commits(s, b)
    BY <1>1, CommitEffect
  <2>2. /\ n \in States /\ n.seq = r.seq /\ n.counter = b.counter /\ n.gen = b.gen
        /\ n.genFloor = b.genFloor /\ n.secFloor = b.secFloor /\ n.sel = b.sel
        /\ n.last = b.last /\ n.active = b.active
    <3>1. Advanced(s, r.kind, r.tx, r.intent) = b
      OBVIOUS
    <3> HIDE DEF b
    <3> QED
      BY <2>1, <3>1, ChainedFields DEF Commits
  <2> HIDE DEF b, n
  <2> QED
    BY <2>1, <2>2, NullAssumption DEF Commits, KeepsWork
<1>3. /\ s.seq \in Nat /\ s.counter \in Nat /\ s.gen \in Nat /\ s.genFloor \in Nat /\ s.secFloor \in Nat
      /\ old.cand \in Selections /\ old.cand.epoch \in Nat
  BY <1>1, SelectionFacts DEF States, Actives
<1> HIDE DEF n
<1>4. Working(s, old) /\ Targeted(s, old) /\ old.publishing
  BY <1>1 DEF Sound, Working
<1>5. old.target = s.genFloor /\ AtFloor(old.cand, s.secFloor)
  BY <1>1, <1>4 DEF Targeted
<1>6. Bounded(n)
  BY <1>2, <1>3, <1>5, Bounds DEF Sound, Bounded
<1>7. Working(n, a)
  BY <1>1, <1>2, <1>4 DEF Working
<1>8. Targeted(n, a) /\ Undecided(n, a)
  BY <1>2 DEF Targeted, Undecided
<1>9. Sound(n)
  BY <1>2, <1>5, <1>6, <1>7, <1>8 DEF Sound, Publishing
<1>10. Moves(s, n, "Commit")
  BY <1>1, <1>2, <1>3, <1>4, <1>5 DEF Moves, PhaseOf, LineageOf, AtFloor, NotBelow
<1> QED
  BY <1>1, <1>2, <1>3, <1>4, <1>9, <1>10 DEF Advances, Working, n

\* So does a Complete: only a committed transaction ends.
LEMMA CompleteAdvances ==
  ASSUME NEW s, Sound(s), NEW r \in Records, r.kind = "Complete", r.seq = s.seq + 1, s.seq < MaxSeq,
         Fits(s, r.kind, r.tx, r.intent)
  PROVE  Advances(s, Chained(s, r), r)
<1> DEFINE n == Chained(s, r)
           old == s.active
<1>1. s \in States /\ old # None /\ old \in Actives /\ old.tx = r.tx /\ old.stage = "Committed" /\ r.tx \in Nat
  BY DEF Sound, Bounded, States, Fits, Records
<1>2. /\ n \in States /\ n.seq = r.seq /\ n.counter = s.counter /\ n.gen = s.gen
      /\ n.genFloor = s.genFloor /\ n.sel = s.sel /\ n.secFloor = s.secFloor
      /\ n.last = r.tx /\ n.active = None
  <2> DEFINE b == Advanced(s, r.kind, r.tx, r.intent)
  <2>1. Completes(s, b, r.tx)
    BY <1>1, CompleteEffect
  <2>2. /\ n \in States /\ n.seq = r.seq /\ n.counter = b.counter /\ n.gen = b.gen
        /\ n.genFloor = b.genFloor /\ n.secFloor = b.secFloor /\ n.sel = b.sel
        /\ n.last = b.last /\ n.active = b.active
    BY <2>1, ChainedFields DEF Completes
  <2> HIDE DEF b, n
  <2> QED
    BY <2>1, <2>2 DEF Completes
<1> HIDE DEF n
<1>3. s.seq \in Nat /\ s.counter \in Nat
  BY <1>1 DEF States
<1>4. old.tx = s.counter /\ ~old.publishing
  BY <1>1 DEF Sound, Working
<1>5. Bounded(n)
  BY <1>1, <1>2, <1>3, <1>4, Bounds DEF Sound, Bounded
<1>6. n.gen = n.genFloor /\ AtFloor(n.sel, n.secFloor) /\ ~Publishing(n)
  BY <1>2, <1>4 DEF Sound, Publishing
<1>7. Sound(n)
  BY <1>1, <1>2, <1>4, <1>5, <1>6 DEF Sound
<1>8. Moves(s, n, "Complete")
  BY <1>1, <1>2, <1>4 DEF Moves, PhaseOf
<1> QED
  BY <1>1, <1>2, <1>3, <1>4, <1>7, <1>8 DEF Advances, n

\* So does every admissible record.
LEMMA RecordAdvances ==
  ASSUME NEW s, Sound(s), NEW r \in Records, r.seq = s.seq + 1, s.seq < MaxSeq,
         Fits(s, r.kind, r.tx, r.intent)
  PROVE  Advances(s, Chained(s, r), r)
<1>1. r.kind \in Kinds
  BY DEF Records
<1> QED
  BY <1>1, ReserveAdvances, BlockAdvances, CommitAdvances, CompleteAdvances DEF Kinds

\* Nothing that a record does lowers a floor or a counter.
LEMMA AdvanceRaises ==
  ASSUME NEW s, NEW n, NEW r \in Records, Sound(s), Advances(s, n, r)
  PROVE  s.counter <= n.counter /\ s.genFloor <= n.genFloor /\ s.secFloor <= n.secFloor
<1>1. /\ s.counter \in Nat /\ s.genFloor \in Nat /\ s.secFloor \in Nat
      /\ n.counter \in Nat /\ n.genFloor \in Nat /\ n.secFloor \in Nat
  BY DEF Advances, Sound, Bounded, States
<1>2. r.kind \in Kinds /\ Moves(s, n, r.kind)
  BY DEF Records, Advances
<1>3. CASE r.kind = "Reserve"
  BY <1>1, <1>2, <1>3 DEF Moves
<1>4. CASE r.kind = "Block"
  BY <1>1, <1>2, <1>4 DEF Moves
<1>5. CASE r.kind = "Commit"
  BY <1>1, <1>2, <1>5 DEF Moves
<1>6. CASE r.kind = "Complete"
  BY <1>1, <1>2, <1>6 DEF Moves
<1> QED
  BY <1>2, <1>3, <1>4, <1>5, <1>6 DEF Kinds

-----------------------------------------------------------------------------
(* The parts of the store the invariant is made of                         *)

\* A sound state has a head that can be published.
LEMMA HeadTyped ==
  ASSUME NEW s, Sound(s)
  PROVE  HeadFor(s) \in Heads /\ HeadFor(s).counter = s.counter /\ HeadFor(s).genFloor = s.genFloor
         /\ HeadFor(s).secFloor = s.secFloor
         /\ HeadFor(s).sel = (IF Publishing(s) THEN Nothing ELSE s.sel)
<1>1. s \in States /\ (s.active # None => s.active \in Actives)
  BY DEF Sound, Bounded, States
<1> DEFINE phase == IF Publishing(s) THEN "Blocked" ELSE IF s.active = None THEN "Stable" ELSE s.active.stage
           sel == IF Publishing(s) THEN Nothing ELSE s.sel
<1>2. phase \in {"Stable", "Admitted", "Blocked", "Committed"}
  BY <1>1 DEF Actives
<1>3. sel \in Selections
  BY <1>1, SelectionFacts DEF States
<1>4. HeadFor(s) = [seq |-> s.seq, tail |-> s.tail, counter |-> s.counter, gen |-> s.gen,
                    genFloor |-> s.genFloor, secFloor |-> s.secFloor, phase |-> phase, sel |-> sel]
  BY DEF HeadFor
<1> HIDE DEF phase, sel
<1>5. HeadFor(s) \in Heads /\ HeadFor(s).counter = s.counter /\ HeadFor(s).genFloor = s.genFloor
      /\ HeadFor(s).secFloor = s.secFloor /\ HeadFor(s).sel = sel
  BY <1>1, <1>2, <1>3, <1>4 DEF Heads, States
<1> QED
  BY <1>5 DEF sel

\* A settled state becomes a valid anchor, and the anchor the same deployment again.
LEMMA AnchorKeeps ==
  ASSUME NEW s, Sound(s), s.active = None
  PROVE  LET a == AnchorFor(s)
             n == FromAnchor(a)
         IN  /\ a \in Anchors /\ ValidAnchor(a) /\ Sound(n) /\ Start(a) = n
             /\ a.seq = s.seq /\ a.counter = s.counter /\ a.gen = s.gen /\ a.secFloor = s.secFloor
             /\ n.seq = s.seq /\ n.counter = s.counter /\ n.gen = s.gen /\ n.genFloor = s.genFloor
             /\ n.secFloor = s.secFloor /\ n.sel = s.sel /\ n.last = s.last /\ n.active = None
<1> DEFINE a == AnchorFor(s)
           n == FromAnchor(a)
<1>1. s \in States /\ ~Publishing(s) /\ s.gen = s.genFloor /\ AtFloor(s.sel, s.secFloor) /\ s.last \in {0, s.counter}
  BY DEF Sound, Bounded, Publishing
<1>2. /\ a \in Anchors /\ a.seq = s.seq /\ a.counter = s.counter /\ a.gen = s.gen /\ a.secFloor = s.secFloor
      /\ a.sel = s.sel /\ a.last = s.last
  BY <1>1 DEF AnchorFor, Anchors, States
<1> HIDE DEF a
<1>3. ValidAnchor(a)
  <2>1. s.sel # Nothing => s.sel.epoch = s.secFloor /\ s.secFloor \in Nat
    BY <1>1 DEF AtFloor, States
  <2> QED
    BY <1>1, <1>2, <2>1 DEF ValidAnchor
<1>4. <<a.seq, "anchor">> \in Tails
  BY <1>2 DEF Tails, Anchors
<1>5. /\ n \in States /\ n.seq = a.seq /\ n.counter = a.counter /\ n.gen = a.gen /\ n.genFloor = a.gen
      /\ n.secFloor = a.secFloor /\ n.sel = a.sel /\ n.last = a.last /\ n.active = None
  BY <1>2, <1>4 DEF FromAnchor, Anchors, States
<1> HIDE DEF n
<1>6. Sound(n)
  BY <1>1, <1>2, <1>5 DEF Sound, Bounded, Publishing
<1> QED
  BY <1>1, <1>2, <1>3, <1>5, <1>6 DEF a, n, Start

\* What the journal part of the invariant depends on.
JournalView == <<anchor, records, st>>

\* A step that leaves the journal and the state alone keeps their agreement.
LEMMA JournalFrame == JournalInv /\ UNCHANGED JournalView => JournalInv'
<1> SUFFICES ASSUME JournalInv, UNCHANGED JournalView PROVE JournalInv'
  OBVIOUS
<1>1. anchor' = anchor /\ records' = records /\ st' = st
  BY DEF JournalView
<1>2. Durable' = Durable
  BY <1>1 DEF Durable
<1> QED
  BY <1>1, <1>2 DEF JournalInv

\* Finished work stays finished while the state stays.
LEMMA FinishedFrame == FinishedInv /\ UNCHANGED <<st, finished>> => FinishedInv'
BY DEF FinishedInv

\* The watermarks are never below the state a session works with.
LEMMA MarksCover ==
  ASSUME IInv
  PROVE  /\ marks \in [counter : Nat, gen : Nat, secFloor : Nat]
         /\ marks.counter >= st.counter /\ marks.gen >= st.genFloor /\ marks.secFloor >= st.secFloor
<1>1. CASE ~Arriving
  BY <1>1 DEF IInv, MarksInv, Reached
<1>2. CASE Arriving
  <2> DEFINE r == pending.record
             n == Chained(st, r)
  <2>1. r \in Records /\ r.seq = st.seq + 1 /\ st.seq < MaxSeq /\ Fits(st, r.kind, r.tx, r.intent)
    BY <1>2 DEF IInv, PendingInv, Arriving, Writes
  <2>2. Sound(st)
    BY DEF IInv, JournalInv
  <2>3. Advances(st, n, r)
    BY <2>1, <2>2, RecordAdvances
  <2>4. st.counter <= n.counter /\ st.genFloor <= n.genFloor /\ st.secFloor <= n.secFloor
    BY <2>1, <2>2, <2>3, AdvanceRaises
  <2>5. /\ st.counter \in Nat /\ st.genFloor \in Nat /\ st.secFloor \in Nat
        /\ n.counter \in Nat /\ n.genFloor \in Nat /\ n.secFloor \in Nat
    BY <2>2, <2>3 DEF Advances, Sound, Bounded, States
  <2>6. /\ marks \in [counter : Nat, gen : Nat, secFloor : Nat]
        /\ marks.counter >= n.counter /\ marks.gen >= n.genFloor /\ marks.secFloor >= n.secFloor
    BY <1>2 DEF IInv, MarksInv, Reached
  <2> HIDE DEF n
  <2> QED
    BY <2>4, <2>5, <2>6
<1> QED
  BY <1>1, <1>2

\* However a session ends, what is stored is still sound and covered.
LEMMA CloseKeeps ==
  ASSUME IInv, NEW u \in BOOLEAN, Close(u), UNCHANGED <<anchor, records, head, candidate, intent, finished>>,
         UNCHANGED marks \/ (u = TRUE /\ \E n : Raise(n) /\ n \in States)
  PROVE  IInv'
<1> USE DEF IInv
<1>1. /\ open' = FALSE /\ pending' = None /\ acks' = {} /\ st' = st /\ headRequired' = FALSE /\ verified' = FALSE
      /\ published' = FALSE /\ quiescent' = FALSE /\ reserved' = FALSE /\ waiting' = FALSE
      /\ known' = (known /\ ~u /\ pending = None)
  BY DEF Close
<1>2. JournalInv' /\ FinishedInv'
  BY <1>1, JournalFrame, FinishedFrame DEF JournalView
<1>3. TypeInv'
  <2>1. known' \in BOOLEAN
    BY <1>1
  <2> QED
    BY <1>1, <2>1 DEF TypeInv
<1>4. SessionInv'
  BY <1>1 DEF SessionInv, AnchorFor
<1>5. PendingInv'
  BY <1>1 DEF PendingInv
<1>6. HeadInv'
  <2>1. Previous' = Previous
    BY DEF Previous
  <2> QED
    BY <1>1, <2>1 DEF HeadInv
<1>7. MarksInv'
  <2>1. Reached' = st /\ Sound(st)
    BY <1>1 DEF Reached, Arriving, JournalInv
  <2>2. st.counter \in Nat /\ st.genFloor \in Nat /\ st.secFloor \in Nat
    BY <2>1 DEF Sound, Bounded, States
  <2>3. CASE UNCHANGED marks
    <3>1. known' => marks = MarksOf(st)
      BY <1>1 DEF MarksInv, Reached, Arriving
    <3> QED
      BY <2>1, <2>3, <3>1, MarksCover DEF MarksInv
  <2>4. CASE u = TRUE /\ \E n : Raise(n) /\ n \in States
    <3>1. PICK n \in States : Raise(n)
      BY <2>4
    <3>2. n.counter \in Nat /\ n.genFloor \in Nat /\ n.secFloor \in Nat
      BY DEF States
    <3>3. ~known'
      BY <1>1, <2>4
    <3>4. /\ marks' \in [counter : Nat, gen : Nat, secFloor : Nat]
          /\ marks'.counter >= st.counter /\ marks'.gen >= st.genFloor /\ marks'.secFloor >= st.secFloor
      BY <3>1, <3>2, <2>2, MarksCover DEF Raise, Max2
    <3> QED
      BY <2>1, <3>3, <3>4 DEF MarksInv
  <2> QED
    BY <2>3, <2>4
<1> QED
  BY <1>2, <1>3, <1>4, <1>5, <1>6, <1>7

-----------------------------------------------------------------------------
(* Every step preserves the invariant                                      *)

\* An intent bound to a sound state is an intent.
LEMMA IntentsAreTyped ==
  ASSUME NEW s, Sound(s)
  PROVE  IntentsFor(s) \subseteq Intents
<1>1. s.counter + 1 \in Nat /\ s.tail \in Tails /\ (s.active # None => s.active.origin \in Nat)
  BY DEF Sound, Bounded, States, Actives
<1>2. CASE s.active = None
  BY <1>1, <1>2 DEF IntentsFor, Intents
<1>3. CASE s.active # None
  <2> SUFFICES ASSUME NEW t \in Targets,
                      NEW i \in [kind : {"Recovery"}, origin : {s.active.origin}, target : {t}, tx : {s.counter + 1},
                                 sel : Selections, expected : {s.tail}, approved : BOOLEAN]
               PROVE  i \in Intents
    BY <1>3 DEF IntentsFor
  <2>1. i \in [kind : {"Recovery"}, origin : Nat, target : Targets, tx : Nat,
               sel : Selections, expected : Tails, approved : BOOLEAN]
    BY <1>1, <1>3
  <2> QED
    BY <2>1 DEF Intents
<1> QED
  BY <1>2, <1>3

\* A restart goes on with exactly what is stored.
LEMMA OpenKeeps == IInv /\ Open => IInv'
<1> SUFFICES ASSUME IInv, Open PROVE IInv'
  OBVIOUS
<1> USE DEF IInv
<1>1. /\ open' = TRUE /\ known = TRUE /\ candidate = None /\ st' = st /\ head = HeadFor(st) /\ Raise(st)
      /\ intent' \in Intents \cup {None} /\ pending = None
      /\ ~headRequired /\ ~verified /\ ~published
  <2>1. st = Durable /\ Sound(st)
    BY DEF JournalInv
  <2>2. IntentsFor(st) \subseteq Intents /\ intent \in Intents \cup {None}
    BY <2>1, IntentsAreTyped DEF TypeInv
  <2> QED
    BY <2>1, <2>2 DEF Open, Restartable, TypeInv, SessionInv
<1>2. UNCHANGED <<anchor, records, head, candidate, known, pending, headRequired, verified, published,
                  quiescent, reserved, waiting, acks, finished>>
  BY DEF Open, storage, flags
<1>3. JournalInv' /\ FinishedInv'
  BY <1>1, <1>2, JournalFrame, FinishedFrame DEF JournalView
<1>4. TypeInv'
  BY <1>1, <1>2 DEF TypeInv
<1>5. SessionInv' /\ PendingInv' /\ HeadInv'
  BY <1>1, <1>2 DEF SessionInv, PendingInv, HeadInv
<1>6. MarksInv'
  <2>1. marks = MarksOf(st) /\ Reached' = st
    BY <1>1, <1>2 DEF MarksInv, Reached, Arriving
  <2>2. st.counter \in Nat /\ st.genFloor \in Nat /\ st.secFloor \in Nat
    BY DEF JournalInv, Sound, Bounded, States
  <2>3. marks' = MarksOf(st)
    BY <1>1, <2>1, <2>2 DEF Raise, Max2, MarksOf
  <2> QED
    BY <2>1, <2>2, <2>3 DEF MarksInv, MarksOf
<1> QED
  BY <1>3, <1>4, <1>5, <1>6

\* A refused restart only marks the image.
LEMMA RefuseOpenKeeps == IInv /\ RefuseOpen => IInv'
<1> SUFFICES ASSUME IInv, RefuseOpen PROVE IInv'
  OBVIOUS
<1> USE DEF IInv
<1>1. known' = FALSE /\ ~open
      /\ UNCHANGED <<anchor, records, head, candidate, open, st, intent, pending, headRequired, verified, published,
                     quiescent, reserved, waiting, acks, marks, finished>>
  BY DEF RefuseOpen, flags
<1>2. JournalInv' /\ FinishedInv'
  BY <1>1, JournalFrame, FinishedFrame DEF JournalView
<1>3. TypeInv' /\ SessionInv' /\ PendingInv'
  BY <1>1 DEF TypeInv, SessionInv, PendingInv
<1>4. HeadInv' /\ MarksInv'
  BY <1>1 DEF HeadInv, Previous, MarksInv, Reached, Arriving
<1> QED
  BY <1>2, <1>3, <1>4

\* The end of a session leaves a write in flight uncertain.
LEMMA EndSessionKeeps == IInv /\ EndSession => IInv'
BY CloseKeeps DEF EndSession

\* Quiescence is remembered and nothing else.
LEMMA ObserveQuiescenceKeeps == IInv /\ ObserveQuiescence => IInv'
<1> SUFFICES ASSUME IInv, ObserveQuiescence PROVE IInv'
  OBVIOUS
<1>1. CASE Close(FALSE)
  BY <1>1, CloseKeeps DEF ObserveQuiescence
<1>2. CASE ~Close(FALSE)
  <2> USE DEF IInv
  <2>1. quiescent' = TRUE /\ UNCHANGED <<anchor, records, head, candidate, known, open, st, intent, pending,
                    headRequired, verified, published, reserved, waiting, acks, marks, finished>>
    BY <1>2 DEF ObserveQuiescence
  <2>2. JournalInv' /\ FinishedInv'
    BY <2>1, JournalFrame, FinishedFrame DEF JournalView
  <2>3. TypeInv'
    BY <2>1 DEF TypeInv
  <2>4. SessionInv' /\ PendingInv'
    <3>1. SessionInv'
      BY <2>1 DEF SessionInv
    <3>2. PendingInv'
      BY <2>1 DEF PendingInv, Previous
    <3> QED
      BY <3>1, <3>2
  <2>5. HeadInv' /\ MarksInv'
    BY <2>1 DEF HeadInv, Previous, MarksInv, Reached, Arriving
  <2> QED
    BY <2>2, <2>3, <2>4, <2>5
<1> QED
  BY <1>1, <1>2

\* Acknowledging and querying change nothing that is stored or in flight.
LEMMA AnswersKeep ==
  ASSUME IInv, QueryStatus \/ \E phase \in {"Admission", "Result"} : Acknowledge(phase)
  PROVE  IInv'
<1> USE DEF IInv
<1>1. /\ waiting' \in BOOLEAN /\ acks' \subseteq {"Admission", "Result"}
      /\ UNCHANGED <<anchor, records, head, candidate, known, open, st, intent, pending,
                     headRequired, verified, published, quiescent, reserved, marks, finished>>
  BY DEF QueryStatus, Acknowledge, storage, TypeInv
<1>2. JournalInv' /\ FinishedInv'
  BY <1>1, JournalFrame, FinishedFrame DEF JournalView
<1>3. TypeInv'
  BY <1>1 DEF TypeInv
<1>4. SessionInv'
  BY <1>1 DEF SessionInv
<1>5. PendingInv'
  BY <1>1 DEF PendingInv, Previous
<1>6. HeadInv' /\ MarksInv'
  BY <1>1 DEF HeadInv, Previous, MarksInv, Reached, Arriving
<1> QED
  BY <1>2, <1>3, <1>6, <1>4, <1>5

\* The watermarks run ahead of a record that may persist, never of one that did not.
LEMMA WriteRecordKeeps == ASSUME IInv, NEW kind \in Kinds, WriteRecord(kind) PROVE IInv'
<1> DEFINE r == NewRecord(kind)
           n == Chained(st, r)
<1>1. /\ open /\ ~waiting /\ pending = None /\ ~headRequired /\ candidate = None /\ intent \in Intents
      /\ st.seq < MaxSeq /\ Len(records) < MaxRecords /\ Fits(st, kind, r.tx, r.intent)
      /\ UNCHANGED <<anchor, records, head, candidate, intent, finished>>
  BY DEF WriteRecord, MayWrite, IInv, TypeInv
<1>2. r \in Records /\ r.seq = st.seq + 1 /\ r.kind = kind
  <2>1. st.seq + 1 \in Nat /\ intent.tx \in Nat
    BY <1>1, IntentFacts DEF IInv, JournalInv, Sound, Bounded, States
  <2> QED
    BY <1>1, <2>1 DEF NewRecord, Records
<1>3. Sound(st)
  BY DEF IInv, JournalInv
<1>4. Advances(st, n, r)
  BY <1>1, <1>2, <1>3, RecordAdvances
<1>5. n \in States
  BY <1>4 DEF Advances, Sound, Bounded
<1> HIDE DEF r, n
<1>6. CASE Close(TRUE) /\ Raise(n)
  BY <1>1, <1>5, <1>6, CloseKeeps
<1>7. CASE NotWritten(n)
  BY <1>1, <1>7, CloseKeeps DEF NotWritten
<1>8. CASE /\ pending' = [target |-> "Journal", flushed |-> FALSE, record |-> r]
           /\ Raise(n) /\ UNCHANGED <<known, open, st, flags>>
  <2> USE DEF IInv
  <2>1. UNCHANGED <<known, open, st, headRequired, verified, published, quiescent, reserved, waiting, acks>>
    BY <1>8 DEF flags
  <2>2. JournalInv' /\ FinishedInv'
    BY <1>1, <2>1, JournalFrame, FinishedFrame DEF JournalView
  <2>3. TypeInv'
    BY <1>1, <2>1 DEF TypeInv
  <2>4. SessionInv'
    BY <1>1, <2>1 DEF SessionInv
  <2>5. pending' \in Writes /\ pending' # None /\ pending'.target = "Journal" /\ ~pending'.flushed /\ pending'.record = r
    <3>1. /\ pending' \in [target : {"Journal"}, flushed : BOOLEAN, record : Records]
          /\ pending'.target = "Journal" /\ ~pending'.flushed /\ pending'.record = r
      BY <1>2, <1>8
    <3>2. pending' \in Writes
      BY <3>1 DEF Writes
    <3> QED
      BY <3>1, <3>2, NullAssumption
  <2>6. PendingInv'
    BY <1>1, <1>2, <2>1, <2>5 DEF PendingInv
  <2>7. HeadInv'
    BY <1>1, <2>1 DEF HeadInv, Previous
  <2>8. MarksInv'
    <3>1. Reached' = n /\ marks = MarksOf(st)
      BY <1>1, <2>1, <2>5 DEF Reached, Arriving, MarksInv, SessionInv, n
    <3>2. /\ st.counter \in Nat /\ st.genFloor \in Nat /\ st.secFloor \in Nat
          /\ n.counter \in Nat /\ n.genFloor \in Nat /\ n.secFloor \in Nat
      BY <1>3, <1>5 DEF Sound, Bounded, States
    <3>3. st.counter <= n.counter /\ st.genFloor <= n.genFloor /\ st.secFloor <= n.secFloor
      BY <1>2, <1>3, <1>4, AdvanceRaises
    <3>4. marks' = MarksOf(n)
      BY <1>8, <3>1, <3>2, <3>3 DEF Raise, Max2, MarksOf
    <3> QED
      BY <3>1, <3>2, <3>4 DEF MarksInv, MarksOf
  <2> QED
    BY <2>2, <2>3, <2>6, <2>7, <2>8, <2>4
<1> QED
  BY <1>6, <1>7, <1>8 DEF WriteRecord, r, n

\* Without its newest record the journal is what it was.
LEMMA FrontOfAppend ==
  ASSUME NEW R, NEW q \in Seq(R), NEW x \in R
  PROVE  Front(Append(q, x)) = q /\ Append(q, x) # <<>>
<1>1. PICK m \in Nat : m = Len(q)
  OBVIOUS
<1>2. PICK longer : longer = Append(q, x)
  OBVIOUS
<1>3. longer \in Seq(R) /\ Len(longer) = m + 1 /\ \A k \in 1..m : longer[k] = q[k]
  BY <1>1, <1>2
<1>4. Front(longer) = SubSeq(longer, 1, m)
  BY <1>3 DEF Front
<1>5. SubSeq(longer, 1, m) \in Seq(R) /\ Len(SubSeq(longer, 1, m)) = m
  BY <1>3
<1>6. \A k \in 1..m : SubSeq(longer, 1, m)[k] = q[k]
  BY <1>3
<1>7. SubSeq(longer, 1, m) = q
  BY <1>1, <1>5, <1>6
<1> QED
  BY <1>1, <1>2, <1>3, <1>4, <1>7

\* A flushed record is replayed to exactly the state the session goes on with.
LEMMA JournalGrows ==
  ASSUME JournalInv, NEW r \in Records, r.seq = st.seq + 1, st.seq < MaxSeq, Len(records) < MaxRecords,
         Fits(st, r.kind, r.tx, r.intent),
         anchor' = anchor, records' = Append(records, r), st' = Chained(st, r)
  PROVE  /\ JournalInv' /\ Advances(st, st', r) /\ records' # <<>> /\ Previous' = st
         /\ st.counter <= st'.counter /\ st.genFloor <= st'.genFloor /\ st.secFloor <= st'.secFloor
<1>1. Sound(st) /\ st = Durable /\ records \in Seq(Records)
  BY DEF JournalInv
<1>2. \A k \in 1..Len(records) : records[k].seq = anchor.seq + k /\ records[k].tx <= st.counter
  BY DEF JournalInv
<1>3. st.seq = anchor.seq + Len(records)
  BY DEF JournalInv
<1>4. /\ anchor.counter <= st.counter /\ anchor.gen <= st.genFloor /\ anchor.secFloor <= st.secFloor
  BY DEF JournalInv
<1>5. Advances(st, st', r)
  BY <1>1, RecordAdvances
<1>6. st.counter <= st'.counter /\ st.genFloor <= st'.genFloor /\ st.secFloor <= st'.secFloor
  BY <1>1, <1>5, AdvanceRaises
<1>7. /\ st.seq \in Nat /\ st.counter \in Nat /\ st.genFloor \in Nat /\ st.secFloor \in Nat
      /\ st'.counter \in Nat /\ st'.genFloor \in Nat /\ st'.secFloor \in Nat
      /\ anchor.seq \in Nat /\ anchor.counter \in Nat /\ anchor.gen \in Nat /\ anchor.secFloor \in Nat
      /\ r.tx \in Nat /\ r.seq \in Nat
  BY <1>1, <1>5 DEF Advances, Sound, Bounded, States, JournalInv, Anchors, Records
<1>8. Durable' = st'
  <2>1. Durable' = Replay(anchor, Append(records, r))
    BY DEF Durable
  <2>2. Durable' = Replayed(st, r)
    BY <2>1, <1>1, ReplayAppend DEF Durable
  <2> QED
    BY <2>2, <1>1, NullAssumption DEF Replayed, Sound, Bounded
<1>9. /\ records' \in Seq(Records) /\ Len(records') = Len(records) + 1 /\ Len(records) \in Nat
      /\ \A k \in 1..Len(records) : records'[k] = records[k]
      /\ records'[Len(records) + 1] = r
  BY <1>1
<1>10. \A k \in 1..Len(records') : records'[k].seq = anchor.seq + k /\ records'[k].tx <= st'.counter
  <2> SUFFICES ASSUME NEW k \in 1..Len(records')
               PROVE  records'[k].seq = anchor.seq + k /\ records'[k].tx <= st'.counter
    OBVIOUS
  <2>1. CASE k = Len(records) + 1
    BY <2>1, <1>5, <1>7, <1>9 DEF JournalInv, Advances
  <2>2. CASE k # Len(records) + 1
    <3>1. k \in 1..Len(records) /\ records'[k] = records[k]
      BY <2>2, <1>9
    <3>2. records[k] \in Records
      BY <3>1, <1>1
    <3>3. records[k].tx \in Nat /\ records[k].tx <= st.counter /\ records[k].seq = anchor.seq + k
      BY <3>1, <3>2, <1>2 DEF Records
    <3>4. PICK t \in Nat : t = records[k].tx
      BY <3>3
    <3>5. t <= st.counter
      BY <3>3, <3>4
    <3>6. t <= st'.counter
      BY ONLY <3>5, <1>6, <1>7, SMTT(30)
    <3> QED
      BY <3>1, <3>3, <3>4, <3>6
  <2> QED
    BY <2>1, <2>2
<1>11. st'.seq = anchor.seq + Len(records')
  <2>1. st'.seq = r.seq /\ r.seq = st.seq + 1
    BY <1>5 DEF Advances
  <2>2. Len(records') = Len(records) + 1 /\ Len(records) \in Nat
    BY <1>9
  <2> QED
    <3>1. PICK m \in Nat : m = Len(records)
      BY <2>2
    <3>2. st.seq = anchor.seq + m
      BY <3>1, <1>3
    <3>3. Len(records') = m + 1
      BY <3>1, <2>2
    <3>4. st'.seq = anchor.seq + (m + 1)
      BY ONLY <2>1, <3>2, <1>7
    <3> QED
      BY ONLY <3>4, <3>3
<1>12. anchor.counter <= st'.counter /\ anchor.gen <= st'.genFloor /\ anchor.secFloor <= st'.secFloor
  BY ONLY <1>6, <1>7, <1>4
<1>13. Len(records') <= MaxRecords
  BY <1>9, Bounds
<1>14. JournalInv'
  <2>1. anchor' \in Anchors /\ ValidAnchor(anchor)'
    BY DEF JournalInv
  <2>2. Sound(st')
    BY <1>5 DEF Advances
  <2> QED
    BY <2>1, <2>2, <1>8, <1>9, <1>10, <1>11, <1>12, <1>13 DEF JournalInv
<1>15. records' # <<>> /\ Previous' = st
  <2>1. Front(records') = records /\ records' # <<>>
    BY <1>1, FrontOfAppend
  <2> QED
    BY <2>1, <1>1 DEF Previous, Durable
<1> QED
  BY <1>5, <1>6, <1>14, <1>15

\* What is admitted stays accounted for: finished, or in the lineage of the work under way.
LEMMA FinishedGrows ==
  ASSUME JournalInv, FinishedInv, NEW r \in Records, Advances(st, st', r),
         finished' = finished \cup IF r.kind = "Complete" THEN ToSet(st.active.lineage) ELSE {},
         st.active # None \/ r.kind = "Reserve"
  PROVE  FinishedInv'
<1>1. Sound(st) /\ st.counter \in Nat /\ LineageOf(st) \subseteq 1..st.counter
  BY DEF JournalInv, Sound, Bounded, States, Working, LineageOf
<1>2. r.kind \in Kinds /\ Moves(st, st', r.kind)
  BY DEF Records, Advances
<1>3. CASE r.kind = "Reserve"
  BY <1>1, <1>2, <1>3 DEF Moves, FinishedInv
<1>4. CASE r.kind = "Block"
  BY <1>2, <1>4 DEF Moves, FinishedInv
<1>5. CASE r.kind = "Commit"
  BY <1>2, <1>5 DEF Moves, FinishedInv
<1>6. CASE r.kind = "Complete"
  <2>1. finished' = finished \cup LineageOf(st) /\ LineageOf(st') = {} /\ st'.counter = st.counter
    BY <1>2, <1>6 DEF Moves, LineageOf
  <2> QED
    BY <2>1, <1>1 DEF FinishedInv
<1> QED
  BY <1>2, <1>3, <1>4, <1>5, <1>6 DEF Kinds

\* A flushed record leaves the head exactly one record behind.
LEMMA FlushJournalKeeps ==
  ASSUME IInv, Flush, ~Close(TRUE), pending.target = "Journal"
  PROVE  IInv'
<1> USE DEF IInv
<1> DEFINE r == pending.record
<1>1. /\ open /\ pending # None /\ ~pending.flushed
      /\ pending' = [pending EXCEPT !.flushed = TRUE]
      /\ records' = Append(records, r) /\ st' = Chained(st, r)
      /\ reserved' = (reserved \/ r.kind = "Reserve")
      /\ finished' = finished \cup IF r.kind = "Complete" THEN ToSet(st.active.lineage) ELSE {}
      /\ UNCHANGED <<anchor, head, candidate, known, open, headRequired, verified, published, quiescent,
                     waiting, acks, intent, marks>>
  BY DEF Flush
<1>2. /\ pending \in [target : {"Journal"}, flushed : BOOLEAN, record : Records]
      /\ r \in Records /\ r.seq = st.seq + 1 /\ st.seq < MaxSeq /\ Len(records) < MaxRecords
      /\ Fits(st, r.kind, r.tx, r.intent) /\ candidate = None /\ ~headRequired
  BY <1>1 DEF PendingInv, Writes
<1>3. pending' \in Writes /\ pending' # None /\ pending'.target = "Journal" /\ pending'.flushed
  <2>1. /\ pending' \in [target : {"Journal"}, flushed : BOOLEAN, record : Records]
        /\ pending'.target = "Journal" /\ pending'.flushed
    BY <1>1, <1>2
  <2>2. pending' \in Writes
    BY <2>1 DEF Writes
  <2> QED
    BY <2>1, <2>2, NullAssumption
<1> HIDE DEF r
<1>4. /\ JournalInv' /\ Advances(st, st', r) /\ records' # <<>> /\ Previous' = st
      /\ st.counter <= st'.counter /\ st.genFloor <= st'.genFloor /\ st.secFloor <= st'.secFloor
  BY <1>1, <1>2, JournalGrows
<1>5. FinishedInv'
  BY <1>1, <1>2, <1>4, FinishedGrows DEF Fits
<1>6. TypeInv'
  BY <1>1 DEF TypeInv
<1>7. ~verified /\ ~published /\ known
  BY <1>1, <1>2 DEF SessionInv
<1>8. SessionInv'
  BY <1>1, <1>2, <1>7 DEF SessionInv
<1>9. head = HeadFor(st)
  BY <1>1, <1>2 DEF HeadInv
<1>10. PendingInv' /\ HeadInv'
  <2>1. head' = HeadFor(Previous')
    BY <1>1, <1>4, <1>9
  <2>2. PendingInv'
    BY <1>1, <1>2, <1>3, <1>4, <2>1 DEF PendingInv
  <2>3. HeadInv'
    BY <1>1, <1>2, <1>3, <1>4, <2>1 DEF HeadInv
  <2> QED
    BY <2>2, <2>3
<1>11. MarksInv'
  <2>1. Reached = st'
    BY <1>1 DEF Reached, Arriving, PendingInv, r
  <2>2. Reached' = st'
    BY <1>3 DEF Reached, Arriving
  <2> QED
    BY <1>1, <2>1, <2>2 DEF MarksInv
<1> QED
  BY <1>4, <1>5, <1>6, <1>8, <1>10, <1>11

\* A flushed head or checkpoint leaves the journal alone.
LEMMA FlushOtherKeeps ==
  ASSUME IInv, Flush, ~Close(TRUE), pending.target # "Journal"
  PROVE  IInv'
<1> USE DEF IInv
<1>1. /\ open /\ pending # None /\ ~pending.flushed
      /\ pending' = [pending EXCEPT !.flushed = TRUE]
      /\ head' = IF pending.target = "Head" THEN pending.head ELSE head
      /\ UNCHANGED <<anchor, records, candidate, known, open, st, headRequired, verified, published, quiescent,
                     reserved, waiting, acks, intent, marks, finished>>
  BY DEF Flush
<1>2. JournalInv' /\ FinishedInv'
  BY <1>1, JournalFrame, FinishedFrame DEF JournalView
<1>3. TypeInv'
  BY <1>1 DEF TypeInv
<1>4. Reached = st /\ Reached' = st'
  BY <1>1 DEF Reached, Arriving, PendingInv, Writes
<1>5. MarksInv'
  BY <1>1, <1>4 DEF MarksInv
<1>6. CASE pending.target = "Head"
  <2>1. pending \in [target : {"Head"}, flushed : BOOLEAN, head : Heads]
    BY <1>1, <1>6 DEF PendingInv, Writes
  <2>2. /\ pending' \in [target : {"Head"}, flushed : BOOLEAN, head : Heads]
        /\ pending'.target = "Head" /\ pending'.flushed /\ head' \in Heads
    BY <1>1, <1>6, <2>1
  <2>3. pending' \in Writes /\ pending' # None
    <3>1. pending' \in Writes
      BY <2>2 DEF Writes
    <3> QED
      BY <3>1, NullAssumption
  <2>4. /\ ~published /\ (headRequired \/ verified)
        /\ head' = HeadFor(IF verified THEN FromAnchor(candidate) ELSE st)
    BY <1>1, <1>6 DEF PendingInv
  <2>5. PendingInv'
    BY <1>1, <2>2, <2>3, <2>4 DEF PendingInv
  <2>6. SessionInv'
    BY <1>1, <2>3, <2>4 DEF SessionInv
  <2>7. HeadInv'
    <3>1. CASE verified
      <4>1. candidate' # None /\ head' = HeadFor(FromAnchor(candidate'))
        BY <1>1, <2>4, <3>1 DEF SessionInv
      <4> QED
        BY <2>2, <4>1 DEF HeadInv
    <3>2. CASE ~verified
      BY <1>1, <2>2, <2>4, <3>2 DEF HeadInv
    <3> QED
      BY <3>1, <3>2
  <2> QED
    BY <1>2, <1>3, <1>5, <2>5, <2>6, <2>7
<1>7. CASE pending.target = "Checkpoint"
  <2>1. pending \in [target : {"Checkpoint"}, flushed : BOOLEAN]
    BY <1>1, <1>7 DEF PendingInv, Writes
  <2>2. /\ pending' \in [target : {"Checkpoint"}, flushed : BOOLEAN]
        /\ pending'.target = "Checkpoint" /\ head' = head
    BY <1>1, <1>7, <2>1
  <2>3. pending' \in Writes /\ pending' # None
    <3>1. pending' \in Writes
      BY <2>2 DEF Writes
    <3> QED
      BY <3>1, NullAssumption
  <2>4. candidate # None
    BY <1>1, <1>7 DEF PendingInv
  <2>5. PendingInv'
    BY <1>1, <2>2, <2>3, <2>4 DEF PendingInv
  <2>6. SessionInv'
    BY <1>1, <2>2, <2>3 DEF SessionInv
  <2>7. HeadInv'
    BY <1>1, <2>2, <2>4 DEF HeadInv, Previous
  <2> QED
    BY <1>2, <1>3, <1>5, <2>5, <2>6, <2>7
<1> QED
  BY <1>1, <1>6, <1>7 DEF PendingInv, Writes

\* A flush, whatever it flushes, and whether its outcome is known.
LEMMA FlushKeeps == IInv /\ Flush => IInv'
<1> SUFFICES ASSUME IInv, Flush PROVE IInv'
  OBVIOUS
<1>1. CASE Close(TRUE)
  <2>1. UNCHANGED <<anchor, candidate, intent, marks>>
    BY DEF Flush
  <2>2. open' = FALSE /\ pending' = None /\ st' = st
    BY <1>1 DEF Close
  <2>3. UNCHANGED <<records, head, finished>>
    <3>1. open' # open
      BY <2>2 DEF Flush, IInv, TypeInv
    <3> QED
      BY <3>1 DEF Flush
  <2> QED
    BY <1>1, <2>1, <2>3, CloseKeeps
<1>2. CASE ~Close(TRUE)
  BY <1>2, FlushJournalKeeps, FlushOtherKeeps
<1> QED
  BY <1>1, <1>2

\* Nothing arrives once the write in flight is flushed or gone.
LEMMA MarksFrame ==
  ASSUME MarksInv, ~Arriving, ~Arriving', UNCHANGED <<known, marks>>,
         st'.counter = st.counter, st'.genFloor = st.genFloor, st'.secFloor = st.secFloor
  PROVE  MarksInv'
BY DEF MarksInv, Reached, MarksOf

\* A record read back demands a new head, a head read back settles it.
LEMMA ReadBackKeeps == IInv /\ ReadBack => IInv'
<1> SUFFICES ASSUME IInv, ReadBack PROVE IInv'
  OBVIOUS
<1>1. CASE Close(TRUE)
  BY <1>1, CloseKeeps DEF ReadBack
<1>2. CASE ~Close(TRUE)
  <2> USE DEF IInv
  <2>1. /\ open /\ pending # None /\ pending.flushed /\ pending' = None
        /\ CASE pending.target = "Journal"    -> headRequired' = TRUE /\ UNCHANGED <<verified, published>>
             [] pending.target = "Head"       -> /\ headRequired' = FALSE /\ UNCHANGED verified
                                                 /\ published' = (published \/ verified)
             [] pending.target = "Checkpoint" -> verified' = TRUE /\ UNCHANGED <<headRequired, published>>
        /\ UNCHANGED <<anchor, records, head, candidate, known, open, st, intent, quiescent, reserved, waiting,
                       acks, marks, finished>>
    BY <1>2 DEF ReadBack, HeadNeeded
  <2>2. JournalInv' /\ FinishedInv'
    BY <2>1, JournalFrame, FinishedFrame DEF JournalView
  <2>3. MarksInv'
    BY <2>1, MarksFrame DEF Arriving
  <2>4. PendingInv'
    BY <2>1 DEF PendingInv
  <2>5. pending.target \in {"Journal", "Head", "Checkpoint"}
    BY <2>1 DEF PendingInv, Writes
  <2>6. Previous' = Previous
    BY <2>1 DEF Previous
  <2>7. CASE pending.target = "Journal"
    <3>1. /\ headRequired' = TRUE /\ UNCHANGED <<verified, published>> /\ candidate = None
          /\ records # <<>> /\ head = HeadFor(Previous)
      BY <2>1, <2>7 DEF PendingInv
    <3>2. TypeInv'
      BY <2>1, <3>1 DEF TypeInv
    <3>3. SessionInv'
      BY <2>1, <3>1 DEF SessionInv
    <3>4. HeadInv'
      BY <2>1, <2>6, <3>1 DEF HeadInv
    <3> QED
      BY <2>2, <2>3, <2>4, <3>2, <3>3, <3>4
  <2>8. CASE pending.target = "Head"
    <3>1. /\ headRequired' = FALSE /\ verified' = verified /\ published' = (published \/ verified) /\ ~published
          /\ head = HeadFor(IF verified THEN FromAnchor(candidate) ELSE st)
      BY <2>1, <2>8 DEF PendingInv
    <3>2. TypeInv'
      BY <2>1, <3>1 DEF TypeInv
    <3>3. SessionInv'
      BY <2>1, <3>1 DEF SessionInv
    <3>4. HeadInv'
      BY <2>1, <3>1 DEF HeadInv, SessionInv
    <3> QED
      BY <2>2, <2>3, <2>4, <3>2, <3>3, <3>4
  <2>9. CASE pending.target = "Checkpoint"
    <3>1. verified' = TRUE /\ UNCHANGED <<headRequired, published>> /\ candidate # None
      BY <2>1, <2>9 DEF PendingInv
    <3>2. TypeInv'
      BY <2>1, <3>1 DEF TypeInv
    <3>3. SessionInv'
      BY <2>1, <3>1 DEF SessionInv
    <3>4. HeadInv'
      BY <2>1, <2>6, <3>1 DEF HeadInv
    <3> QED
      BY <2>2, <2>3, <2>4, <3>2, <3>3, <3>4
  <2> QED
    BY <2>5, <2>7, <2>8, <2>9
<1> QED
  BY <1>1, <1>2

\* The head written is the one of the session's state or of its checkpoint.
LEMMA WriteHeadKeeps == IInv /\ WriteHead => IInv'
<1> SUFFICES ASSUME IInv, WriteHead PROVE IInv'
  OBVIOUS
<1> DEFINE shown == HeadFor(IF verified THEN FromAnchor(candidate) ELSE st)
<1>1. CASE \E uncertain \in BOOLEAN : Close(uncertain)
  BY <1>1, CloseKeeps DEF WriteHead
<1>2. CASE ~\E uncertain \in BOOLEAN : Close(uncertain)
  <2> USE DEF IInv
  <2>1. /\ open /\ ~waiting /\ pending = None /\ (headRequired \/ verified) /\ ~published
        /\ pending' = [target |-> "Head", flushed |-> FALSE, head |-> shown]
        /\ UNCHANGED <<anchor, records, head, candidate, known, open, st, intent, headRequired, verified,
                       published, quiescent, reserved, waiting, acks, marks, finished>>
    BY <1>2 DEF WriteHead, MayWrite, flags
  <2>2. shown \in Heads
    <3>1. Sound(st)
      BY DEF JournalInv
    <3>2. CASE verified
      <4>1. candidate = AnchorFor(st) /\ st.active = None
        BY <3>2 DEF SessionInv
      <4>2. Sound(FromAnchor(candidate))
        BY <3>1, <4>1, AnchorKeeps
      <4> QED
        BY <3>2, <4>2, HeadTyped
    <3>3. CASE ~verified
      BY <3>1, <3>3, HeadTyped
    <3> QED
      BY <3>2, <3>3
  <2> HIDE DEF shown
  <2>3. JournalInv' /\ FinishedInv'
    BY <2>1, JournalFrame, FinishedFrame DEF JournalView
  <2>4. /\ pending' \in [target : {"Head"}, flushed : BOOLEAN, head : Heads]
        /\ pending'.target = "Head" /\ ~pending'.flushed /\ pending'.head = shown
    BY <2>1, <2>2
  <2>5. pending' \in Writes /\ pending' # None
    <3>1. pending' \in Writes
      BY <2>4 DEF Writes
    <3> QED
      BY <3>1, NullAssumption
  <2>6. PendingInv'
    <3>1. shown = HeadFor(IF verified' THEN FromAnchor(candidate') ELSE st')
      BY <2>1 DEF shown
    <3> QED
      BY <2>1, <2>4, <2>5, <3>1 DEF PendingInv
  <2>7. MarksInv'
    BY <2>1, <2>4, MarksFrame DEF Arriving
  <2>8. TypeInv'
    BY <2>1 DEF TypeInv
  <2>9. SessionInv'
    BY <2>1 DEF SessionInv
  <2>10. HeadInv'
    <3>1. Previous' = Previous
      BY <2>1 DEF Previous
    <3> QED
      BY <2>1, <3>1 DEF HeadInv, SessionInv
  <2> QED
    BY <2>3, <2>6, <2>7, <2>8, <2>9, <2>10
<1> QED
  BY <1>1, <1>2

\* A checkpoint is only written of a settled state whose head is published.
LEMMA WriteCheckpointKeeps == IInv /\ WriteCheckpoint => IInv'
<1> SUFFICES ASSUME IInv, WriteCheckpoint PROVE IInv'
  OBVIOUS
<1>1. CASE \E uncertain \in BOOLEAN : Close(uncertain) /\ UNCHANGED candidate
  BY <1>1, CloseKeeps DEF WriteCheckpoint
<1>2. CASE ~\E uncertain \in BOOLEAN : Close(uncertain) /\ UNCHANGED candidate
  <2> USE DEF IInv
  <2>1. /\ open /\ ~waiting /\ pending = None /\ ~headRequired /\ candidate = None /\ st.active = None
        /\ head = HeadFor(st)
        /\ candidate' = AnchorFor(st) /\ pending' = [target |-> "Checkpoint", flushed |-> FALSE]
        /\ UNCHANGED <<anchor, records, head, known, open, st, intent, headRequired, verified,
                       published, quiescent, reserved, waiting, acks, marks, finished>>
    BY <1>2 DEF WriteCheckpoint, MayWrite, flags
  <2>2. candidate' # None
    <3>1. candidate' \in Anchors
      BY <2>1, AnchorKeeps DEF JournalInv
    <3> QED
      BY <3>1, NullAssumption
  <2>3. JournalInv' /\ FinishedInv'
    BY <2>1, JournalFrame, FinishedFrame DEF JournalView
  <2>4. /\ pending' \in [target : {"Checkpoint"}, flushed : BOOLEAN]
        /\ pending'.target = "Checkpoint" /\ ~pending'.flushed
    BY <2>1
  <2>5. pending' \in Writes /\ pending' # None
    <3>1. pending' \in Writes
      BY <2>4 DEF Writes
    <3> QED
      BY <3>1, NullAssumption
  <2>6. PendingInv'
    BY <2>2, <2>4, <2>5 DEF PendingInv
  <2>7. MarksInv'
    BY <2>1, <2>4, MarksFrame DEF Arriving
  <2>8. TypeInv'
    BY <2>1 DEF TypeInv
  <2>9. SessionInv'
    <3>1. ~verified /\ ~published /\ known
      BY <2>1 DEF SessionInv
    <3>2. AnchorFor(st)' = AnchorFor(st)
      BY <2>1
    <3> QED
      BY <2>1, <2>2, <3>1, <3>2 DEF SessionInv
  <2>10. HeadInv'
    BY <2>1 DEF HeadInv
  <2> QED
    BY <2>3, <2>6, <2>7, <2>8, <2>9, <2>10
<1> QED
  BY <1>1, <1>2

\* Compaction replaces the journal by a checkpoint of what it says, and nothing else.
LEMMA RetireJournalKeeps == IInv /\ RetireJournal => IInv'
<1> SUFFICES ASSUME IInv, RetireJournal PROVE IInv'
  OBVIOUS
<1>1. CASE \E uncertain \in BOOLEAN : Close(uncertain) /\ UNCHANGED <<anchor, candidate, records>>
  BY <1>1, CloseKeeps DEF RetireJournal
<1>2. CASE ~\E uncertain \in BOOLEAN : Close(uncertain) /\ UNCHANGED <<anchor, candidate, records>>
  <2> USE DEF IInv
  <2>1. /\ open /\ ~waiting /\ pending = None /\ published /\ verified /\ candidate # None /\ st.active = None
        /\ anchor' = candidate /\ candidate' = None /\ records' = <<>>
        /\ st' = FromAnchor(candidate) /\ verified' = FALSE /\ published' = FALSE
        /\ UNCHANGED <<head, known, open, intent, pending, headRequired, quiescent, reserved, waiting, acks,
                       marks, finished>>
    BY <1>2 DEF RetireJournal, MayWrite, Rebased
  <2>2. candidate = AnchorFor(st) /\ head = HeadFor(FromAnchor(candidate)) /\ ~headRequired /\ known
    BY <2>1 DEF SessionInv
  <2>3. Sound(st)
    BY DEF JournalInv
  <2>4. /\ candidate \in Anchors /\ ValidAnchor(candidate) /\ Sound(st') /\ Start(candidate) = st'
        /\ candidate.seq = st.seq /\ candidate.counter = st.counter /\ candidate.gen = st.gen
        /\ candidate.secFloor = st.secFloor
        /\ st'.seq = st.seq /\ st'.counter = st.counter /\ st'.gen = st.gen /\ st'.genFloor = st.genFloor
        /\ st'.secFloor = st.secFloor /\ st'.active = None
    BY <2>1, <2>2, <2>3, AnchorKeeps
  <2>5. JournalInv'
    <3>1. Durable' = Replay(candidate, <<>>)
      BY <2>1 DEF Durable
    <3>2. Durable' = st'
      BY <3>1, <2>4, ReplayEmpty
    <3>3. records' \in Seq(Records) /\ Len(records') = 0 /\ MaxRecords \in Nat
      BY <2>1, Bounds
    <3>4. /\ st.seq \in Nat /\ st.counter \in Nat /\ st.gen \in Nat /\ st.secFloor \in Nat
          /\ st.genFloor = st.gen
      BY <2>1, <2>3 DEF Sound, Bounded, States, Publishing
    <3>5. anchor' \in Anchors /\ ValidAnchor(anchor)' /\ Len(records') <= MaxRecords
      BY <2>1, <2>4, <3>3
    <3>6. \A k \in 1..Len(records') : records'[k].seq = anchor'.seq + k /\ records'[k].tx <= st'.counter
      BY <3>3
    <3>7. st'.seq = anchor'.seq + Len(records')
      BY <2>1, <2>4, <3>3, <3>4
    <3>8. anchor'.counter <= st'.counter /\ anchor'.gen <= st'.genFloor /\ anchor'.secFloor <= st'.secFloor
      BY <2>1, <2>4, <3>4
    <3> QED
      BY <2>4, <3>2, <3>3, <3>5, <3>6, <3>7, <3>8 DEF JournalInv
  <2>6. FinishedInv'
    BY <2>1, <2>4 DEF FinishedInv, LineageOf
  <2>7. TypeInv'
    BY <2>1 DEF TypeInv
  <2>8. SessionInv' /\ PendingInv'
    <3>1. SessionInv'
      BY <2>1, <2>2 DEF SessionInv
    <3>2. PendingInv'
      BY <2>1 DEF PendingInv
    <3> QED
      BY <3>1, <3>2
  <2>9. HeadInv'
    BY <2>1, <2>2 DEF HeadInv
  <2>10. MarksInv'
    BY <2>1, <2>4, MarksFrame DEF Arriving
  <2> QED
    BY <2>5, <2>6, <2>7, <2>8, <2>9, <2>10
<1> QED
  BY <1>1, <1>2

-----------------------------------------------------------------------------
(* The theorems                                                            *)

\* The empty store is sound.
LEMMA FirstIsSound ==
  LET n == FromAnchor(FirstAnchor)
  IN  /\ FirstAnchor \in Anchors /\ ValidAnchor(FirstAnchor) /\ Sound(n) /\ Start(FirstAnchor) = n
      /\ n.seq = 0 /\ n.counter = 0 /\ n.gen = 0 /\ n.genFloor = 0 /\ n.secFloor = 0
      /\ n.sel = Nothing /\ n.active = None
<1> DEFINE a == FirstAnchor
           n == FromAnchor(a)
<1>1. /\ a \in Anchors /\ a.seq = 0 /\ a.counter = 0 /\ a.gen = 0 /\ a.secFloor = 0 /\ a.sel = Nothing /\ a.last = 0
  BY SelectionFacts DEF FirstAnchor, Anchors
<1>2. ValidAnchor(a)
  BY <1>1 DEF ValidAnchor
<1>3. <<a.seq, "anchor">> \in Tails
  BY <1>1 DEF Tails
<1>4. /\ n \in States /\ n.seq = 0 /\ n.counter = 0 /\ n.gen = 0 /\ n.genFloor = 0 /\ n.secFloor = 0
      /\ n.sel = Nothing /\ n.last = 0 /\ n.active = None
  BY <1>1, <1>3 DEF FromAnchor, Anchors, States
<1> HIDE DEF n
<1>5. Sound(n)
  BY <1>4, Bounds DEF Sound, Bounded, Publishing, AtFloor
<1> QED
  BY <1>1, <1>2, <1>4, <1>5 DEF n, Start

\* The invariant holds of the empty store.
LEMMA InitHolds == Init => IInv
<1> SUFFICES ASSUME Init PROVE IInv
  OBVIOUS
<1>1. /\ anchor \in Anchors /\ ValidAnchor(anchor) /\ Sound(st) /\ Start(anchor) = st
      /\ st.seq = 0 /\ st.counter = 0 /\ st.gen = 0 /\ st.genFloor = 0 /\ st.secFloor = 0 /\ st.active = None
      /\ anchor.seq = 0 /\ anchor.counter = 0 /\ anchor.gen = 0 /\ anchor.secFloor = 0
  BY FirstIsSound DEF Init, FirstAnchor
<1>2. JournalInv
  <2>1. Durable = st
    BY <1>1, ReplayEmpty DEF Init, Durable
  <2>2. records \in Seq(Records) /\ Len(records) = 0 /\ MaxRecords \in Nat
    BY Bounds DEF Init
  <2> QED
    BY <1>1, <2>1, <2>2 DEF JournalInv
<1>3. TypeInv /\ SessionInv /\ PendingInv
  BY DEF Init, TypeInv, SessionInv, PendingInv
<1>4. HeadInv
  BY <1>1, HeadTyped DEF Init, HeadInv
<1>5. MarksInv
  BY <1>1 DEF Init, MarksInv, Reached, Arriving, MarksOf
<1>6. FinishedInv
  BY <1>1 DEF Init, FinishedInv, LineageOf
<1> QED
  BY <1>2, <1>3, <1>4, <1>5, <1>6 DEF IInv

\* Nothing changes when nothing happens.
LEMMA StutterKeeps == IInv /\ UNCHANGED vars => IInv'
<1> SUFFICES ASSUME IInv, UNCHANGED vars PROVE IInv'
  OBVIOUS
<1> USE DEF IInv
<1>1. UNCHANGED <<anchor, records, head, candidate, known, open, st, intent, pending, headRequired, verified,
                  published, quiescent, reserved, waiting, acks, marks, finished>>
  BY DEF vars, storage, flags
<1>2. JournalInv' /\ FinishedInv'
  BY <1>1, JournalFrame, FinishedFrame DEF JournalView
<1>3. TypeInv' /\ SessionInv'
  BY <1>1 DEF TypeInv, SessionInv
<1>4. PendingInv'
  BY <1>1 DEF PendingInv, Previous
<1>5. HeadInv' /\ MarksInv'
  BY <1>1 DEF HeadInv, Previous, MarksInv, Reached, Arriving
<1> QED
  BY <1>2, <1>3, <1>4, <1>5

\* Every step keeps the invariant.
LEMMA StepKeeps == IInv /\ [Next]_vars => IInv'
<1> SUFFICES ASSUME IInv, [Next]_vars PROVE IInv'
  OBVIOUS
<1>1. CASE Open
  BY <1>1, OpenKeeps
<1>2. CASE RefuseOpen
  BY <1>2, RefuseOpenKeeps
<1>3. CASE EndSession
  BY <1>3, EndSessionKeeps
<1>4. CASE Flush
  BY <1>4, FlushKeeps
<1>5. CASE ReadBack
  BY <1>5, ReadBackKeeps
<1>6. CASE WriteHead
  BY <1>6, WriteHeadKeeps
<1>7. CASE ObserveQuiescence
  BY <1>7, ObserveQuiescenceKeeps
<1>8. CASE QueryStatus \/ \E phase \in {"Admission", "Result"} : Acknowledge(phase)
  BY <1>8, AnswersKeep
<1>9. CASE WriteCheckpoint
  BY <1>9, WriteCheckpointKeeps
<1>10. CASE RetireJournal
  BY <1>10, RetireJournalKeeps
<1>11. CASE \E kind \in Kinds : WriteRecord(kind)
  BY <1>11, WriteRecordKeeps
<1>12. CASE UNCHANGED vars
  BY <1>12, StutterKeeps
<1> QED
  BY <1>1, <1>2, <1>3, <1>4, <1>5, <1>6, <1>7, <1>8, <1>9, <1>10, <1>11, <1>12 DEF Next

\* Whatever is lost, uncertain, retried or compacted, the stored journal replays to what
\* the session works with, the published head is the one of that journal or one record
\* behind, and the watermarks outside the store are those of the journal.
THEOREM PersistenceInvariance == Spec => []IInv
<1>1. Init => IInv
  BY InitHolds
<1>2. IInv /\ [Next]_vars => IInv'
  BY StepKeeps
<1> QED
  BY <1>1, <1>2, PTL DEF Spec

\* Every counter stays within its limit.
LEMMA TypesHold == IInv => TypeOK
<1> SUFFICES ASSUME IInv PROVE TypeOK
  OBVIOUS
<1>1. Sound(st) /\ Len(records) <= MaxRecords
  BY DEF IInv, JournalInv
<1>2. /\ st \in States /\ st.seq \in Nat /\ st.counter \in Nat /\ st.gen \in Nat /\ st.genFloor \in Nat
      /\ st.secFloor \in Nat /\ st.last \in Nat /\ st.sel \in Selections
      /\ (st.active # None => st.active \in Actives)
      /\ st.seq <= MaxSeq /\ st.counter <= MaxCounter /\ st.gen <= MaxGen /\ st.genFloor <= MaxGen
      /\ st.secFloor <= MaxEpoch /\ st.last <= st.counter
  BY <1>1 DEF Sound, Bounded, States
<1>3. /\ st.seq \in 0..MaxSeq /\ st.counter \in 0..MaxCounter /\ {st.gen, st.genFloor} \subseteq 0..MaxGen
      /\ st.secFloor \in 0..MaxEpoch /\ st.last \in 0..MaxCounter
  BY <1>2, Bounds
<1>4. st.active # None => /\ st.active.target \in 0..MaxGen
                          /\ Len(st.active.lineage) \in 1..MaxLineage
                          /\ {st.active.cand, st.active.original, st.active.previous} \subseteq Selections
  <2> SUFFICES ASSUME st.active # None
               PROVE  /\ st.active.target \in 0..MaxGen
                      /\ Len(st.active.lineage) \in 1..MaxLineage
                      /\ {st.active.cand, st.active.original, st.active.previous} \subseteq Selections
    OBVIOUS
  <2>1. st.active.target \in Nat /\ {st.active.cand, st.active.original, st.active.previous} \subseteq Selections
    BY <1>2 DEF Actives
  <2>2. st.active.target <= MaxGen /\ Len(st.active.lineage) \in 1..MaxLineage
    BY <1>1 DEF Sound, Working
  <2> QED
    BY <2>1, <2>2, Bounds
<1>5. /\ {known, open, headRequired, verified, published, quiescent, reserved, waiting} \subseteq BOOLEAN
      /\ acks \subseteq {"Admission", "Result"}
  BY DEF IInv, TypeInv
<1> QED
  BY <1>1, <1>2, <1>3, <1>4, <1>5 DEF TypeOK

\* What an ended session leaves satisfies the codec, unless it died between a record and
\* the head that publishes it.
LEMMA SnapshotHolds == IInv => SnapshotKeeps
<1> SUFFICES ASSUME IInv, ~open, ~(records # <<>> /\ head = HeadFor(Previous)) PROVE Encodable
  BY DEF SnapshotKeeps, Previous
<1> USE DEF IInv
<1>1. /\ Sound(st) /\ st = Durable /\ pending = None
      /\ (head = HeadFor(st) \/ (candidate # None /\ head = HeadFor(FromAnchor(candidate))))
  BY DEF JournalInv, SessionInv, HeadInv
<1>2. /\ st.counter \in Nat /\ st.genFloor \in Nat /\ st.secFloor \in Nat /\ st \in States
      /\ marks.counter \in Nat /\ marks.gen \in Nat /\ marks.secFloor \in Nat
      /\ st.counter <= marks.counter /\ st.genFloor <= marks.gen /\ st.secFloor <= marks.secFloor
  BY <1>1, MarksCover DEF Sound, Bounded, States
<1>3. /\ anchor.counter \in Nat /\ anchor.gen \in Nat /\ anchor.secFloor \in Nat
      /\ anchor.counter <= st.counter /\ anchor.gen <= st.genFloor /\ anchor.secFloor <= st.secFloor
  BY DEF JournalInv, Anchors
<1>4. candidate # None => /\ candidate.counter = st.counter /\ candidate.gen = st.gen
                          /\ candidate.secFloor = st.secFloor /\ st.gen = st.genFloor
                          /\ HeadFor(FromAnchor(candidate)).counter = st.counter
                          /\ HeadFor(FromAnchor(candidate)).genFloor = st.genFloor
                          /\ HeadFor(FromAnchor(candidate)).secFloor = st.secFloor
  <2> SUFFICES ASSUME candidate # None
               PROVE  /\ candidate.counter = st.counter /\ candidate.gen = st.gen
                      /\ candidate.secFloor = st.secFloor /\ st.gen = st.genFloor
                      /\ HeadFor(FromAnchor(candidate)).counter = st.counter
                      /\ HeadFor(FromAnchor(candidate)).genFloor = st.genFloor
                      /\ HeadFor(FromAnchor(candidate)).secFloor = st.secFloor
    OBVIOUS
  <2>1. candidate = AnchorFor(st) /\ st.active = None
    BY DEF SessionInv
  <2> DEFINE n == FromAnchor(candidate)
  <2>2. /\ candidate.counter = st.counter /\ candidate.gen = st.gen /\ candidate.secFloor = st.secFloor
        /\ Sound(n) /\ n.counter = st.counter /\ n.genFloor = st.genFloor /\ n.secFloor = st.secFloor
    BY <1>1, <2>1, AnchorKeeps
  <2>3. st.gen = st.genFloor
    BY <1>1, <2>1 DEF Sound, Publishing
  <2> HIDE DEF n
  <2>4. HeadFor(n).counter = n.counter /\ HeadFor(n).genFloor = n.genFloor /\ HeadFor(n).secFloor = n.secFloor
    BY <2>2, HeadTyped
  <2> QED
    BY <2>2, <2>3, <2>4 DEF n
<1>5. head.counter = st.counter /\ head.genFloor = st.genFloor /\ head.secFloor = st.secFloor
  BY <1>1, <1>4, HeadTyped
<1>6. /\ anchor.counter <= marks.counter /\ anchor.secFloor <= marks.secFloor /\ anchor.gen <= marks.gen
      /\ head.counter <= marks.counter /\ head.secFloor <= marks.secFloor /\ head.genFloor <= marks.gen
      /\ candidate # None => /\ candidate.counter <= marks.counter /\ candidate.secFloor <= marks.secFloor
                             /\ candidate.gen <= marks.gen
  BY <1>2, <1>3, <1>4, <1>5, SMTT(30)
<1>7. \A part \in {anchor, head, candidate} \ {None} :
        /\ part.counter <= marks.counter /\ part.secFloor <= marks.secFloor
        /\ (IF part = head THEN head.genFloor ELSE part.gen) <= marks.gen
  BY <1>6
<1>8. \A n \in 1..Len(records) : records[n].seq = anchor.seq + n /\ records[n].tx <= marks.counter
  <2> SUFFICES ASSUME NEW n \in 1..Len(records)
               PROVE  records[n].seq = anchor.seq + n /\ records[n].tx <= marks.counter
    OBVIOUS
  <2>1. records[n].seq = anchor.seq + n /\ records[n].tx <= st.counter /\ records[n] \in Records
    BY DEF JournalInv
  <2>2. records[n].tx \in Nat
    BY <2>1 DEF Records
  <2>3. records[n].tx <= marks.counter
    BY ONLY <2>1, <2>2, <1>2
  <2> QED
    BY <2>1, <2>3
<1>9. known /\ candidate = None => Restartable
  <2> SUFFICES ASSUME known, candidate = None PROVE Restartable
    OBVIOUS
  <2>1. marks = MarksOf(st)
    BY <1>1 DEF MarksInv, Reached, Arriving
  <2>2. st # None
    BY <1>2, NullAssumption
  <2>3. st.counter >= marks.counter /\ st.genFloor >= marks.gen /\ st.secFloor >= marks.secFloor
    BY <1>2, <2>1 DEF MarksOf
  <2> QED
    BY <1>1, <2>2, <2>3 DEF Restartable
<1> QED
  BY <1>7, <1>8, <1>9 DEF Encodable

\* The original candidate of an interrupted publication satisfies every floor it raised.
LEMMA FinishHolds == IInv => CanFinish
<1> DEFINE i == [kind |-> "Recovery", origin |-> st.active.origin,
                 target |-> "FinalizeCandidate", tx |-> st.counter + 1,
                 sel |-> st.active.original, expected |-> st.tail, approved |-> TRUE]
<1> SUFFICES ASSUME IInv, Publishing(st), Len(st.active.lineage) < MaxLineage,
                    st.counter < MaxCounter, st.genFloor < MaxGen
             PROVE  ReserveFits(st, i)
  BY DEF CanFinish
<1>1. /\ i.kind = "Recovery" /\ i.origin = st.active.origin /\ i.target = "FinalizeCandidate"
      /\ i.tx = st.counter + 1 /\ i.sel = st.active.original /\ i.expected = st.tail /\ i.approved = TRUE
  OBVIOUS
<1> HIDE DEF i
<1>2. st.active # None /\ st.active.publishing /\ Sound(st)
  BY DEF Publishing, IInv, JournalInv
<1>3. NotBelow(i.sel, st.secFloor) /\ NotBelow(i.sel, st.sel.epoch)
  BY <1>1, <1>2 DEF Sound, Undecided
<1>4. PermitsEpoch(st, i)
  BY <1>3 DEF PermitsEpoch, NotBelow, Max2
<1>5. i.sel = Expected(st, i.target)
  BY <1>1 DEF Expected
<1> QED
  BY <1>1, <1>2, <1>4, <1>5 DEF ReserveFits, NoOverflow

\* Whatever ended the sessions before, what is stored is one history within its limits
\* that the next session can go on from, and an interrupted publication can be finished.
THEOREM StoreIsSound == Spec => []StoreGoesOn
<1>1. IInv => StoreGoesOn
  <2> SUFFICES ASSUME IInv PROVE StoreGoesOn
    OBVIOUS
  <2>1. ReplayAgrees
    BY DEF ReplayAgrees, IInv, JournalInv
  <2>2. HeadLags
    BY DEF HeadLags, IInv, HeadInv, JournalInv, Previous
  <2>3. NoFalseRegression
    BY DEF NoFalseRegression, IInv, MarksInv, MarksOf, Reached, Arriving, JournalInv
  <2> QED
    BY <2>1, <2>2, <2>3, TypesHold, SnapshotHolds, FinishHolds DEF StoreGoesOn
<1> QED
  BY <1>1, PersistenceInvariance, PTL

\* A head is only ever replaced by the head of a sound state.
LEMMA HeadMoves ==
  ASSUME IInv, [Next]_vars
  PROVE  head' = head \/ \E s : Sound(s) /\ head' = HeadFor(s)
<1>1. CASE Flush
  <2>1. CASE head' = head
    BY <2>1
  <2>2. CASE head' # head
    <3>1. pending # None /\ ~pending.flushed /\ pending.target = "Head" /\ head' = pending.head
      BY <1>1, <2>2 DEF Flush
    <3>2. head' = HeadFor(IF verified THEN FromAnchor(candidate) ELSE st)
      BY <3>1 DEF IInv, PendingInv
    <3>3. Sound(st)
      BY DEF IInv, JournalInv
    <3>4. CASE verified
      <4>1. candidate = AnchorFor(st) /\ st.active = None
        BY <3>4 DEF IInv, SessionInv
      <4>2. Sound(FromAnchor(candidate))
        BY <3>3, <4>1, AnchorKeeps
      <4> QED
        BY <3>2, <3>4, <4>2
    <3>5. CASE ~verified
      BY <3>2, <3>3, <3>5
    <3> QED
      BY <3>4, <3>5
  <2> QED
    BY <2>1, <2>2
<1>2. CASE ~Flush
  <2>1. head' = head
    BY <1>2 DEF Next, Open, RefuseOpen, EndSession, ReadBack, WriteHead, ObserveQuiescence, QueryStatus,
                WriteCheckpoint, RetireJournal, WriteRecord, Acknowledge, vars, storage
  <2> QED
    BY <2>1
<1> QED
  BY <1>1, <1>2

\* The head of a sound state never shows a selection off its own security floor.
LEMMA HeadAtFloor ==
  ASSUME NEW s, Sound(s), NEW h, h = HeadFor(s)
  PROVE  h.sel # Nothing => h.sel.epoch = h.secFloor
<1>1. h.secFloor = s.secFloor /\ h.sel = (IF Publishing(s) THEN Nothing ELSE s.sel)
  BY HeadTyped
<1> QED
  BY <1>1 DEF Sound, AtFloor

\* A status query separates the active lineage from everything finished.
LEMMA StatusHolds == IInv => StatusIsTrue
<1> SUFFICES ASSUME IInv, ~Recovering, NEW t \in 1..st.counter
             PROVE  IF t \in finished THEN StatusOf(t) \in {"Completed", "Retired"}
                                      ELSE StatusOf(t) \in {"Active", "RecoveryRequired"}
  BY DEF StatusIsTrue, StatusOf
<1>1. Sound(st) /\ (t \in finished <=> t \notin LineageOf(st))
  BY DEF IInv, JournalInv, FinishedInv
<1>2. CASE st.active = None
  BY <1>1, <1>2 DEF LineageOf, StatusOf
<1>3. CASE st.active # None
  <2>1. st.last \notin ToSet(st.active.lineage)
    BY <1>1, <1>3 DEF Sound, Working
  <2> QED
    BY <1>1, <1>3, <2>1 DEF LineageOf, StatusOf
<1> QED
  BY <1>2, <1>3

\* A selection is only shown at the security floor of everything a publication was ever
\* blocked for, and a status query never takes unfinished work for finished work.
THEOREM ReportsAreSound == Spec => []ReportsAreTrue
<1>1. Init => PublishedAtFloor
  <2>1. Init => Sound(st) /\ head = HeadFor(st)
    BY FirstIsSound DEF Init
  <2> QED
    BY <2>1, HeadAtFloor DEF PublishedAtFloor
<1>2. IInv /\ PublishedAtFloor /\ [Next]_vars => PublishedAtFloor'
  <2> SUFFICES ASSUME IInv, PublishedAtFloor, [Next]_vars PROVE PublishedAtFloor'
    OBVIOUS
  <2>1. CASE head' = head
    BY <2>1 DEF PublishedAtFloor
  <2>2. CASE \E s : Sound(s) /\ head' = HeadFor(s)
    BY <2>2, HeadAtFloor DEF PublishedAtFloor
  <2> QED
    BY <2>1, <2>2, HeadMoves
<1>3. IInv /\ PublishedAtFloor => ReportsAreTrue
  BY StatusHolds DEF ReportsAreTrue
<1> QED
  BY <1>1, <1>2, <1>3, PersistenceInvariance, PTL DEF Spec

-----------------------------------------------------------------------------
(* The store implements the ledger all maintenance models share            *)

\* Two states the ledger cannot tell apart.
SameLedger(s, n) ==
  /\ n.counter = s.counter /\ n.gen = s.gen /\ n.genFloor = s.genFloor /\ n.secFloor = s.secFloor
  /\ n.sel = s.sel /\ PhaseOf(n) = PhaseOf(s)

\* A step leaves what is stored alone, rebases it, or flushes one record.
LEMMA StateMoves ==
  ASSUME IInv, [Next]_vars
  PROVE  SameLedger(st, st') \/ \E r \in Records : Advances(st, st', r)
<1>1. Sound(st) /\ st = Durable
  BY DEF IInv, JournalInv
<1>2. CASE Flush
  <2>1. CASE st' = st
    BY <2>1 DEF SameLedger, PhaseOf
  <2>2. CASE st' # st
    <3> DEFINE r == pending.record
    <3>1. pending # None /\ ~pending.flushed /\ pending.target = "Journal" /\ st' = Chained(st, r)
      BY <1>2, <2>2 DEF Flush, Close
    <3>2. r \in Records /\ r.seq = st.seq + 1 /\ st.seq < MaxSeq /\ Fits(st, r.kind, r.tx, r.intent)
      BY <3>1 DEF IInv, PendingInv, Writes
    <3> HIDE DEF r
    <3>3. Advances(st, st', r)
      BY <1>1, <3>1, <3>2, RecordAdvances
    <3> QED
      BY <3>2, <3>3
  <2> QED
    BY <2>1, <2>2
<1>3. CASE RetireJournal
  <2>1. CASE st' = st
    BY <2>1 DEF SameLedger, PhaseOf
  <2>2. CASE st' # st
    <3>1. candidate # None /\ st.active = None /\ st' = FromAnchor(candidate)
      BY <1>3, <2>2 DEF RetireJournal, Rebased, Close
    <3>2. candidate = AnchorFor(st)
      BY <3>1 DEF IInv, SessionInv
    <3>3. /\ st'.counter = st.counter /\ st'.gen = st.gen /\ st'.genFloor = st.genFloor
          /\ st'.secFloor = st.secFloor /\ st'.sel = st.sel /\ st'.active = None
      BY <1>1, <3>1, <3>2, AnchorKeeps
    <3> QED
      BY <3>1, <3>3 DEF SameLedger, PhaseOf
  <2> QED
    BY <2>1, <2>2
<1>4. CASE ~Flush /\ ~RetireJournal
  <2>1. st' = st
    BY <1>1, <1>4 DEF Next, Open, RefuseOpen, EndSession, ReadBack, WriteHead, ObserveQuiescence, QueryStatus,
                WriteCheckpoint, WriteRecord, Acknowledge, NotWritten, Close, vars, storage
  <2> QED
    BY <2>1 DEF SameLedger, PhaseOf
<1> QED
  BY <1>2, <1>3, <1>4

\* What is stored is what the session works with.
LEMMA StoredIsState == ASSUME IInv PROVE Stored = st
BY DEF Stored, IInv, JournalInv

\* Each flushed record is the step of the ledger its kind names.
LEMMA LedgerStep ==
  ASSUME IInv, IInv', [Next]_vars
  PROVE  [L!LedgerNext]_(L!ledger)
<1>1. Stored = st /\ Stored' = st'
  BY StoredIsState DEF Stored, IInv, JournalInv
<1>2. /\ (IF Stored.active = None THEN "Stable"
          ELSE IF Stored.active.publishing THEN "Blocked" ELSE Stored.active.stage) = PhaseOf(st)
      /\ (IF Stored.active = None THEN "Stable"
          ELSE IF Stored.active.publishing THEN "Blocked" ELSE Stored.active.stage)' = PhaseOf(st')
  BY <1>1 DEF PhaseOf
<1>3. Sound(st) /\ Sound(st')
  BY DEF IInv, JournalInv
<1>4. /\ st.secFloor \in Nat /\ st'.secFloor \in Nat /\ st.sel \in Selections /\ st'.sel \in Selections
  BY <1>3 DEF Sound, Bounded, States
<1>5. CASE SameLedger(st, st')
  <2>1. UNCHANGED L!ledger
    BY <1>1, <1>2, <1>5 DEF L!ledger, SameLedger
  <2> QED
    BY <2>1
<1>6. CASE \E r \in Records : Advances(st, st', r)
  <2>1. PICK r \in Records : Advances(st, st', r)
    BY <1>6
  <2>2. Moves(st, st', r.kind) /\ r.kind \in Kinds
    BY <2>1 DEF Advances, Records
  <2>3. CASE r.kind = "Reserve"
    <3>1. L!Admit
      BY <1>1, <1>2, <2>2, <2>3 DEF L!Admit, Moves
    <3> QED
      BY <3>1 DEF L!LedgerNext
  <2>4. CASE r.kind = "Block"
    <3>1. st'.secFloor >= st.secFloor /\ st'.secFloor >= st.sel.epoch /\ 0 <= st'.secFloor
      BY <1>4, <2>2, <2>4 DEF Moves
    <3>2. L!Block
      BY <1>1, <1>2, <1>4, <2>2, <2>4, <3>1 DEF L!Block, L!EpochOf, Moves
    <3> QED
      BY <3>2 DEF L!LedgerNext
  <2>5. CASE r.kind = "Commit"
    <3>1. L!Commit
      BY <1>1, <1>2, <2>2, <2>5 DEF L!Commit, L!AtFloor, Moves, NotBelow
    <3> QED
      BY <3>1 DEF L!LedgerNext
  <2>6. CASE r.kind = "Complete"
    <3>1. L!Complete
      BY <1>1, <1>2, <2>2, <2>6 DEF L!Complete, Moves
    <3> QED
      BY <3>1 DEF L!LedgerNext
  <2> QED
    BY <2>2, <2>3, <2>4, <2>5, <2>6 DEF Kinds
<1> QED
  BY <1>5, <1>6, StateMoves

\* What is stored behaves as the ledger of one machine: a record in flight, a lost or
\* repeated write, a restart and a compaction are no steps of it.
THEOREM StoreImplementsLedger == Spec => ImplementsLedger
<1>1. Init => L!LedgerInit
  <2> SUFFICES ASSUME Init PROVE L!LedgerInit
    OBVIOUS
  <2>1. Stored = st
    BY InitHolds, StoredIsState
  <2>2. st.counter = 0 /\ st.gen = 0 /\ st.genFloor = 0 /\ st.secFloor = 0 /\ st.sel = Nothing /\ st.active = None
    BY FirstIsSound DEF Init
  <2> QED
    BY <2>1, <2>2 DEF L!LedgerInit, L!AtFloor
<1> QED
  BY <1>1, LedgerStep, PersistenceInvariance, PTL DEF Spec, ImplementsLedger, L!Ledger

-----------------------------------------------------------------------------
(* What every model inherits by implementing the ledger: the lemmas use    *)
(* nothing of the store but that it does.                                  *)

StoredPhase ==
  IF Stored.active = None THEN "Stable" ELSE IF Stored.active.publishing THEN "Blocked" ELSE Stored.active.stage

\* SettledAtFloor is not inductive: a commit needs to know that the generation it takes
\* over is above the one it replaces, which Block established.
LedgerInv ==
  /\ Stored.counter \in Nat /\ Stored.gen \in Nat /\ Stored.genFloor \in Nat /\ Stored.secFloor \in Nat
  /\ StoredPhase # "Blocked" => L!AtFloor(Stored.sel, Stored.secFloor) /\ Stored.gen = Stored.genFloor
  /\ StoredPhase = "Blocked" => Stored.genFloor > Stored.gen

\* A ledger starts settled: the initial store satisfies its own floors.
LEMMA LedgerStarts == L!LedgerInit => LedgerInv
BY DEF L!LedgerInit, LedgerInv, StoredPhase

\* No counter or floor falls, and only a blocked publication replaces the selection.
Forward ==
  /\ Stored'.counter >= Stored.counter /\ Stored'.genFloor >= Stored.genFloor /\ Stored'.secFloor >= Stored.secFloor
  /\ Stored'.sel # Stored.sel => StoredPhase = "Blocked" /\ Stored'.gen > Stored.gen

\* Every admission, publication and completion preserves the invariant.
LEMMA LedgerKeeps == LedgerInv /\ [L!LedgerNext]_(L!ledger) => LedgerInv' /\ Forward
<1> SUFFICES ASSUME LedgerInv, [L!LedgerNext]_(L!ledger) PROVE LedgerInv' /\ Forward
  OBVIOUS
<1> USE DEF LedgerInv, StoredPhase, L!AtFloor, Forward
<1>1. CASE L!Admit
  BY <1>1 DEF L!Admit
<1>2. CASE L!Block
  BY <1>2 DEF L!Block
<1>3. CASE L!Commit
  BY <1>3 DEF L!Commit
<1>4. CASE L!Complete
  BY <1>4 DEF L!Complete
<1>5. CASE L!Retire
  BY <1>5 DEF L!Retire
<1>6. CASE UNCHANGED L!ledger
  BY <1>6 DEF L!ledger
<1> QED
  BY <1>1, <1>2, <1>3, <1>4, <1>5, <1>6 DEF L!LedgerNext

\* Outside a blocked publication, what is stored as selected is acceptable, and its
\* generation is the highest that may have been published.
THEOREM LedgerSettled == Spec => []L!SettledAtFloor
<1>1. LedgerInv => L!SettledAtFloor
  BY DEF LedgerInv, StoredPhase, L!SettledAtFloor
<1>2. LedgerInv /\ [L!LedgerNext]_(L!ledger) => LedgerInv'
  BY LedgerKeeps
<1> QED
  BY StoreImplementsLedger, LedgerStarts, <1>1, <1>2, PTL DEF ImplementsLedger, L!Ledger

\* No stored counter or floor ever falls, and a stored selection is only ever replaced by a
\* publication that blocked first, under a generation never used before.
THEOREM LedgerNeverBack == Spec => L!NeverBack
<1>1. LedgerInv /\ [L!LedgerNext]_(L!ledger) =>
        LedgerInv' /\ [/\ Stored.counter' >= Stored.counter /\ Stored.genFloor' >= Stored.genFloor
                       /\ Stored.secFloor' >= Stored.secFloor
                       /\ Stored.sel' # Stored.sel => StoredPhase = "Blocked" /\ Stored.gen' > Stored.gen]_(L!ledger)
  BY LedgerKeeps DEF Forward
<1> QED
  BY StoreImplementsLedger, LedgerStarts, <1>1, PTL DEF ImplementsLedger, L!Ledger, L!NeverBack, StoredPhase
=============================================================================
