----------------------------- MODULE IntakeProofs -----------------------------
(***************************************************************************)
(* What the readers of MCIntake promise, proved for any limits, archives,  *)
(* files, records and texts.  Each part has an inductive invariant of its  *)
(* own, since a step of one leaves the variables of the others alone:      *)
(* ZipInv, SourceInv, ImportInv, ScanInv, FramingInv, AssessmentInv and    *)
(* GateInv.  Sums over members and records of documents are recursive      *)
(* functions; they are unrolled by the least counterexample.               *)
(***************************************************************************)
EXTENDS MCIntake, FiniteSetTheorems, SequenceTheorems, WellFoundedInduction, TLAPS

-------------------------------------------------------------------------------
(* The archive in two readers                                              *)

\* A set of numbers that is not empty has a least one.
LEMMA LeastNumber ==
  ASSUME NEW T \in SUBSET Nat, T # {}
  PROVE  \E x \in T : \A y \in T : x <= y
<1> DEFINE U == {1..k : k \in T}
<1>1. IsWellFoundedOn(StrictSubsetOrdering(Nat), FiniteSubsetsOf(Nat))
  BY FS_StrictSubsetOrderingWellFounded
<1>2. U \subseteq FiniteSubsetsOf(Nat) /\ U # {}
  <2>1. ASSUME NEW k \in T PROVE 1..k \in SUBSET Nat /\ IsFiniteSet(1..k)
    BY FS_Interval
  <2> QED
    BY <2>1 DEF FiniteSubsetsOf
<1>3. PICK X \in U : \A Y \in U : <<Y, X>> \notin StrictSubsetOrdering(Nat)
  <2> HIDE DEF U
  <2> QED
    BY <1>1, <1>2, WFMin
<1>4. PICK x \in T : X = 1..x
  OBVIOUS
<1>5. ASSUME NEW y \in T PROVE x <= y
  <2> SUFFICES ASSUME y < x PROVE FALSE
    OBVIOUS
  <2>1. 1..y \subseteq 1..x /\ x \in 1..x /\ x \notin 1..y /\ 1..x \in SUBSET Nat /\ 1..y \in SUBSET Nat
    OBVIOUS
  <2>2. <<1..y, 1..x>> \in StrictSubsetOrdering(Nat)
    BY <2>1 DEF StrictSubsetOrdering
  <2> QED
    BY <1>3, <1>4, <2>2
<1> QED
  BY <1>5

\* The fields of an archive and of its directory that are numbers.
Members == {archive.dir[n] : n \in DOMAIN archive.dir}
ArchiveInv ==
  /\ {archive.dirAt, archive.gap, archive.offset, archive.size, archive.count} \subseteq Nat
  /\ Len(archive.dir) \in Nat /\ DOMAIN archive.dir = 1..Len(archive.dir)
  /\ \A e \in Members : {e.at, e.stored, e.used, e.size, e.real} \subseteq Nat

\* A position the directory has names one of its members.
LEMMA EntryIsMember == ASSUME ArchiveInv, NEW p \in Nat, HasEntry(p) PROVE EntryAt(p) \in Members
<1>1. p - archive.dirAt + 1 \in 1..Len(archive.dir)
  BY DEF ArchiveInv, HasEntry
<1> QED
  BY <1>1 DEF ArchiveInv, EntryAt, Members

\* What every member that was read has passed.
Sound(e) ==
  /\ e.supported /\ e.size <= MaxEntry /\ e.size <= (IF e.stored > 1 THEN e.stored ELSE 1) * Ratio
  /\ Located(e) /\ Expands(e)

EntriesInv ==
  /\ entries \in Seq(Members)
  /\ \A n \in 1..Len(entries) :
       HasEntry(archive.offset + n - 1) /\ entries[n] = EntryAt(archive.offset + n - 1) /\ Sound(entries[n])
  /\ \A m, n \in 1..Len(entries) : m < n => Fold(entries[m].name) # Fold(entries[n].name)

ResultInv ==
  /\ result \in {"reading", "accepted", "rejected", "unsupported"}
  /\ Len(entries) <= MaxEntries /\ (result = "reading" => Len(entries) <= archive.count)
  /\ result # "rejected" => Start
  /\ expanded \in 0..MaxExpanded /\ inflated \in 0..MaxExpanded /\ (result = "reading" => inflated = expanded)
  /\ result = "accepted" => Len(entries) = archive.count /\ Position = EocdAt /\ \E o \in Orders : Tiles(o)

\* The totals after each member: the import's at the end of its members, the probe's at the
\* end of those it read.
Sums(s) ==
  /\ s[0] = 0 /\ s[Len(entries)] = expanded
  /\ \A n \in 1..Len(entries) : s[n] = s[n - 1] + entries[n].size /\ s[n] <= MaxExpanded
  /\ result = "accepted" => total = s[Len(probed)]

ProbeInv ==
  /\ verdict \in {"waiting", "reading", "accepted", "rejected"}
  /\ verdict = "waiting" => probed = <<>> /\ total = 0 /\ produced = 0
  /\ result = "reading" => verdict = "waiting"
  /\ probed \in Seq(Members) /\ total \in 0..MaxExpanded
  /\ produced \in Nat /\ produced <= MaxExpanded + MaxEntry /\ (verdict = "reading" => produced = total)
  /\ result = "accepted" =>
       /\ verdict # "rejected" /\ Len(probed) <= Len(entries)
       /\ \A n \in 1..Len(probed) : probed[n] = entries[n]

ZipInv == ArchiveInv /\ EntriesInv /\ ResultInv /\ ProbeInv /\ \E s \in [0..Len(entries) -> Nat] : Sums(s)

\* Members that tile the file up to the directory use each byte before it once: the one
\* that holds a byte is the first, in the order, that stops behind it.
LEMMA TilesHideNothing == ZipInv => NothingHidden
<1> SUFFICES ASSUME ZipInv PROVE NothingHidden
  OBVIOUS
<1> SUFFICES ASSUME result = "accepted", NEW b \in 0..(EocdAt - 1), ~(b >= archive.offset)
             PROVE  \E n \in DOMAIN entries :
                      /\ b \in entries[n].at..(entries[n].at + entries[n].used)
                      /\ \A m \in DOMAIN entries \ {n} : b \notin entries[m].at..(entries[m].at + entries[m].stored)
  <2> SUFFICES ASSUME result = "accepted", NEW b \in 0..(EocdAt - 1), b >= archive.offset
               PROVE  b < archive.offset + Len(entries)
    BY DEF NothingHidden
  <2>1. EocdAt = archive.offset + Len(entries) /\ archive.offset \in Nat /\ Len(entries) \in Nat
    BY DEF ZipInv, ResultInv, ArchiveInv, EntriesInv, Position
  <2> HIDE DEF ZipInv
  <2> QED
    BY <2>1
<1>1. PICK o \in Orders : Tiles(o)
  BY DEF ZipInv, ResultInv
<1> DEFINE L == Len(entries)
<1>2. entries \in Seq(Members) /\ L \in Nat /\ DOMAIN entries = 1..L /\ b \in Nat /\ archive.offset \in Nat /\ b < archive.offset
  BY DEF ZipInv, EntriesInv, ArchiveInv
<1>3. \A n \in 1..L : /\ entries[n].at \in Nat /\ entries[n].stored \in Nat /\ entries[n].used = entries[n].stored
                      /\ Stops(entries[n]) = entries[n].at + 1 + entries[n].stored /\ Stops(entries[n]) \in Nat
  <2>1. ASSUME NEW n \in 1..L PROVE entries[n] \in Members /\ Expands(entries[n])
    BY <1>2 DEF ZipInv, EntriesInv, Sound
  <2> QED
    BY <2>1, SMTT(30) DEF ZipInv, ArchiveInv, Expands, Stops
<1>4. /\ o \in [1..L -> 1..L] /\ ToSet(o) = 1..L
      /\ \A m, n \in 1..L : m < n => entries[o[m]].at <= entries[o[n]].at
  BY <1>2 DEF Orders
<1>5. /\ L # 0 /\ entries[o[1]].at = 0 /\ Stops(entries[o[L]]) = archive.offset
      /\ \A n \in 2..L : Stops(entries[o[n - 1]]) = entries[o[n]].at
  BY <1>1, <1>2 DEF Tiles
<1> DEFINE T == {n \in 1..L : b < Stops(entries[o[n]])}
<1>6. L \in T
  BY <1>2, <1>5
<1>7. PICK k \in T : \A n \in T : k <= n
  <2>1. T \in SUBSET Nat /\ T # {}
    BY <1>6
  <2> HIDE DEF T
  <2> QED
    BY <2>1, LeastNumber
<1>8. k \in 1..L /\ o[k] \in 1..L /\ b < Stops(entries[o[k]])
  BY <1>4, <1>7
<1>9. entries[o[k]].at <= b
  <2>1. CASE k = 1
    BY <2>1, <1>2, <1>5
  <2>2. CASE k # 1
    <3>0. k \in 2..L /\ k - 1 \in 1..L /\ ~(k <= k - 1)
      BY <1>2, <1>8, <2>2
    <3>1. k - 1 \notin T /\ o[k - 1] \in 1..L
      BY <1>4, <1>7, <3>0
    <3>2. ~(b < Stops(entries[o[k - 1]]))
      BY <3>0, <3>1
    <3>3. Stops(entries[o[k - 1]]) \in Nat
      BY <1>3, <3>1
    <3> QED
      BY <1>2, <1>5, <3>0, <3>2, <3>3
  <2> QED
    BY <2>1, <2>2
<1>10. ASSUME NEW m \in 1..L, m # o[k] PROVE b \notin entries[m].at..(entries[m].at + entries[m].stored)
  <2>1. PICK j \in 1..L : o[j] = m
    BY <1>2, <1>4 DEF ToSet
  <2>2. j # k
    BY <2>1, <1>10
  <2>3. CASE j < k
    <3>1. j \notin T
      BY <1>7, <1>8, <2>3
    <3> QED
      <4>1. ~(b < Stops(entries[m]))
        BY <2>1, <3>1
      <4>2. entries[m].at \in Nat /\ entries[m].stored \in Nat /\ Stops(entries[m]) = entries[m].at + 1 + entries[m].stored
        BY <1>3
      <4> QED
        BY <1>2, <4>1, <4>2
  <2>4. CASE k < j
    <3>1. k + 1 \in 2..L /\ Stops(entries[o[k]]) = entries[o[k + 1]].at
      BY <1>2, <1>5, <1>8, <2>4
    <3>2. entries[o[k + 1]].at <= entries[o[j]].at
      <4>1. CASE j = k + 1
        BY <1>3, <1>4, <2>1, <4>1
      <4>2. CASE k + 1 < j
        BY <1>4, <3>1, <4>2
      <4> QED
        BY <1>8, <2>4, <4>1, <4>2
    <3>3. entries[o[k + 1]].at \in Nat /\ entries[m].at \in Nat
      <4>1. o[k + 1] \in 1..L
        BY <1>4, <3>1
      <4> QED
        BY <1>3, <4>1
    <3> QED
      <4>1. b < entries[o[k + 1]].at /\ entries[o[k + 1]].at <= entries[m].at
        BY <1>8, <2>1, <3>1, <3>2
      <4> QED
        BY <1>2, <3>3, <4>1
  <2> QED
    BY <1>8, <2>2, <2>3, <2>4
<1>11. b \in entries[o[k]].at..(entries[o[k]].at + entries[o[k]].used)
  <2>1. /\ entries[o[k]].at \in Nat /\ entries[o[k]].stored \in Nat /\ entries[o[k]].used = entries[o[k]].stored
        /\ b < entries[o[k]].at + 1 + entries[o[k]].stored
    BY <1>3, <1>8
  <2> QED
    BY <1>2, <1>9, <2>1
<1> QED
  BY <1>2, <1>8, <1>10, <1>11

\* The invariant says what the run checks.
LEMMA ZipIsAccounted == ZipInv => ArchiveIsAccounted
<1> SUFFICES ASSUME ZipInv PROVE TypeOK /\ InflationBounded /\ ProbeBounded /\ ImportIsStricter
  BY TilesHideNothing DEF ArchiveIsAccounted
<1> QED
  BY ZipAssumption DEF ZipInv, ResultInv, ProbeInv, TypeOK, InflationBounded, ProbeBounded, ImportIsStricter

\* Every archive may be selected, before anything of it was read.
LEMMA ArchiveStarts == MCInit => ZipInv
<1> SUFFICES ASSUME MCInit PROVE ZipInv
  OBVIOUS
<1>1. entries = <<>> /\ expanded = 0 /\ inflated = 0 /\ probed = <<>> /\ total = 0 /\ produced = 0 /\ verdict = "waiting"
  BY DEF MCInit, ProbeInit, Init
<1>2. ArchiveInv
  <2>1. CASE archive \in Archives
    BY <2>1, ZipAssumption DEF ArchiveInv, Members
  <2>2. CASE archive = [dir |-> <<>>, dirAt |-> 0, gap |-> 0, offset |-> 0, size |-> 0, count |-> 0]
    BY <2>2 DEF ArchiveInv, Members
  <2> QED
    BY <2>1, <2>2 DEF MCInit, ProbeInit, Init
<1>3. result \in {"reading", "rejected"} /\ (result # "rejected" => Start)
  <2>1. CASE part = "archive"
    BY <2>1 DEF MCInit, ProbeInit, Init
  <2>2. CASE part # "archive"
    <3>1. archive = [dir |-> <<>>, dirAt |-> 0, gap |-> 0, offset |-> 0, size |-> 0, count |-> 0] /\ result = "reading"
      BY <2>2 DEF MCInit
    <3> QED
      BY <3>1, ZipAssumption DEF Start, EocdAt
  <2> QED
    BY <2>1, <2>2
<1>4. archive.count \in Nat
  BY <1>2 DEF ArchiveInv
<1>5. Sums([n \in 0..0 |-> 0]) /\ [n \in 0..0 |-> 0] \in [0..Len(entries) -> Nat]
  BY <1>1, <1>3 DEF Sums
<1>6. EntriesInv
  BY <1>1 DEF EntriesInv
<1>7. ResultInv
  BY <1>1, <1>3, <1>4, ZipAssumption DEF ResultInv
<1>8. ProbeInv
  BY <1>1, <1>3, ZipAssumption DEF ProbeInv
<1> QED
  BY <1>2, <1>5, <1>6, <1>7, <1>8 DEF ZipInv

\* What was read stays what it was as long as the archive does.
LEMMA ReadingIsStable ==
  ASSUME UNCHANGED archive
  PROVE  /\ Members' = Members /\ EocdAt' = EocdAt /\ Start' = Start
         /\ \A p : HasEntry(p)' = HasEntry(p) /\ EntryAt(p)' = EntryAt(p)
         /\ \A e : Sound(e)' = Sound(e)
BY DEF Members, EocdAt, Start, HasEntry, EntryAt, Sound, Located, Expands

\* A member is added: its total, and that it is the next of the directory under a new name.
LEMMA EntryIsAdded ==
  ASSUME ZipInv, result = "reading", Len(entries) < archive.count, HasEntry(Position),
         NEW e, e = EntryAt(Position), e.supported, Named(e), WithinLimits(e), Located(e), Expands(e),
         inflated' = inflated + Produced(e), entries' = Append(entries, e), expanded' = expanded + e.size,
         UNCHANGED <<archive, result, probeVars>>
  PROVE  ZipInv'
<1> USE ZipAssumption
<1> DEFINE L == Len(entries)
<1>1. entries \in Seq(Members) /\ L \in Nat /\ archive.offset \in Nat /\ archive.dirAt \in Nat /\ archive.count \in Nat
      /\ archive.count <= MaxEntries
  BY DEF ZipInv, EntriesInv, ArchiveInv, ResultInv, Start
<1>2. e \in Members
  BY <1>1, EntryIsMember DEF Position, ZipInv
<1>3. {e.at, e.stored, e.used, e.size, e.real} \subseteq Nat
  BY <1>2 DEF ZipInv, ArchiveInv
<1>4. /\ entries' \in Seq(Members) /\ Len(entries') = L + 1
      /\ \A n \in 1..L : entries'[n] = entries[n]
      /\ entries'[L + 1] = e
  BY <1>1, <1>2
<1>5. Members' = Members /\ ArchiveInv'
  <2>1. archive' = archive
    OBVIOUS
  <2>2. Members' = Members
    BY <2>1 DEF Members
  <2>3. ArchiveInv
    BY DEF ZipInv
  <2> QED
    BY ONLY <2>1, <2>2, <2>3 DEF ArchiveInv
<1>6. EntriesInv'
  <2>1. ASSUME NEW n \in 1..(L + 1)
        PROVE  HasEntry(archive.offset + n - 1) /\ entries'[n] = EntryAt(archive.offset + n - 1) /\ Sound(entries'[n])
    <3>1. CASE n \in 1..L
      BY <1>4, <3>1 DEF ZipInv, EntriesInv
    <3>2. CASE n = L + 1
      <4>1. archive.offset + n - 1 = Position
        BY <1>1, <3>2 DEF Position
      <4> QED
        BY <1>4, <3>2, <4>1 DEF Sound, WithinLimits
    <3> QED
      BY <1>1, <3>1, <3>2
  <2>2. ASSUME NEW m \in 1..(L + 1), NEW n \in 1..(L + 1), m < n
        PROVE  Fold(entries'[m].name) # Fold(entries'[n].name)
    <3>1. CASE n \in 1..L
      BY <1>1, <1>4, <2>2, <3>1 DEF ZipInv, EntriesInv
    <3>2. CASE n = L + 1
      <4>1. m \in 1..L
        BY <1>1, <2>2, <3>2
      <4> QED
        BY <1>1, <1>4, <3>2, <4>1 DEF Named
    <3> QED
      BY <1>1, <3>1, <3>2
  <2>3. \A n \in 1..(L + 1) :
          /\ HasEntry(archive.offset + n - 1)' /\ entries'[n] = EntryAt(archive.offset + n - 1)'
          /\ Sound(entries[n])'
    BY <2>1, ReadingIsStable
  <2> QED
    <3>1. \A n \in 1..Len(entries') :
            /\ HasEntry(archive.offset + n - 1)' /\ entries'[n] = EntryAt(archive.offset + n - 1)'
            /\ Sound(entries[n])'
      BY <1>4, <2>3
    <3>2. \A m, n \in 1..Len(entries') : m < n => Fold(entries'[m].name) # Fold(entries'[n].name)
      <4> TAKE m, n \in 1..Len(entries')
      <4>1. m \in 1..(L + 1) /\ n \in 1..(L + 1)
        BY <1>4
      <4> QED
        BY <2>2, <4>1
    <3> QED
      BY <1>4, <1>5, <3>1, <3>2 DEF EntriesInv
<1>7. Produced(e) = e.size
  BY <1>3 DEF Expands, Produced
<1>8. ResultInv'
  <2>1. expanded \in Nat /\ inflated = expanded /\ expanded + e.size <= MaxExpanded
    BY DEF ZipInv, ResultInv, WithinLimits
  <2>2. expanded' \in 0..MaxExpanded /\ inflated' = expanded'
    BY <1>3, <1>7, <2>1, SMTT(30)
  <2> QED
    BY <1>1, <1>4, <2>2 DEF ZipInv, ResultInv, Start, EocdAt
<1>9. ProbeInv'
  BY <1>5 DEF ZipInv, ProbeInv, probeVars
<1>10. \E s \in [0..Len(entries') -> Nat] : Sums(s)'
  <2>1. PICK s \in [0..L -> Nat] : Sums(s)
    BY DEF ZipInv
  <2>2. expanded' \in Nat /\ expanded' <= MaxExpanded
    BY <1>8, <1>1 DEF ResultInv
  <2>3. PICK t \in [0..(L + 1) -> Nat] : t[0] = 0 /\ t[L + 1] = expanded' /\ (\A n \in 0..L : t[n] = s[n])
    <3> DEFINE t == [n \in 0..(L + 1) |-> IF n = L + 1 THEN expanded' ELSE s[n]]
    <3>1. t \in [0..(L + 1) -> Nat] /\ t[0] = 0 /\ t[L + 1] = expanded' /\ (\A n \in 0..L : t[n] = s[n])
      BY <1>1, <2>1, <2>2, SMTT(30) DEF Sums
    <3> HIDE DEF t
    <3> QED
      BY <3>1
  <2>4. ASSUME NEW n \in 1..(L + 1) PROVE t[n] = t[n - 1] + entries'[n].size /\ t[n] <= MaxExpanded
    <3>1. CASE n \in 1..L
      <4>1. n \in 0..L /\ n - 1 \in 0..L /\ n # 0 /\ n # L + 1
        BY <1>1, <3>1
      <4>2. t[n] = s[n] /\ t[n - 1] = s[n - 1] /\ entries'[n] = entries[n]
        BY <1>4, <2>3, <3>1, <4>1
      <4> QED
        BY <2>1, <3>1, <4>2 DEF Sums
    <3>2. CASE n = L + 1
      BY <1>1, <1>4, <2>1, <2>2, <2>3, <3>2, SMTT(30) DEF Sums
    <3> QED
      BY <1>1, <3>1, <3>2
  <2>5. result' # "accepted"
    OBVIOUS
  <2>6. Sums(t)'
    BY <1>4, <2>3, <2>4, <2>5 DEF Sums
  <2> QED
    BY <1>4, <2>3, <2>6
<1> QED
  BY <1>5, <1>6, <1>8, <1>9, <1>10 DEF ZipInv

\* Steps of the import that add no member.
LEMMA ResultKeeps ==
  ASSUME ZipInv, result = "reading", UNCHANGED <<archive, entries, expanded, probeVars>>,
         result' \in {"accepted", "rejected", "unsupported"}, inflated' \in 0..MaxExpanded,
         result' = "accepted" => Len(entries) = archive.count /\ Position = EocdAt /\ \E o \in Orders : Tiles(o)
  PROVE  ZipInv'
<1>1. Members' = Members /\ ArchiveInv' /\ EntriesInv'
  BY ReadingIsStable DEF ZipInv, ArchiveInv, EntriesInv
<1>2. ResultInv'
  <2>1. Orders' = Orders /\ (\A o \in Orders : Tiles(o) => Tiles(o)')
    BY DEF Orders, Tiles, Stops
  <2> QED
    BY <2>1 DEF ZipInv, ResultInv, Start, EocdAt, Position
<1>3. ProbeInv'
  <2>1. verdict = "waiting" /\ probed = <<>>
    BY DEF ZipInv, ProbeInv
  <2> QED
    BY <1>1, <2>1 DEF ZipInv, ProbeInv, probeVars, EntriesInv
<1>4. \E s \in [0..Len(entries') -> Nat] : Sums(s)'
  <2>1. PICK s \in [0..Len(entries) -> Nat] : Sums(s)
    BY DEF ZipInv
  <2>2. probed = <<>> /\ total = 0
    BY DEF ZipInv, ProbeInv
  <2>3. Sums(s)'
    BY <2>1, <2>2 DEF Sums, probeVars
  <2> QED
    BY <2>3
<1> QED
  BY <1>1, <1>2, <1>3, <1>4 DEF ZipInv

\* Each step of the import's reader.
LEMMA ImportStepKeeps == ASSUME ZipInv, Next, UNCHANGED probeVars PROVE ZipInv'
<1> USE ZipAssumption
<1>1. CASE ReadEntry
  <2>1. inflated \in 0..MaxExpanded /\ result = "reading"
    BY <1>1 DEF ZipInv, ResultInv, ReadEntry
  <2>2. ASSUME End("rejected") \/ End("unsupported"), inflated' \in 0..MaxExpanded PROVE ZipInv'
    BY <2>1, <2>2, ResultKeeps DEF End
  <2>3. CASE ~HasEntry(Position)
    BY <1>1, <2>1, <2>2, <2>3 DEF ReadEntry
  <2>4. CASE HasEntry(Position)
    <3> DEFINE e == EntryAt(Position)
    <3>1. CASE ~e.supported
      BY <1>1, <2>1, <2>2, <2>4, <3>1 DEF ReadEntry
    <3>2. CASE e.supported /\ ~(Named(e) /\ WithinLimits(e) /\ Located(e))
      BY <1>1, <2>1, <2>2, <2>4, <3>2 DEF ReadEntry
    <3>3. CASE e.supported /\ Named(e) /\ WithinLimits(e) /\ Located(e)
      <4>1. /\ inflated' = inflated + Produced(e)
            /\ IF Expands(e)
               THEN /\ entries' = Append(entries, e) /\ expanded' = expanded + e.size
                    /\ UNCHANGED <<archive, result>>
               ELSE End("rejected")
        BY <1>1, <2>4, <3>3 DEF ReadEntry
      <4>2. e \in Members
        <5>1. Position \in Nat
          BY DEF ZipInv, ArchiveInv, EntriesInv, Position
        <5> QED
          BY <2>4, <5>1, EntryIsMember DEF ZipInv
      <4>3. e.size \in Nat /\ e.real \in Nat
        BY <4>2 DEF ZipInv, ArchiveInv
      <4>4. expanded \in Nat /\ inflated = expanded /\ expanded + e.size <= MaxExpanded
        BY <2>1, <3>3 DEF ZipInv, ResultInv, WithinLimits
      <4>5. inflated + Produced(e) \in 0..MaxExpanded
        BY <4>3, <4>4 DEF Produced
      <4>6. CASE Expands(e)
        <5> HIDE DEF e
        <5>1. Len(entries) < archive.count /\ e = EntryAt(Position)
          BY <1>1 DEF ReadEntry, e
        <5> QED
          BY <2>1, <2>4, <3>3, <4>1, <4>6, <5>1, EntryIsAdded
      <4>7. CASE ~Expands(e)
        BY <2>2, <4>1, <4>5, <4>7
      <4> QED
        BY <4>6, <4>7
    <3> QED
      BY <3>1, <3>2, <3>3
  <2> QED
    BY <2>3, <2>4
<1>2. CASE Finish
  BY <1>2, ResultKeeps DEF Finish, End, ZipInv, ResultInv
<1> QED
  BY <1>1, <1>2 DEF Next

\* The next member of the directory is one the import accepted, if it accepted the archive.
LEMMA NextIsAccepted ==
  ASSUME ZipInv, result = "accepted", verdict = "reading", Len(probed) < archive.count
  PROVE  LET n == Len(probed) + 1
         IN  /\ n \in 1..Len(entries) /\ HasEntry(ProbePosition) /\ entries[n] = EntryAt(ProbePosition)
             /\ Sound(entries[n]) /\ ProbeNamed(entries[n]) /\ ProbeLimits(entries[n]) /\ ProbeLocated(entries[n])
             /\ ProbeExpands(entries[n])
<1> USE ZipAssumption
<1> DEFINE k == Len(probed)
           n == k + 1
<1>1. /\ entries \in Seq(Members) /\ Len(entries) = archive.count /\ k \in Nat /\ archive.offset \in Nat
      /\ Len(entries) \in Nat /\ \A m \in 1..k : probed[m] = entries[m]
      /\ probed \in Seq(Members)
  BY SMTT(30) DEF ZipInv, EntriesInv, ResultInv, ProbeInv, ArchiveInv
<1>2. n \in 1..Len(entries) /\ archive.offset + n - 1 = ProbePosition
  BY <1>1 DEF ProbePosition
<1>3. HasEntry(ProbePosition) /\ entries[n] = EntryAt(ProbePosition) /\ Sound(entries[n])
  BY <1>2 DEF ZipInv, EntriesInv
<1>4. ProbeNamed(entries[n])
  <2>1. \A m \in 1..k : m \in 1..Len(entries) /\ m < n
    BY <1>1, <1>2
  <2>2. DOMAIN probed = 1..k
    BY <1>1
  <2> QED
    BY <1>1, <1>2, <2>1, <2>2 DEF ProbeNamed, ZipInv, EntriesInv
<1>5. total + entries[n].size <= MaxExpanded
  <2>1. PICK s \in [0..Len(entries) -> Nat] : Sums(s)
    BY DEF ZipInv
  <2>2. total = s[k] /\ n - 1 = k
    BY <1>1, <2>1 DEF Sums
  <2> QED
    BY <1>2, <2>1, <2>2 DEF Sums
<1>6. ProbeLimits(entries[n]) /\ ProbeLocated(entries[n]) /\ ProbeExpands(entries[n])
  BY <1>3, <1>5 DEF Sound, ProbeLimits, ProbeLocated, ProbeExpands, Located, Expands
<1> QED
  BY <1>2, <1>3, <1>4, <1>6

\* Each step of the probe, which goes over an archive the import has judged.
LEMMA ProbeStepKeeps ==
  ASSUME ZipInv, ProbeStarts \/ ProbeEntry \/ ProbeFinish, UNCHANGED vars
  PROVE  ZipInv'
<1> USE ZipAssumption
<1> USE DEF vars
<1>1. ArchiveInv' /\ EntriesInv' /\ Members' = Members
  BY ReadingIsStable DEF ZipInv, ArchiveInv, EntriesInv
<1>2. ResultInv'
  <2>1. Orders' = Orders /\ (\A o \in Orders : Tiles(o) => Tiles(o)')
    BY DEF Orders, Tiles, Stops
  <2> QED
    BY <2>1, ReadingIsStable DEF ZipInv, ResultInv, Position
<1>3. /\ entries \in Seq(Members) /\ Len(entries) \in Nat /\ probed \in Seq(Members) /\ Len(probed) \in Nat
      /\ total \in Nat /\ total <= MaxExpanded /\ produced \in Nat
  BY DEF ZipInv, EntriesInv, ProbeInv
<1>4. ASSUME probed' = probed, total' = total, ProbeInv' PROVE ZipInv'
  <2>1. PICK s \in [0..Len(entries) -> Nat] : Sums(s)
    BY DEF ZipInv
  <2>2. Sums(s)'
    BY <1>4, <2>1 DEF Sums
  <2> QED
    BY <1>1, <1>2, <1>4, <2>2 DEF ZipInv
<1>5. CASE ProbeStarts
  <2>1. result = "accepted" => Start
    BY DEF ZipInv, ResultInv
  <2>2. verdict' \in {"reading", "rejected"} /\ (result = "accepted" => verdict' = "reading") /\ result # "reading"
        /\ UNCHANGED <<probed, total, produced>> /\ verdict = "waiting"
    BY <1>5, <2>1 DEF ProbeStarts
  <2>3. ProbeInv'
    BY <1>1, <2>2 DEF ZipInv, ProbeInv
  <2> QED
    BY <1>4, <2>2, <2>3
<1>6. CASE ProbeFinish
  <2>1. result = "accepted" /\ verdict = "reading" /\ Len(probed) = archive.count => ProbePosition = EocdAt
    BY DEF ZipInv, ResultInv, Position, ProbePosition
  <2>2. verdict' \in {"accepted", "rejected"} /\ (result = "accepted" => verdict' = "accepted")
        /\ UNCHANGED <<probed, total, produced>> /\ verdict = "reading"
    BY <1>6, <2>1 DEF ProbeFinish
  <2>3. ProbeInv'
    BY <1>1, <2>2 DEF ZipInv, ProbeInv
  <2> QED
    BY <1>4, <2>2, <2>3
<1>7. CASE ProbeEntry
  <2> DEFINE e == EntryAt(ProbePosition)
  <2>1. verdict = "reading" /\ Len(probed) < archive.count /\ produced = total /\ result # "reading"
    BY <1>7 DEF ProbeEntry, ZipInv, ProbeInv
  <2>2. ASSUME ProbeRejects, produced' \in Nat, produced' <= MaxExpanded + MaxEntry, result # "accepted" PROVE ZipInv'
    <3>1. ProbeInv'
      BY <1>1, <2>1, <2>2 DEF ZipInv, ProbeInv, ProbeRejects
    <3> QED
      BY <1>4, <2>2, <3>1 DEF ProbeRejects
  <2>3. CASE (HasEntry(ProbePosition) => ~e.supported) /\ ProbeRejects /\ UNCHANGED produced
    <3>1. result # "accepted"
      BY <2>1, <2>3, NextIsAccepted DEF Sound
    <3> QED
      BY <2>2, <2>3, <3>1 DEF ZipInv, ProbeInv
  <2>4. CASE HasEntry(ProbePosition) /\ ~(ProbeNamed(e) /\ ProbeLimits(e) /\ ProbeLocated(e)) /\ ProbeRejects /\ UNCHANGED produced
    <3>1. result # "accepted"
      BY <2>1, <2>4, NextIsAccepted
    <3> QED
      BY <2>2, <2>4, <3>1 DEF ZipInv, ProbeInv
  <2>5. CASE HasEntry(ProbePosition) /\ ProbeNamed(e) /\ ProbeLimits(e) /\ ProbeLocated(e)
             /\ produced' = produced + ProbeProduced(e)
             /\ IF ProbeExpands(e) THEN probed' = Append(probed, e) /\ total' = total + e.size /\ UNCHANGED verdict
                ELSE ProbeRejects
    <3>1. e \in Members /\ e.size \in Nat /\ e.real \in Nat
      <4>1. ProbePosition \in Nat
        <5>1. archive.offset \in Nat
          BY DEF ZipInv, ArchiveInv
        <5>2. Len(probed) \in Nat
          BY <1>3
        <5> QED
          BY ONLY <5>1, <5>2 DEF ProbePosition
      <4>2. e \in Members
        BY <2>5, <4>1, EntryIsMember DEF ZipInv
      <4> QED
        BY <4>2 DEF ZipInv, ArchiveInv
    <3>2. ProbeProduced(e) \in Nat /\ ProbeProduced(e) <= MaxEntry
      BY <3>1 DEF ProbeProduced
    <3>3. produced' \in Nat /\ produced' <= MaxExpanded + MaxEntry
      BY <1>3, <2>1, <2>5, <3>2
    <3>4. CASE ~ProbeExpands(e) /\ ProbeRejects
      <4>1. result # "accepted"
        BY <2>1, <3>4, NextIsAccepted
      <4> QED
        BY <2>2, <3>3, <3>4, <4>1
    <3>5. CASE ProbeExpands(e) /\ probed' = Append(probed, e) /\ total' = total + e.size /\ UNCHANGED verdict
      <4>1. ProbeProduced(e) = e.size /\ total + e.size <= MaxExpanded
        BY <2>5, <3>1, <3>5 DEF ProbeExpands, ProbeProduced, ProbeLimits
      <4>2. total' \in 0..MaxExpanded /\ produced' = total'
        BY <1>3, <2>1, <2>5, <3>1, <3>5, <4>1
      <4>3. probed' \in Seq(Members) /\ Len(probed') = Len(probed) + 1 /\ probed'[Len(probed) + 1] = e
            /\ \A m \in 1..Len(probed) : probed'[m] = probed[m]
        BY <1>3, <3>1, <3>5
      <4>4. result = "accepted" => Len(probed') <= Len(entries) /\ \A m \in 1..Len(probed') : probed'[m] = entries[m]
        <5> SUFFICES ASSUME result = "accepted"
                     PROVE  Len(probed') <= Len(entries) /\ \A m \in 1..Len(probed') : probed'[m] = entries[m]
          OBVIOUS
        <5>1. Len(probed) + 1 \in 1..Len(entries) /\ entries[Len(probed) + 1] = e
          BY <2>1, NextIsAccepted
        <5>2. \A m \in 1..Len(probed) : probed[m] = entries[m]
          BY DEF ZipInv, ProbeInv
        <5> QED
          BY <1>3, <4>3, <5>1, <5>2
      <4>5. ProbeInv'
        BY <1>1, <2>1, <3>3, <3>5, <4>2, <4>3, <4>4 DEF ZipInv, ProbeInv
      <4>6. PICK s \in [0..Len(entries) -> Nat] : Sums(s)
        BY DEF ZipInv
      <4>7. Sums(s)'
        <5>1. result = "accepted" => total' = s[Len(probed')]
          <6> SUFFICES ASSUME result = "accepted" PROVE total' = s[Len(probed')]
            OBVIOUS
          <6>1. Len(probed) + 1 \in 1..Len(entries) /\ entries[Len(probed) + 1] = e
            BY <2>1, NextIsAccepted
          <6>2. s[Len(probed) + 1] = s[Len(probed) + 1 - 1] + e.size /\ total = s[Len(probed)]
            BY <4>6, <6>1 DEF Sums
          <6> QED
            BY <1>3, <3>5, <4>3, <6>2
        <5> QED
          BY <4>6, <5>1 DEF Sums
      <4> QED
        BY <1>1, <1>2, <4>5, <4>6, <4>7 DEF ZipInv
    <3> QED
      BY <2>5, <3>4, <3>5
  <2> QED
    BY <1>7, <2>3, <2>4, <2>5 DEF ProbeEntry
<1> QED
  BY <1>5, <1>6, <1>7

\* A step of either reader, or none.
LEMMA ArchiveKeeps == ASSUME ZipInv, [ProbeNext]_archiveVars PROVE ZipInv'
<1>1. CASE ProbeNext
  BY <1>1, ImportStepKeeps, ProbeStepKeeps DEF ProbeNext
<1>2. CASE UNCHANGED archiveVars
  <2>1. UNCHANGED vars /\ UNCHANGED probeVars
    BY <1>2 DEF archiveVars
  <2>2. Orders' = Orders /\ (\A o \in Orders : Tiles(o) => Tiles(o)') /\ Members' = Members
    BY <2>1 DEF vars, Orders, Tiles, Stops, Members
  <2>3. PICK s \in [0..Len(entries) -> Nat] : Sums(s)
    BY DEF ZipInv
  <2>4. Sums(s)'
    BY <2>1, <2>3 DEF Sums, vars, probeVars
  <2>5. ArchiveInv' /\ EntriesInv'
    BY <2>1, ReadingIsStable DEF vars, ZipInv, ArchiveInv, EntriesInv
  <2>6. ResultInv'
    BY <2>1, <2>2, ReadingIsStable DEF vars, ZipInv, ResultInv, Position
  <2>7. ProbeInv'
    BY <2>1, <2>2 DEF vars, probeVars, ZipInv, ProbeInv
  <2> QED
    BY <2>1, <2>3, <2>4, <2>5, <2>6, <2>7 DEF ZipInv, vars
<1> QED
  BY <1>1, <1>2

\* Every byte of an accepted archive belongs to one member, the directory or the end record;
\* neither reader expands more than its bound, and the probe reads whatever the import reads.
THEOREM ArchiveAccounts == MCSpec => []ArchiveIsAccounted
<1>1. ZipInv /\ [MCNext]_<<part, archiveVars, sourceVars, importVars, scanVars, framingVars, assessmentVars, gateVars>> => ZipInv'
  <2> SUFFICES ASSUME ZipInv, [MCNext]_<<part, archiveVars, sourceVars, importVars, scanVars, framingVars, assessmentVars, gateVars>>
               PROVE  ZipInv'
    OBVIOUS
  <2>1. [ProbeNext]_archiveVars
    BY DEF MCNext
  <2> QED
    BY <2>1, ArchiveKeeps
<1> QED
  BY <1>1, ArchiveStarts, ZipIsAccounted, PTL DEF MCSpec

-------------------------------------------------------------------------------
(* The source                                                              *)

Block == Files \X Nat
SourceState == [id : Files, how : Source!How, size : 0..MaxLength, mtime : 0..MaxChanges]
Path == [id : Files, how : Source!How]

\* A file's time is the number of a change at the latest, so that a write gives it a time it never had.
DiskInv ==
  /\ writes \in 0..MaxChanges /\ named \in Path \cup {Nothing}
  /\ file \in [Files -> [data : Seq(Block), mtime : 0..writes]]
  /\ \A f \in Files : Len(file[f].data) <= MaxLength

\* What the reader holds, and that it stops one block over the limit.
HeldInv ==
  /\ {pathState, before, after} \subseteq SourceState \cup {Nothing}
  /\ data \in Seq(Block) /\ Len(data) <= MaxBytes + 1 /\ (reading # "rejected" => Len(data) <= MaxBytes)
  /\ reading = "open" => pathState \in SourceState
  /\ reading \in {"lstat", "open", "before"} => data = <<>>
  /\ reading \in {"before", "read", "after", "path"} => handle \in Path
  /\ reading = "before" => pathState \in SourceState
  /\ reading \in {"read", "after", "path"} =>
       /\ before \in SourceState /\ before.id = handle.id /\ before.mtime <= file[handle.id].mtime
       /\ opened \in Seq(Block)

\* A file that still has the time it had "before" has the content it had then.
Unwritten == file[handle.id].mtime = before.mtime
VersionInv ==
  /\ reading = "read" /\ Unwritten =>
       file[handle.id].data = opened /\ Len(data) <= Len(opened) /\ data = SubSeq(opened, 1, Len(data))
  /\ reading = "after" /\ Unwritten => file[handle.id].data = opened /\ data = opened
  /\ reading = "path" =>
       /\ after \in SourceState /\ after.id = handle.id /\ after.mtime <= file[handle.id].mtime
       /\ after.mtime = before.mtime => data = opened
       /\ Unwritten => file[handle.id].data = opened
       /\ before.mtime <= after.mtime
  /\ reading = "accepted" => data = opened

SourceInv == DiskInv /\ HeldInv /\ VersionInv

\* Nothing is read yet, and no file was ever written.
LEMMA SourceStarts == Source!Init => SourceInv
<1> SUFFICES ASSUME Source!Init PROVE SourceInv
  OBVIOUS
<1> USE LimitAssumption
<1>1. PICK size \in [Files -> 0..MaxLength] :
         file = [f \in Files |-> [data |-> [n \in 1..size[f] |-> <<f, 0>>], mtime |-> 0]]
  BY DEF Source!Init
<1>2. ASSUME NEW f \in Files
      PROVE file[f].data \in Seq(Block) /\ Len(file[f].data) <= MaxLength /\ file[f].mtime = 0
            /\ file[f] = [data |-> file[f].data, mtime |-> 0]
  <2>1. file[f].data = [n \in 1..size[f] |-> <<f, 0>>] /\ file[f].mtime = 0
    BY <1>1
  <2>2. size[f] \in 0..MaxLength
    OBVIOUS
  <2>3. \A n \in 1..size[f] : <<f, 0>> \in Block
    BY DEF Block
  <2>4. [n \in 1..size[f] |-> <<f, 0>>] \in [1..size[f] -> Block]
    BY <2>3
  <2>45. \A k \in Nat : \A g \in [1..k -> Block] : g \in Seq(Block) /\ Len(g) = k
    OBVIOUS
  <2>46. size[f] \in Nat /\ size[f] <= MaxLength
    BY <2>2
  <2>5. file[f].data \in Seq(Block) /\ Len(file[f].data) <= MaxLength
    BY <2>1, <2>46, <2>4, <2>45
  <2>6. file[f] = [data |-> [n \in 1..size[f] |-> <<f, 0>>], mtime |-> 0]
    BY <1>1
  <2> QED
    BY <2>1, <2>5, <2>6
<1>3. file \in [Files -> [data : Seq(Block), mtime : 0..0]]
  <2>0. 0 \in 0..0
    OBVIOUS
  <2>1. ASSUME NEW f \in Files PROVE file[f] \in [data : Seq(Block), mtime : 0..0]
    <3>1. file[f].data \in Seq(Block) /\ file[f] = [data |-> file[f].data, mtime |-> 0]
      BY <1>2
    <3>2. \A d \in Seq(Block) : [data |-> d, mtime |-> 0] \in [data : Seq(Block), mtime : 0..0]
      BY <2>0
    <3> QED
      BY <3>1, <3>2
  <2> QED
    BY <1>1, <2>1
<1>4. DiskInv
  BY <1>2, <1>3 DEF DiskInv, Source!Init, Path, Source!How
<1>5. HeldInv /\ VersionInv
  BY DEF HeldInv, VersionInv, Source!Init
<1> QED
  BY <1>4, <1>5 DEF SourceInv

\* What is accepted has the content the file had when it was opened.
LEMMA SourceTyped == SourceInv => Source!TypeOK /\ Source!AcceptedIsOneVersion
BY DEF SourceInv, HeldInv, VersionInv, Source!TypeOK, SourceState, Source!AcceptedIsOneVersion

CurrentStep ==
  reading # "accepted" /\ reading' = "accepted" /\ identified => named.how # "link" /\ file[named.id].data = data

\* What lstat and fstat say of a file.
LEMMA StateIsTyped ==
  ASSUME SourceInv, NEW p \in Path
  PROVE  /\ Source!StateOf(p.id, p.how) \in SourceState
         /\ Source!StateOf(p.id, p.how).id = p.id /\ Source!StateOf(p.id, p.how).mtime = file[p.id].mtime
         /\ p.id \in Files
<1>1. p.id \in Files /\ p.how \in Source!How
  BY DEF Path
<1>2. file[p.id] \in [data : Seq(Block), mtime : 0..writes] /\ Len(file[p.id].data) <= MaxLength
  BY <1>1 DEF SourceInv, DiskInv
<1>3. Len(file[p.id].data) \in 0..MaxLength /\ file[p.id].mtime \in 0..MaxChanges
  BY <1>2, LimitAssumption DEF SourceInv, DiskInv
<1> QED
  BY <1>1, <1>3 DEF SourceState, Source!StateOf

\* A write gives its file a time it never had; no other file changes.
LEMMA WriteKeeps ==
  ASSUME SourceInv, NEW f \in Files, Source!Write(f), writes < MaxChanges, writes' = writes + 1,
         UNCHANGED <<identified, Source!reader>>
  PROVE  SourceInv'
<1> USE LimitAssumption
<1>0. writes \in Nat /\ file \in [Files -> [data : Seq(Block), mtime : 0..writes]] /\ file[f].data \in Seq(Block)
  BY DEF SourceInv, DiskInv
<1>1. PICK content \in {Source!ReplaceAt(file[f].data, n, <<f, writes + 1>>) : n \in DOMAIN file[f].data}
                       \cup {Append(file[f].data, <<f, writes + 1>>), <<>>} :
         /\ Len(content) <= MaxLength
         /\ file' = [file EXCEPT ![f] = [data |-> content, mtime |-> writes + 1]]
  BY DEF Source!Write
<1>2. content \in Seq(Block)
  <2>0. writes + 1 \in Nat
    BY <1>0
  <2>1. <<f, writes + 1>> \in Block
    BY <2>0 DEF Block
  <2>2. ASSUME NEW n \in DOMAIN file[f].data PROVE Source!ReplaceAt(file[f].data, n, <<f, writes + 1>>) \in Seq(Block)
    BY <1>0, <2>1 DEF Source!ReplaceAt
  <2>3. Append(file[f].data, <<f, writes + 1>>) \in Seq(Block)
    BY <1>0, <2>1
  <2> QED
    <3>1. CASE content \in {Source!ReplaceAt(file[f].data, n, <<f, writes + 1>>) : n \in DOMAIN file[f].data}
      BY <2>2, <3>1
    <3>2. CASE content = Append(file[f].data, <<f, writes + 1>>)
      BY <2>3, <3>2
    <3>3. CASE content = <<>>
      BY <3>3
    <3> QED
      BY <1>1, <3>1, <3>2, <3>3
<1>3. /\ \A g \in Files : g # f => file'[g] = file[g]
      /\ file'[f] = [data |-> content, mtime |-> writes + 1] /\ DOMAIN file' = Files
  BY <1>0, <1>1
<1>4. \A g \in Files : file'[g] \in [data : Seq(Block), mtime : 0..(writes + 1)] /\ Len(file'[g].data) <= MaxLength
  BY <1>0, <1>1, <1>2, <1>3 DEF SourceInv, DiskInv
<1>5. DiskInv'
  <2>1. file' \in [Files -> [data : Seq(Block), mtime : 0..writes']]
    BY <1>1, <1>4, <1>0
  <2> QED
    BY <1>0, <1>4, <2>1 DEF SourceInv, DiskInv, Source!Write, Path
<1>6. \A g \in Files : file[g].mtime \in Nat /\ file'[g].mtime \in Nat /\ file[g].mtime <= writes
                       /\ ((file'[g].mtime = file[g].mtime /\ file'[g] = file[g]) \/ file'[g].mtime > writes)
  BY <1>0, <1>3
<1>7. UNCHANGED <<reading, pathState, before, after, handle, data, opened>>
  BY DEF Source!reader
<1>8. reading \in {"before", "read", "after", "path"} => handle \in Path /\ handle.id \in Files
  BY DEF SourceInv, HeldInv, Path
<1>80. writes \in Nat
  BY <1>0
<1>81. reading \in {"read", "after", "path"} => before.mtime \in Nat /\ before.mtime <= file[handle.id].mtime
  BY DEF SourceInv, HeldInv, SourceState
<1>82. reading = "path" => after.mtime \in Nat /\ after.mtime <= file[handle.id].mtime
  BY DEF SourceInv, HeldInv, VersionInv, SourceState
<1>83. reading \in {"read", "after", "path"} =>
         /\ file'[handle.id].mtime \in Nat /\ file[handle.id].mtime \in Nat /\ file[handle.id].mtime <= writes
         /\ (file'[handle.id].mtime = file[handle.id].mtime /\ file'[handle.id] = file[handle.id]) \/ file'[handle.id].mtime > writes
  BY <1>6, <1>8
<1>9. HeldInv'
  <2>1. reading \in {"read", "after", "path"} => before.mtime <= file'[handle.id].mtime
    BY <1>80, <1>81, <1>83
  <2> QED
    BY <1>7, <2>1 DEF SourceInv, HeldInv
<1>10. VersionInv'
  <2>1. reading \in {"read", "after", "path"} =>
          (file'[handle.id].mtime = before.mtime => Unwritten /\ file'[handle.id] = file[handle.id])
    BY <1>80, <1>81, <1>83 DEF Unwritten
  <2>2. reading = "path" => after.mtime <= file'[handle.id].mtime
    BY <1>80, <1>82, <1>83, SMTT(30)
  <2> QED
    BY <1>7, <1>8, <2>1, <2>2 DEF SourceInv, VersionInv, Unwritten
<1> QED
  BY <1>5, <1>9, <1>10 DEF SourceInv

\* A prefix followed by what comes after it up to some place is the longer prefix.
LEMMA PrefixGrows ==
  ASSUME NEW S, NEW s \in Seq(S), NEW k \in Nat, NEW l \in Nat, k <= l, l <= Len(s)
  PROVE  SubSeq(s, 1, k) \o SubSeq(s, k + 1, l) = SubSeq(s, 1, l)
<1> DEFINE a == SubSeq(s, 1, k)
           b == SubSeq(s, k + 1, l)
<1>1. a \in Seq(S) /\ Len(a) = k /\ \A i \in 1..k : a[i] = s[i]
  OBVIOUS
<1>2. b \in Seq(S) /\ Len(b) = l - k /\ \A i \in 1..(l - k) : b[i] = s[k + i]
  OBVIOUS
<1> HIDE DEF a, b
<1>3. a \o b \in Seq(S) /\ Len(a \o b) = l
  <2>1. a \o b \in Seq(S) /\ Len(a \o b) = Len(a) + Len(b)
    <3> HIDE DEF a, b
    <3>1. a \in Seq(S) /\ b \in Seq(S)
      BY <1>1, <1>2, Zenon
    <3> QED
      BY ONLY <3>1, ConcatProperties, ZenonT(30)
  <2>2. k + (l - k) = l
    OBVIOUS
  <2> QED
    BY <1>1, <1>2, <2>1, <2>2
<1>4. ASSUME NEW i \in 1..l PROVE (a \o b)[i] = s[i]
  <2>1. CASE i <= k
    <3>1. i \in 1..Len(a) /\ (a \o b)[i] = a[i]
      BY <1>1, <1>2, <1>4, <2>1, ConcatProperties
    <3> QED
      BY <1>1, <1>4, <2>1, <3>1
  <2>2. CASE ~(i <= k)
    <3>1. i - k \in 1..(l - k) /\ k + (i - k) = i /\ ~(i <= k) /\ i \in 1..(k + (l - k))
      BY <1>4, <2>2
    <3>2. (a \o b)[i] = b[i - k]
      BY <1>1, <1>2, <3>1, ConcatProperties
    <3> QED
      BY <1>2, <3>1, <3>2
  <2> QED
    BY <2>1, <2>2
<1>5. SubSeq(s, 1, l) \in Seq(S) /\ Len(SubSeq(s, 1, l)) = l /\ \A i \in 1..l : SubSeq(s, 1, l)[i] = s[i]
  OBVIOUS
<1> QED
  BY <1>3, <1>4, <1>5 DEF a, b

\* One read takes the next blocks of the opened file.
LEMMA ReadKeeps == ASSUME SourceInv, Source!Read PROVE SourceInv'
<1> USE LimitAssumption
<1> DEFINE content == file[handle.id].data
           got   == Len(data)
<1>1. /\ reading = "read" /\ handle \in Path /\ handle.id \in Files /\ content \in Seq(Block) /\ data \in Seq(Block)
      /\ got \in Nat /\ got <= MaxBytes
      /\ UNCHANGED <<identified, file, named, writes, pathState, before, after, opened>>
  BY DEF Source!Read, Source!disk, SourceInv, HeldInv, DiskInv, Path
<1>2. CASE Len(content) <= got /\ reading' = "after" /\ UNCHANGED <<data, handle>>
  <2>1. Unwritten => data = opened
    <3> SUFFICES ASSUME Unwritten PROVE data = opened
      OBVIOUS
    <3>1. content = opened /\ got <= Len(opened) /\ data = SubSeq(opened, 1, got) /\ opened \in Seq(Block)
      BY <1>1 DEF SourceInv, HeldInv, VersionInv
    <3>2. got = Len(opened)
      BY <1>1, <1>2, <3>1
    <3> QED
      BY <3>1, <3>2
  <2> QED
    BY <1>1, <1>2, <2>1 DEF SourceInv, DiskInv, HeldInv, VersionInv, Unwritten
<1>3. ASSUME NEW n \in 1..Source!BufferSize(got), got + n <= Len(content),
             data' = data \o SubSeq(content, got + 1, got + n),
             IF got + n > MaxBytes THEN Source!End("rejected") ELSE UNCHANGED <<reading, handle>>
      PROVE  SourceInv'
  <2>1. n \in Nat /\ n >= 1 /\ got + n <= MaxBytes + 1
    BY <1>1 DEF Source!BufferSize
  <2>2. SubSeq(content, got + 1, got + n) \in Seq(Block) /\ Len(SubSeq(content, got + 1, got + n)) = n
    BY <1>1, <1>3, <2>1, SMTT(30)
  <2>3. data' \in Seq(Block) /\ Len(data') = got + n
    BY <1>1, <1>3, <2>1, <2>2
  <2>4. CASE got + n > MaxBytes
    BY <1>1, <1>3, <2>1, <2>3, <2>4 DEF Source!End, SourceInv, DiskInv, HeldInv, VersionInv
  <2>5. CASE ~(got + n > MaxBytes)
    <3>1. Unwritten => Len(data') <= Len(opened) /\ data' = SubSeq(opened, 1, Len(data'))
      <4> SUFFICES ASSUME Unwritten PROVE Len(data') <= Len(opened) /\ data' = SubSeq(opened, 1, Len(data'))
        OBVIOUS
      <4>1. content = opened /\ got <= Len(opened) /\ data = SubSeq(opened, 1, got) /\ opened \in Seq(Block)
        BY <1>1 DEF SourceInv, HeldInv, VersionInv
      <4>2. data \o SubSeq(opened, got + 1, got + n) = SubSeq(opened, 1, got + n)
        <5>2. got \in Nat /\ got + n \in Nat /\ got <= got + n /\ got + n <= Len(opened)
          BY <1>1, <1>3, <2>1, <4>1, SMTT(30)
        <5> HIDE DEF got, content
        <5> QED
          BY <4>1, <5>2, PrefixGrows
      <4> QED
        BY <1>3, <2>3, <4>1, <4>2
    <3> QED
      BY <1>1, <1>3, <2>1, <2>3, <2>5, <3>1, SMTT(30) DEF SourceInv, DiskInv, HeldInv, VersionInv, Unwritten
  <2> QED
    BY <2>4, <2>5
<1> QED
  BY <1>2, <1>3 DEF Source!Read

\* Each step of the reader or of a writer; only a file the path still names is accepted.
LEMMA SourceKeeps == ASSUME SourceInv, [Source!Next]_sourceVars PROVE SourceInv' /\ [CurrentStep]_sourceVars
<1> USE LimitAssumption
<1>1. CASE Source!CallFails
  BY <1>1 DEF Source!CallFails, Source!End, Source!disk, SourceInv, DiskInv, HeldInv, VersionInv, CurrentStep
<1>2. CASE Source!ExaminePath
  <2>1. named \in Path /\ Source!StateOf(named.id, named.how) \in SourceState
    BY <1>2, StateIsTyped DEF Source!ExaminePath, SourceInv, DiskInv
  <2> QED
    BY <1>2, <2>1 DEF Source!ExaminePath, Source!End, Source!disk, SourceInv, DiskInv, HeldInv, VersionInv, CurrentStep
<1>3. CASE Source!Open
  <2>1. named \in Path /\ handle' \in Path
    BY <1>3 DEF Source!Open, SourceInv, DiskInv, Path, Source!How
  <2> QED
    BY <1>3, <2>1 DEF Source!Open, Source!disk, SourceInv, DiskInv, HeldInv, VersionInv, CurrentStep
<1>4. CASE Source!ExamineBefore
  <2>1. handle \in Path /\ before' \in SourceState /\ before'.id = handle.id /\ before'.mtime = file[handle.id].mtime
        /\ handle.id \in Files
    BY <1>4, StateIsTyped DEF Source!ExamineBefore, SourceInv, HeldInv
  <2>2. file[handle.id].data \in Seq(Block) /\ file[handle.id].mtime \in Nat
    BY <2>1 DEF SourceInv, DiskInv
  <2>3. data = <<>> /\ SubSeq(file[handle.id].data, 1, 0) = <<>>
    BY <1>4, <2>2 DEF Source!ExamineBefore, SourceInv, HeldInv
  <2> QED
    BY <1>4, <2>1, <2>2, <2>3
    DEF Source!ExamineBefore, Source!End, Source!disk, SourceInv, DiskInv, HeldInv, VersionInv, CurrentStep, Unwritten
<1>5. CASE Source!Read
  BY <1>5, ReadKeeps DEF Source!Read, Source!End, CurrentStep
<1>6. CASE Source!ExamineAfter
  <2>1. handle \in Path /\ after' \in SourceState /\ after'.id = handle.id /\ after'.mtime = file[handle.id].mtime
        /\ handle.id \in Files
    BY <1>6, StateIsTyped DEF Source!ExamineAfter, SourceInv, HeldInv
  <2>2. file[handle.id].mtime \in Nat
    BY <2>1 DEF SourceInv, DiskInv
  <2> QED
    BY <1>6, <2>1, <2>2 DEF Source!ExamineAfter, Source!disk, SourceInv, DiskInv, HeldInv, VersionInv, CurrentStep, Unwritten
<1>7. CASE Source!Compare
  <2>1. named \in Path /\ named.id \in Files /\ Source!StateOf(named.id, named.how).id = named.id
        /\ Source!StateOf(named.id, named.how).mtime = file[named.id].mtime
        /\ Source!StateOf(named.id, named.how).how = named.how
    BY <1>7, StateIsTyped DEF Source!Compare, SourceInv, DiskInv, Source!StateOf
  <2>2. reading = "path" /\ UNCHANGED <<identified, file, named, writes, pathState, before, after, data, opened>>
        /\ reading' \in {"accepted", "rejected"}
        /\ (reading' = "accepted" => Source!Unchanged(Source!StateOf(named.id, named.how)))
    BY <1>7 DEF Source!Compare, Source!End, Source!disk
  <2>3. Source!Unchanged(Source!StateOf(named.id, named.how)) =>
          /\ after.mtime = before.mtime /\ file[named.id].mtime = after.mtime /\ named.how # "link"
          /\ identified => named.id = after.id
    BY <2>1 DEF Source!Unchanged, Source!SameFile
  <2>4. CurrentStep /\ (reading' = "accepted" => data = opened)
    BY <2>2, <2>3 DEF CurrentStep, SourceInv, VersionInv, Unwritten
  <2> QED
    BY <2>2, <2>4 DEF SourceInv, DiskInv, HeldInv, VersionInv
<1>8. CASE Source!Change
  <2>1. CASE Source!Move
    BY <1>8, <2>1 DEF Source!Change, Source!Move, Source!reader, SourceInv, DiskInv, HeldInv, VersionInv, Unwritten, Path, CurrentStep
  <2>2. ASSUME NEW f \in Files, Source!Write(f) PROVE SourceInv' /\ CurrentStep
    BY <1>8, <2>2, WriteKeeps DEF Source!Change, Source!reader, CurrentStep
  <2> QED
    BY <1>8, <2>1, <2>2 DEF Source!Change
<1>9. CASE UNCHANGED sourceVars
  BY <1>9 DEF sourceVars, SourceInv, DiskInv, HeldInv, VersionInv, Unwritten
<1> QED
  BY <1>1, <1>2, <1>3, <1>4, <1>5, <1>6, <1>7, <1>8, <1>9 DEF Source!Next

\* The import reads one version of one file within the limit, whoever writes to it meanwhile,
\* and the path still names it where files can be identified.
THEOREM SourceIsOne == MCSpec => SourceIsOneVersion
<1>1. MCInit => SourceInv
  BY SourceStarts DEF MCInit
<1>2. ASSUME SourceInv, [MCNext]_<<part, archiveVars, sourceVars, importVars, scanVars, framingVars, assessmentVars, gateVars>>
      PROVE  SourceInv' /\ [CurrentStep]_sourceVars
  <2>1. [Source!Next]_sourceVars
    BY <1>2 DEF MCNext
  <2> QED
    BY <1>2, <2>1, SourceKeeps
<1>3. [CurrentStep]_sourceVars
      => [reading # "accepted" /\ reading' = "accepted" /\ identified
           => named.how # "link" /\ file[named.id].data = data]_(Source!vars)
  BY DEF sourceVars, Source!vars, Source!disk, Source!reader, CurrentStep
<1> QED
  BY <1>1, <1>2, <1>3, SourceTyped, PTL DEF MCSpec, SourceIsOneVersion, Source!AcceptedIsCurrent

-------------------------------------------------------------------------------
(* The import command                                                      *)

\* The stages before importAuditPackage has resolved.
Unresolved ==
  {"arguments", "validator", "assessment", "read", "detect", "parse", "normalize", "validate", "finalize"}

\* Nothing was returned, printed or found wrong before the import resolved; nothing was
\* printed before the command ended.
StageInv ==
  /\ pc \in Unresolved => outcome = Import!None /\ cause = "none"
  /\ pc # "done" => exit = -1 /\ shown = "none"
  /\ pc \in {"arguments", "validator", "assessment", "read", "detect", "parse", "normalize"} => judged = <<>>

\* From the parser on, every value is the source's and those judged are the first of them.
ValuesInv ==
  pc \in {"normalize", "validate", "finalize"} =>
    /\ records \in Seq(Import!Record) /\ values = [n \in 1..Len(records) |-> "own"]
    /\ judged \in Seq({"own"}) /\ Len(judged) <= Len(records)
    /\ pc # "normalize" => Import!Normalized
    /\ pc = "finalize" => Len(judged) = Len(records)

\* What the import resolved to.
OutcomeInv ==
  /\ outcome.status \in {"none", "Accepted", "Rejected"}
  /\ pc = "imported" => outcome.status # "none"
  /\ outcome.status = "none" => outcome = Import!None
  /\ outcome.status = "Rejected" => cause # "none" /\ outcome.objects = <<>> /\ outcome.claim = FALSE
  /\ outcome.status = "Accepted" =>
       /\ pc = "imported" => cause = "none"
       /\ records \in Seq(Import!Record) /\ values = [n \in 1..Len(records) |-> "own"]
       /\ judged \in Seq({"own"}) /\ Len(judged) = Len(records)
       /\ \A n \in DOMAIN records : records[n].seal # "bad"
       /\ Import!Standalone => Import!Unique
       /\ outcome.objects = (IF Import!Given("assess") THEN values ELSE <<>>) /\ outcome.claim = TRUE

ImportInv == StageInv /\ ValuesInv /\ OutcomeInv /\ Import!ValuesStayPrivate /\ Import!ExitIsTrue

\* The command begins with nothing read, judged or printed.
LEMMA ImportStarts == Import!Init => ImportInv
BY DEF Import!Init, ImportInv, StageInv, ValuesInv, OutcomeInv, Import!ValuesStayPrivate, Import!ExitIsTrue, Import!None, Unresolved

\* What was accepted is what the judgement went over.
LEMMA ImportIsJudged == ImportInv => Import!AcceptedIsJudged
<1> SUFFICES ASSUME ImportInv, outcome.status = "Accepted" PROVE Import!AcceptedIsJudged
  BY DEF Import!AcceptedIsJudged
<1> USE DEF ImportInv, OutcomeInv
<1>1. DOMAIN records = 1..Len(records) /\ Len(judged) = Len(records) /\ DOMAIN judged = 1..Len(records)
  OBVIOUS
<1>2. \A n \in DOMAIN records : values[n] = judged[n] /\ judged[n] = "own" /\ records[n].seal # "bad"
  BY <1>1
<1>3. values = judged
  BY <1>1, <1>2
<1> QED
  BY <1>1, <1>2, <1>3 DEF Import!AcceptedIsJudged, Import!Standalone, Import!Unique

\* An exception that ends the import leaves a rejected result with its cause.
LEMMA StopKeeps ==
  ASSUME ImportInv, NEW k, NEW why \in {"internal", "source", "format", "text", "normalize", "schema", "integrity"},
         Import!Stop(k, why), pc \in Unresolved
  PROVE  ImportInv'
BY DEF ImportInv, StageInv, ValuesInv, OutcomeInv, Import!ValuesStayPrivate, Import!ExitIsTrue, Import!None, Unresolved,
  Import!Stop, Import!Accepts

\* Each stage of the command.
LEMMA ImportKeeps == ImportInv /\ [Import!Next]_importVars => ImportInv'
<1> SUFFICES ASSUME ImportInv, [Import!Next]_importVars PROVE ImportInv'
  OBVIOUS
<1> DEFINE Inv == ImportInv
<1> USE DEF Unresolved
<1>1. CASE Import!Arguments
  <2> PICK c : /\ command' = c
               /\ CASE ~Import!Accepts(c) -> Import!Exit(64, "failure")
                    [] Import!Accepts(c) /\ "help" \in c.names -> Import!Exit(0, "help")
                    [] OTHER -> pc' = "validator" /\ UNCHANGED <<exit, shown>>
    BY <1>1 DEF Import!Arguments
  <2>1. pc = "arguments" /\ UNCHANGED <<kind, records, values, judged, cause, outcome>>
    BY <1>1 DEF Import!Arguments, Import!import
  <2>2. Import!Accepts(command)' <=> Import!Accepts(c)
    BY DEF Import!Accepts
  <2> QED
    BY <2>1, <2>2 DEF Import!Exit, ImportInv, StageInv, ValuesInv, OutcomeInv, Import!ValuesStayPrivate, Import!ExitIsTrue, Import!None
<1>2. CASE Import!LoadValidator \/ Import!LoadAssessment
  BY <1>2 DEF Import!LoadValidator, Import!LoadAssessment, Import!Exit, Import!import, ImportInv, StageInv, ValuesInv, OutcomeInv,
    Import!ValuesStayPrivate, Import!ExitIsTrue, Import!None, Import!Accepts
<1>3. CASE Import!Throws
  BY <1>3, StopKeeps DEF Import!Throws
<1>4. CASE Import!ReadSource
  <2>1. CASE Import!Stop(kind, "source")
    BY <1>4, <2>1, StopKeeps DEF Import!ReadSource
  <2>2. CASE ~Import!Stop(kind, "source")
    BY <2>2, <1>4 DEF Import!ReadSource, Import!import, ImportInv, StageInv, ValuesInv, OutcomeInv,
      Import!ValuesStayPrivate, Import!ExitIsTrue, Import!None, Import!Accepts
  <2> QED
    BY <2>1, <2>2
<1>5. CASE Import!Detect
  <2>1. CASE Import!Stop("none", "format")
    BY <1>5, <2>1, StopKeeps DEF Import!Detect
  <2>2. CASE ~Import!Stop("none", "format")
    BY <2>2, <1>5 DEF Import!Detect, Import!import, ImportInv, StageInv, ValuesInv, OutcomeInv,
      Import!ValuesStayPrivate, Import!ExitIsTrue, Import!None, Import!Accepts
  <2> QED
    BY <2>1, <2>2
<1>6. CASE Import!Parse
  <2>1. CASE Import!Stop(kind, "text")
    BY <1>6, <2>1, StopKeeps DEF Import!Parse
  <2>2. ASSUME ~Import!Stop(kind, "text") PROVE ImportInv'
    <3> PICK n \in 1..MaxRecords : \E recs \in [1..n -> Import!Record] :
          /\ records' = recs /\ values' = [i \in 1..n |-> "own"] /\ pc' = "normalize"
          /\ UNCHANGED <<command, kind, judged, cause, outcome, exit, shown>>
      BY <1>6, <2>2 DEF Import!Parse
    <3>1. n \in Nat
      OBVIOUS
    <3>2. records' \in Seq(Import!Record) /\ Len(records') = n
      BY <3>1
    <3> QED
      BY <1>6, <3>1, <3>2 DEF Import!Parse, ImportInv, StageInv, ValuesInv, OutcomeInv,
        Import!ValuesStayPrivate, Import!ExitIsTrue, Import!None, Import!Accepts
  <2> QED
    BY <2>1, <2>2
<1>7. CASE Import!Normalize
  <2>1. CASE Import!Stop(kind, "normalize")
    BY <1>7, <2>1, StopKeeps DEF Import!Normalize
  <2>2. ASSUME ~Import!Stop(kind, "normalize") PROVE ImportInv'
    <3>1. /\ pc = "normalize" /\ Import!Normalized /\ pc' = "validate"
          /\ UNCHANGED <<command, values, judged, cause, outcome, exit, shown, kind, records>>
      BY <1>7, <2>2 DEF Import!Normalize
    <3>2. Import!Normalized'
      BY <3>1 DEF Import!Normalized, Import!Unique, Import!Standalone, Import!Identity
    <3>3. ValuesInv'
      BY <3>1, <3>2 DEF ImportInv, StageInv, ValuesInv
    <3> QED
      BY <3>1, <3>3 DEF ImportInv, StageInv, OutcomeInv, Import!ValuesStayPrivate, Import!ExitIsTrue, Import!None, Import!Accepts
  <2> QED
    BY <2>1, <2>2
<1>8. CASE Import!Validate
  <2>1. CASE Import!Stop(kind, "schema")
    BY <1>8, <2>1, StopKeeps DEF Import!Validate
  <2>2. CASE Len(judged) + 1 > Len(records) /\ ~Import!Stop(kind, "schema")
    BY <1>8, <2>2 DEF Import!Validate, Import!Normalized, Import!Unique, Import!Standalone, Import!Identity,
      ImportInv, StageInv, ValuesInv, OutcomeInv, Import!ValuesStayPrivate, Import!ExitIsTrue, Import!None, Import!Accepts
  <2>3. CASE ~(Len(judged) + 1 > Len(records)) /\ ~Import!Stop(kind, "schema")
    <3>1. /\ pc = "validate" /\ judged' = Append(judged, values[Len(judged) + 1])
          /\ values' = [values EXCEPT ![Len(judged) + 1] = @]
          /\ UNCHANGED <<command, pc, cause, outcome, exit, shown, kind, records>>
      BY <1>8, <2>3 DEF Import!Validate, Import!After
    <3>2. judged \in Seq({"own"}) /\ records \in Seq(Import!Record) /\ values = [n \in 1..Len(records) |-> "own"]
      BY <3>1 DEF ImportInv, ValuesInv
    <3>3. values' = values
      BY <3>1, <3>2
    <3>4. values[Len(judged) + 1] = "own"
      BY <2>3, <3>2
    <3>5. judged' \in Seq({"own"}) /\ Len(judged') = Len(judged) + 1
      BY <3>1, <3>2, <3>4
    <3>6. Len(judged') <= Len(records)
      BY <2>3, <3>2, <3>5
    <3>7. ValuesInv'
      BY <3>1, <3>2, <3>3, <3>5, <3>6 DEF Import!Normalized, Import!Unique, Import!Standalone, Import!Identity, ImportInv, ValuesInv
    <3> QED
      BY <3>1, <3>7 DEF ImportInv, StageInv, OutcomeInv, Import!ValuesStayPrivate, Import!ExitIsTrue, Import!None, Import!Accepts
  <2> QED
    BY <2>1, <2>2, <2>3
<1>9. CASE Import!Finalize
  <2>1. CASE Import!Stop(kind, "integrity")
    BY <1>9, <2>1, StopKeeps DEF Import!Finalize
  <2>2. ASSUME ~Import!Stop(kind, "integrity") PROVE ImportInv'
    <3>1. /\ pc = "finalize" /\ Import!Verified /\ pc' = "imported"
          /\ outcome' = [status |-> "Accepted", kind |-> kind, claim |-> TRUE,
                         objects |-> IF Import!Privacy = "Private" THEN values ELSE <<>>]
          /\ UNCHANGED <<command, values, judged, cause, exit, shown, kind, records>>
      BY <1>9, <2>2 DEF Import!Finalize
    <3>2. Import!Privacy = "Private" <=> Import!Given("assess")
      BY DEF Import!Privacy
    <3>3. \A n \in DOMAIN records : records[n].seal # "bad"
      BY <3>1 DEF Import!Verified, Import!Intact
    <3>4. Import!Standalone => Import!Unique
      BY <3>1 DEF ImportInv, ValuesInv, Import!Normalized
    <3>5. (Import!Standalone => Import!Unique)' /\ (Import!Given("assess")' <=> Import!Given("assess"))
      BY <3>1, <3>4 DEF Import!Unique, Import!Standalone, Import!Identity, Import!Given
    <3>6. OutcomeInv'
      BY <3>1, <3>2, <3>3, <3>5 DEF ImportInv, StageInv, ValuesInv, OutcomeInv
    <3> QED
      BY <3>1, <3>6 DEF ImportInv, StageInv, ValuesInv, Import!ValuesStayPrivate, Import!ExitIsTrue, Import!None, Import!Accepts
  <2> QED
    BY <2>1, <2>2
<1>10. CASE Import!Assess
  BY <1>10 DEF Import!Assess, Import!Assessed, Import!Exit, Import!Given, Import!import, Import!Unique, Import!Standalone, Import!Identity,
    ImportInv, StageInv, ValuesInv, OutcomeInv, Import!ValuesStayPrivate, Import!ExitIsTrue, Import!None, Import!Accepts
<1>11. CASE Import!Show
  BY <1>11 DEF Import!Show, Import!Assessed, Import!Exit, Import!ExitOf, Import!Rendered, Import!Given, Import!import, Import!Unique, Import!Standalone, Import!Identity,
    ImportInv, StageInv, ValuesInv, OutcomeInv, Import!ValuesStayPrivate, Import!ExitIsTrue, Import!None, Import!Accepts
<1>12. CASE UNCHANGED importVars
  BY <1>12 DEF importVars, Import!Given, Import!Unique, Import!Standalone, Import!Identity, Import!Normalized,
    ImportInv, StageInv, ValuesInv, OutcomeInv, Import!ValuesStayPrivate, Import!ExitIsTrue, Import!None, Import!Accepts
<1> QED
  BY <1>1, <1>2, <1>3, <1>4, <1>5, <1>6, <1>7, <1>8, <1>9, <1>10, <1>11, <1>12 DEF Import!Next

\* What the import command accepts, prints and returns comes from what was judged; values
\* leave it only as the report of an assessment that was asked for and succeeded.
THEOREM ImportShowsTheJudged == MCSpec => []OnlyJudgedIsShown
<1>1. ImportInv /\ [MCNext]_<<part, archiveVars, sourceVars, importVars, scanVars, framingVars, assessmentVars, gateVars>> => ImportInv'
  BY ImportKeeps DEF MCNext
<1>2. ImportInv => OnlyJudgedIsShown
  BY ImportIsJudged DEF OnlyJudgedIsShown, ImportInv
<1>3. MCInit => ImportInv
  BY ImportStarts DEF MCInit
<1> QED
  BY <1>1, <1>2, <1>3, PTL DEF MCSpec

-------------------------------------------------------------------------------
(* The scans of a text                                                     *)

Expects ==
  {"root", "value", "firstItem", "firstKey", "key", "colon", "next", "done", "text", "escaped", "hex", "error"}
Parser == [expect : Expects, stack : Seq(Scan!Opens), key : BOOLEAN, hex : 0..3]

\* Where the parser expects what only a container can hold, one is open; at the root, and at
\* the end, none is.
Placed(p) ==
  /\ p.expect \in {"root", "done"} => p.stack = <<>>
  /\ p.expect = "root" => p = Scan!Fresh
  /\ p.expect \in {"firstKey", "firstItem", "key", "colon", "next", "value"} => p.stack # <<>>
  /\ Scan!InText(p) /\ p.key => p.stack # <<>>
Parsed(p) == p \in Parser /\ Placed(p)

\* What a scan says of the parser.
Marks(t, p) == t.depth = Len(p.stack) /\ t.in = Scan!InText(p) /\ t.escaped = (p.expect = "escaped")

ScanMarks  == [depth : Int, in : BOOLEAN, escaped : BOOLEAN]
SplitMarks == [depth : Int, in : BOOLEAN, escaped : BOOLEAN, within : BOOLEAN, failed : BOOLEAN]

\* A parser that failed expects nothing and has nothing open.
LEMMA FailedIsParsed == Parsed(Scan!Failed) /\ Scan!Failed.expect = "error"
<1>1. Scan!Fresh \in Parser /\ Scan!Fresh.stack = <<>>
  BY DEF Scan!Fresh, Parser, Expects
<1>2. Scan!Failed \in Parser /\ Scan!Failed.expect = "error" /\ Scan!Failed.stack = <<>>
  BY <1>1 DEF Scan!Failed, Parser, Expects
<1> QED
  BY <1>1, <1>2 DEF Parsed, Placed, Scan!InText

\* A new parser is at its root.
LEMMA FreshIsParsed == Parsed(Scan!Fresh) /\ Scan!Fresh.expect = "root" /\ Scan!Fresh.stack = <<>>
BY DEF Scan!Fresh, Parsed, Placed, Parser, Expects, Scan!InText

\* One more container is open.
LEMMA OpenedIs ==
  ASSUME NEW p \in Parser, NEW c \in Scan!Opens
  PROVE  LET q == Scan!Opened(p, c)
         IN  /\ q \in Parser /\ Parsed(q) /\ q.expect \in {"firstKey", "firstItem"} /\ Len(q.stack) = Len(p.stack) + 1
             /\ q.stack # <<>>
<1> DEFINE q == Scan!Opened(p, c)
<1>0. p.stack \in Seq(Scan!Opens)
  BY DEF Parser
<1>1. /\ Append(p.stack, c) \in Seq(Scan!Opens) /\ Len(Append(p.stack, c)) = Len(p.stack) + 1
      /\ Append(p.stack, c) # <<>>
  BY <1>0
<1>2. /\ q = [p EXCEPT !.stack = Append(p.stack, c), !.expect = IF c = "brace" THEN "firstKey" ELSE "firstItem"]
  BY DEF Scan!Opened
<1>3. q \in Parser /\ q.stack = Append(p.stack, c) /\ q.expect \in {"firstKey", "firstItem"}
  BY <1>1, <1>2 DEF Parser, Expects
<1> QED
  BY <1>1, <1>3 DEF Parsed, Placed, Scan!InText

\* A value that ended leaves the stack as it is.
LEMMA ValuedIs ==
  ASSUME NEW p \in Parser
  PROVE  LET q == Scan!Valued(p)
         IN  /\ q \in Parser /\ Parsed(q) /\ q.stack = p.stack
             /\ q.expect = IF p.stack = <<>> THEN "done" ELSE "next"
<1> DEFINE q == Scan!Valued(p)
<1>1. q = [p EXCEPT !.expect = IF p.stack = <<>> THEN "done" ELSE "next"]
  BY DEF Scan!Valued
<1>2. q \in Parser /\ q.stack = p.stack /\ q.expect = IF p.stack = <<>> THEN "done" ELSE "next"
  BY <1>1 DEF Parser, Expects
<1> QED
  BY <1>2 DEF Parsed, Placed, Scan!InText

\* One container less is open.
LEMMA ClosedIs ==
  ASSUME NEW p \in Parser, p.stack # <<>>
  PROVE  LET q == Scan!Closed(p)
         IN  /\ q \in Parser /\ Parsed(q) /\ Len(q.stack) = Len(p.stack) - 1
             /\ q.expect = IF Len(p.stack) = 1 THEN "done" ELSE "next"
<1> DEFINE r == [p EXCEPT !.stack = SubSeq(p.stack, 1, Len(p.stack) - 1)]
<1>0. p.stack \in Seq(Scan!Opens)
  BY DEF Parser
<1>1. p.stack \in Seq(Scan!Opens) /\ Len(p.stack) \in Nat /\ Len(p.stack) >= 1
  BY <1>0, EmptySeq
<1>2. /\ SubSeq(p.stack, 1, Len(p.stack) - 1) \in Seq(Scan!Opens)
      /\ Len(SubSeq(p.stack, 1, Len(p.stack) - 1)) = Len(p.stack) - 1
  <2>1. ASSUME NEW s \in Seq(Scan!Opens), NEW k \in Nat, k <= Len(s)
        PROVE  SubSeq(s, 1, k) \in Seq(Scan!Opens) /\ Len(SubSeq(s, 1, k)) = k
    BY <2>1, SubSeqProperties
  <2>2. Len(p.stack) - 1 \in Nat /\ Len(p.stack) - 1 <= Len(p.stack)
    BY <1>1
  <2> QED
    BY <1>1, <2>1, <2>2
<1>3. r \in Parser /\ r.stack = SubSeq(p.stack, 1, Len(p.stack) - 1)
  BY <1>2 DEF Parser
<1>4. Scan!Closed(p) = Scan!Valued(r)
  BY DEF Scan!Closed
<1>5. r.stack = <<>> <=> Len(p.stack) = 1
  <2> HIDE DEF r
  <2>1. Len(r.stack) = Len(p.stack) - 1 /\ r.stack \in Seq(Scan!Opens)
    BY <1>2, <1>3
  <2>2. r.stack = <<>> <=> Len(r.stack) = 0
    BY <2>1, EmptySeq
  <2> QED
    BY <1>1, <2>1, <2>2
<1> HIDE DEF r
<1> QED
  BY <1>2, <1>3, <1>4, <1>5, ValuedIs

\* The fields of a scan after one character.
LEMMA MarkIs ==
  ASSUME NEW t \in ScanMarks \cup SplitMarks, NEW c \in Scan!Chars
  PROVE  LET u == Scan!Mark(t, c)
         IN  /\ t \in ScanMarks => u \in ScanMarks
             /\ t \in SplitMarks => u \in SplitMarks /\ u.within = t.within /\ u.failed = t.failed
             /\ u.depth = IF t.in THEN t.depth
                          ELSE IF c \in Scan!Opens THEN t.depth + 1 ELSE IF c \in Scan!Closes THEN t.depth - 1 ELSE t.depth
             /\ u.in = IF t.in THEN t.escaped \/ c # "quote" ELSE c = "quote"
             /\ u.escaped = IF t.in THEN ~t.escaped /\ c = "escape" ELSE t.escaped
<1> DEFINE u == Scan!Mark(t, c)
<1> USE DEF Scan!Opens, Scan!Closes
<1>0. t.depth \in Int /\ t.depth + 1 \in Int /\ t.depth - 1 \in Int
  BY DEF ScanMarks, SplitMarks
<1>1. CASE t.in /\ t.escaped
  <2>1. u = [t EXCEPT !.escaped = FALSE]
    BY <1>1 DEF Scan!Mark
  <2> QED
    BY <1>1, <2>1 DEF ScanMarks, SplitMarks
<1>2. CASE t.in /\ ~t.escaped
  <2>1. u = [t EXCEPT !.escaped = (c = "escape"), !.in = (c # "quote")]
    BY <1>2 DEF Scan!Mark
  <2> QED
    BY <1>2, <2>1 DEF ScanMarks, SplitMarks
<1>3. CASE ~t.in /\ c = "quote"
  <2>1. u = [t EXCEPT !.in = TRUE]
    BY <1>3 DEF Scan!Mark
  <2> QED
    BY <1>3, <2>1 DEF ScanMarks, SplitMarks
<1>4. CASE ~t.in /\ c \in Scan!Opens
  <2>1. u = [t EXCEPT !.depth = t.depth + 1]
    BY <1>4 DEF Scan!Mark
  <2>2. u.depth = t.depth + 1 /\ u.in = FALSE /\ u.escaped = t.escaped
    <3>1. t.in = FALSE
      BY <1>4 DEF ScanMarks, SplitMarks
    <3> QED
      BY <2>1, <3>1 DEF ScanMarks, SplitMarks
  <2>3. /\ t \in ScanMarks => u \in ScanMarks
        /\ t \in SplitMarks => u \in SplitMarks /\ u.within = t.within /\ u.failed = t.failed
    BY <1>0, <2>1 DEF ScanMarks, SplitMarks
  <2> QED
    BY <1>4, <2>2, <2>3
<1>5. CASE ~t.in /\ c \in Scan!Closes
  <2>1. u = [t EXCEPT !.depth = t.depth - 1]
    BY <1>5 DEF Scan!Mark
  <2>2. u.depth = t.depth - 1 /\ u.in = FALSE /\ u.escaped = t.escaped
    <3>1. t.in = FALSE
      BY <1>5 DEF ScanMarks, SplitMarks
    <3> QED
      BY <2>1, <3>1 DEF ScanMarks, SplitMarks
  <2>3. /\ t \in ScanMarks => u \in ScanMarks
        /\ t \in SplitMarks => u \in SplitMarks /\ u.within = t.within /\ u.failed = t.failed
    BY <1>0, <2>1 DEF ScanMarks, SplitMarks
  <2> QED
    BY <1>5, <2>2, <2>3
<1>6. CASE ~t.in /\ c \notin Scan!Opens \cup Scan!Closes \cup {"quote"}
  <2>1. u = t
    BY <1>6 DEF Scan!Mark
  <2> QED
    BY <1>6, <2>1 DEF ScanMarks, SplitMarks
<1> QED
  BY <1>1, <1>2, <1>3, <1>4, <1>5, <1>6

\* A value begins: a container opens, a string starts, or a number or literal is complete.
LEMMA ValueIs ==
  ASSUME NEW p, Parsed(p), NEW c \in Scan!Chars, ~Scan!InText(p)
  PROVE  LET q == Scan!Value(p, c)
         IN  /\ Parsed(q)
             /\ c \in Scan!Opens => q = Scan!Opened(p, c)
             /\ c = "quote" => q.expect = "text" /\ q.stack = p.stack
             /\ c = "n" => q = Scan!Valued(p)
             /\ c \notin Scan!Opens \cup {"quote", "n"} => q = Scan!Failed
<1> USE DEF Scan!Opens
<1>0. p \in Parser
  BY DEF Parsed
<1>1. CASE c \in Scan!Opens
  BY <1>0, <1>1, OpenedIs DEF Scan!Value
<1>2. CASE c = "quote"
  <2>1. Scan!Value(p, c) = [p EXCEPT !.expect = "text", !.key = FALSE]
    BY <1>2 DEF Scan!Value
  <2>2. [p EXCEPT !.expect = "text", !.key = FALSE] \in Parser
    BY <1>0 DEF Parser, Expects
  <2> QED
    BY <1>0, <1>2, <2>1, <2>2 DEF Parsed, Placed, Parser
<1>3. CASE c = "n"
  BY <1>0, <1>3, ValuedIs DEF Scan!Value
<1>4. CASE c \notin Scan!Opens \cup {"quote", "n"}
  BY <1>4, FailedIsParsed DEF Scan!Value
<1> QED
  BY <1>1, <1>2, <1>3, <1>4

\* The parser goes on in a string.
Texted(p, e, h) == [p EXCEPT !.expect = e, !.hex = h]
LEMMA TextedIs ==
  ASSUME NEW p, Parsed(p), Scan!InText(p), NEW e \in {"text", "escaped", "hex"}, NEW h \in 0..3
  PROVE  LET r == Texted(p, e, h) IN Parsed(r) /\ r.stack = p.stack /\ r.expect = e
<1> DEFINE r == Texted(p, e, h)
<1>1. p \in Parser /\ Placed(p)
  BY DEF Parsed
<1>2. r \in Parser /\ r.stack = p.stack /\ r.expect = e /\ r.key = p.key
  BY <1>1 DEF Texted, Parser, Expects
<1> QED
  BY <1>1, <1>2 DEF Parsed, Placed, Scan!InText

\* Within a string the stack stays as it is; the parser knows of escapes what the scan knows.
LEMMA StringIs ==
  ASSUME NEW p, Parsed(p), NEW c \in Scan!Chars, Scan!InText(p)
  PROVE  LET q == Scan!String(p, c)
         IN  /\ Parsed(q)
             /\ q.expect # "error" =>
                  /\ q.stack = p.stack
                  /\ Scan!InText(q) <=> p.expect = "escaped" \/ c # "quote"
                  /\ q.expect = "escaped" <=> p.expect # "escaped" /\ c = "escape"
                  /\ q.expect \in {"text", "escaped", "hex", "colon", "next", "done"}
                  /\ q.expect = "done" => p.stack = <<>>
<1> DEFINE q == Scan!String(p, c)
<1>0. p \in Parser /\ Placed(p)
  BY DEF Parsed
<1>2. CASE p.expect = "hex"
  <2>1. CASE c # "n"
    BY <1>2, <2>1, FailedIsParsed DEF Scan!String
  <2>2. CASE c = "n"
    <3>1. q = [p EXCEPT !.hex = (p.hex + 1) % 4, !.expect = IF p.hex = 3 THEN "text" ELSE "hex"]
      BY <1>2, <2>2 DEF Scan!String
    <3>2. (p.hex + 1) % 4 \in 0..3
      <4>1. p.hex \in 0..3
        BY <1>0 DEF Parser
      <4> QED
        BY <4>1
    <3>3. PICK e \in {"text", "escaped", "hex"} : q = Texted(p, e, (p.hex + 1) % 4) /\ e \in {"text", "hex"}
      BY <3>1 DEF Texted
    <3>4. Parsed(q) /\ q.stack = p.stack /\ q.expect = e
      BY <3>2, <3>3, TextedIs
    <3> QED
      BY <1>2, <2>2, <3>3, <3>4 DEF Scan!InText
  <2> QED
    BY <2>1, <2>2
<1>3. CASE p.expect = "escaped"
  <2>1. CASE c \in {"quote", "escape", "n"}
    <3>1. q = [p EXCEPT !.expect = "text"]
      BY <1>3, <2>1 DEF Scan!String
    <3>2. q = Texted(p, "text", p.hex) /\ p.hex \in 0..3
      BY <1>0, <3>1 DEF Parser, Texted
    <3>3. Parsed(q) /\ q.stack = p.stack /\ q.expect = "text"
      BY <3>2, TextedIs
    <3> QED
      BY <1>3, <2>1, <3>3 DEF Scan!InText
  <2>2. CASE c = "u"
    <3>1. q = [p EXCEPT !.expect = "hex"]
      BY <1>3, <2>2 DEF Scan!String
    <3>2. q = Texted(p, "hex", p.hex) /\ p.hex \in 0..3
      BY <1>0, <3>1 DEF Parser, Texted
    <3>3. Parsed(q) /\ q.stack = p.stack /\ q.expect = "hex"
      BY <3>2, TextedIs
    <3> QED
      BY <1>3, <2>2, <3>3 DEF Scan!InText
  <2>3. CASE c \notin {"quote", "escape", "n", "u"}
    BY <1>3, <2>3, FailedIsParsed DEF Scan!String
  <2> QED
    BY <2>1, <2>2, <2>3
<1>4. CASE p.expect = "text"
  <2>1. CASE c = "quote" /\ p.key
    <3>1. q = [p EXCEPT !.expect = "colon"]
      BY <1>4, <2>1 DEF Scan!String
    <3>2. q \in Parser /\ q.stack = p.stack /\ q.expect = "colon" /\ p.stack # <<>>
      BY <1>0, <1>4, <2>1, <3>1 DEF Parser, Expects, Placed, Scan!InText
    <3> QED
      BY <1>4, <2>1, <3>2 DEF Parsed, Placed, Scan!InText
  <2>2. CASE c = "quote" /\ ~p.key
    <3>1. q = Scan!Valued(p)
      BY <1>4, <2>2 DEF Scan!String
    <3>2. Parsed(q) /\ q.stack = p.stack /\ q.expect = IF p.stack = <<>> THEN "done" ELSE "next"
      BY <1>0, <3>1, ValuedIs
    <3> QED
      BY <1>4, <2>2, <3>2 DEF Scan!InText
  <2>3. CASE c = "escape"
    <3>1. q = [p EXCEPT !.expect = "escaped"]
      BY <1>4, <2>3 DEF Scan!String
    <3>2. q = Texted(p, "escaped", p.hex) /\ p.hex \in 0..3
      BY <1>0, <3>1 DEF Parser, Texted
    <3>3. Parsed(q) /\ q.stack = p.stack /\ q.expect = "escaped"
      BY <3>2, TextedIs
    <3> QED
      BY <1>4, <2>3, <3>3 DEF Scan!InText
  <2>4. CASE c = "c"
    BY <1>4, <2>4, FailedIsParsed DEF Scan!String
  <2>5. CASE c \notin {"quote", "escape", "c"}
    <3>1. q = p
      BY <1>4, <2>5 DEF Scan!String
    <3> QED
      BY <1>4, <2>5, <3>1 DEF Scan!InText
  <2> QED
    BY <2>1, <2>2, <2>3, <2>4, <2>5
<1> QED
  BY <1>2, <1>3, <1>4 DEF Scan!InText

\* Outside a string a character opens or closes a container, begins a string, or leaves the
\* stack as it is.
LEMMA OutsideIs ==
  ASSUME NEW p, Parsed(p), NEW c \in Scan!Chars, ~Scan!InText(p)
  PROVE  LET q == Scan!Parse(p, c)
         IN  /\ Parsed(q)
             /\ \/ q.expect = "error"
                \/ c \in Scan!Opens /\ q = Scan!Opened(p, c)
                \/ c \in Scan!Closes /\ p.stack # <<>> /\ q = Scan!Closed(p)
                \/ c = "quote" /\ q.expect = "text" /\ q.stack = p.stack
                \/ /\ c \notin Scan!Opens \cup Scan!Closes \cup {"quote"} /\ q.stack = p.stack /\ ~Scan!InText(q)
                   /\ q.expect = "done" => p.stack = <<>>
                   /\ q.expect = "root" => p.expect = "root"
<1> DEFINE q == Scan!Parse(p, c)
<1> USE DEF Scan!Opens, Scan!Closes
<1>0. p \in Parser /\ Placed(p)
  BY DEF Parsed
<1>1. CASE c = "space"
  <2>1. q = p
    BY <1>1 DEF Scan!Parse
  <2> QED
    BY <1>0, <1>1, <2>1 DEF Placed
<1>2. CASE c # "space" /\ q = Scan!Value(p, c) /\ p.expect # "error"
  <2>1. CASE c \in Scan!Opens \cup {"quote"}
    BY <1>2, <2>1, ValueIs
  <2>2. CASE c = "n"
    <3>1. q = Scan!Valued(p)
      BY <1>2, <2>2, ValueIs
    <3>2. Parsed(q) /\ q.stack = p.stack /\ q.expect = IF p.stack = <<>> THEN "done" ELSE "next"
      BY <1>0, <3>1, ValuedIs
    <3> QED
      BY <2>2, <3>2 DEF Scan!InText
  <2>3. CASE c \notin Scan!Opens \cup {"quote", "n"}
    BY <1>2, <2>3, ValueIs, FailedIsParsed
  <2> QED
    BY <2>1, <2>2, <2>3
<1>3. CASE q = Scan!Failed
  BY <1>3, FailedIsParsed
<1>4. CASE c \in Scan!Closes /\ p.expect \in {"firstItem", "firstKey", "next"} /\ q = Scan!Closed(p)
  <2>1. p.stack # <<>>
    BY <1>0, <1>4 DEF Placed
  <2> QED
    BY <1>0, <1>4, <2>1, ClosedIs
<1>5. CASE p.expect \in {"firstKey", "key"} /\ c = "quote" /\ q = [p EXCEPT !.expect = "text", !.key = TRUE]
  <2>1. q \in Parser /\ q.expect = "text" /\ q.stack = p.stack /\ p.stack # <<>>
    BY <1>0, <1>5 DEF Parser, Expects, Placed
  <2> QED
    BY <1>5, <2>1 DEF Parsed, Placed
<1>6. ASSUME NEW e \in {"key", "value"}, c \in {"colon", "comma"}, p.expect \in {"colon", "next"}, q = [p EXCEPT !.expect = e]
      PROVE  Parsed(q) /\ q.stack = p.stack /\ ~Scan!InText(q) /\ q.expect = e
  <2>1. q \in Parser /\ q.expect = e /\ q.stack = p.stack /\ p.stack # <<>>
    BY <1>0, <1>6 DEF Parser, Expects, Placed
  <2> QED
    BY <1>6, <2>1 DEF Parsed, Placed, Scan!InText
<1>7. CASE c # "space" /\ p.expect \in {"root", "value"}
  BY <1>2, <1>7 DEF Scan!Parse
<1>8. CASE c # "space" /\ p.expect = "firstItem"
  BY <1>2, <1>4, <1>8 DEF Scan!Parse
<1>9. CASE c # "space" /\ p.expect = "firstKey"
  <2>1. CASE c = "braceEnd"
    BY <1>4, <1>9, <2>1 DEF Scan!Parse
  <2>2. CASE c = "quote"
    BY <1>5, <1>9, <2>2 DEF Scan!Parse
  <2>3. CASE c \notin {"braceEnd", "quote"}
    BY <1>3, <1>9, <2>3 DEF Scan!Parse
  <2> QED
    BY <2>1, <2>2, <2>3
<1>10. CASE c # "space" /\ p.expect = "key"
  <2>1. CASE c = "quote"
    BY <1>5, <1>10, <2>1 DEF Scan!Parse
  <2>2. CASE c # "quote"
    BY <1>3, <1>10, <2>2 DEF Scan!Parse
  <2> QED
    BY <2>1, <2>2
<1>11. CASE c # "space" /\ p.expect = "colon"
  <2>1. CASE c = "colon"
    <3>1. q = [p EXCEPT !.expect = "value"]
      BY <1>11, <2>1 DEF Scan!Parse
    <3> QED
      BY <1>6, <1>11, <2>1, <3>1
  <2>2. CASE c # "colon"
    BY <1>3, <1>11, <2>2 DEF Scan!Parse
  <2> QED
    BY <2>1, <2>2
<1>12. CASE c # "space" /\ p.expect = "next"
  <2>1. CASE Scan!Pairs(Scan!Top(p), c)
    <3>1. c \in Scan!Closes
      BY <2>1 DEF Scan!Pairs
    <3>2. q = Scan!Closed(p)
      BY <1>12, <2>1, <3>1 DEF Scan!Parse
    <3> QED
      BY <1>4, <1>12, <3>1, <3>2
  <2>2. CASE c = "comma" /\ ~Scan!Pairs(Scan!Top(p), c)
    <3>1. PICK e \in {"key", "value"} : q = [p EXCEPT !.expect = e]
      BY <1>12, <2>2 DEF Scan!Parse
    <3> QED
      BY <1>6, <1>12, <2>2, <3>1
  <2>3. CASE c # "comma" /\ ~Scan!Pairs(Scan!Top(p), c)
    BY <1>3, <1>12, <2>3 DEF Scan!Parse
  <2> QED
    BY <2>1, <2>2, <2>3
<1>13. CASE c # "space" /\ p.expect \in {"done", "error"}
  BY <1>3, <1>13 DEF Scan!Parse
<1> QED
  BY <1>0, <1>1, <1>7, <1>8, <1>9, <1>10, <1>11, <1>12, <1>13 DEF Parser, Expects, Scan!InText

\* A scan that knows where the parser is knows it after the next character, and an open
\* container is left exactly where the scan comes to depth zero.
LEMMA ParseIsMarked ==
  ASSUME NEW p, Parsed(p), p.expect # "error", NEW c \in Scan!Chars, NEW t \in ScanMarks \cup SplitMarks, Marks(t, p)
  PROVE  LET q == Scan!Parse(p, c)
         IN  /\ Parsed(q)
             /\ q.expect # "error" =>
                  /\ Marks(Scan!Mark(t, c), q)
                  /\ p.stack # <<>> => q.expect # "root" /\ (q.expect = "done" <=> Scan!AtEnd(t, c))
                                      /\ (q.expect # "done" => q.stack # <<>>)
<1> DEFINE q == Scan!Parse(p, c)
           u == Scan!Mark(t, c)
<1> USE DEF Scan!Opens, Scan!Closes
<1>0. p \in Parser /\ Placed(p) /\ p.stack \in Seq(Scan!Opens) /\ Len(p.stack) \in Nat /\ t.in \in BOOLEAN /\ t.escaped \in BOOLEAN
      /\ (Len(p.stack) = 0 <=> p.stack = <<>>)
  <2>1. p \in Parser /\ Placed(p) /\ t.in \in BOOLEAN /\ t.escaped \in BOOLEAN
    BY DEF Parsed, ScanMarks, SplitMarks
  <2>2. p.stack \in Seq(Scan!Opens)
    BY <2>1 DEF Parser
  <2> QED
    BY <2>1, <2>2, EmptySeq
<1>1. CASE Scan!InText(p)
  <2>1. q = Scan!String(p, c)
    BY <1>1 DEF Scan!Parse
  <2>2. u.depth = t.depth /\ u.in = (t.escaped \/ c # "quote") /\ u.escaped = (~t.escaped /\ c = "escape") /\ t.in
    BY <1>1, MarkIs DEF Marks
  <2>3. ~Scan!AtEnd(t, c)
    BY <2>2 DEF Scan!AtEnd
  <2>4. Parsed(q)
    BY <1>1, <2>1, StringIs
  <2>5. q.expect # "error" => /\ q.stack = p.stack /\ (Scan!InText(q) <=> p.expect = "escaped" \/ c # "quote")
                              /\ (q.expect = "escaped" <=> p.expect # "escaped" /\ c = "escape")
                              /\ q.expect # "root" /\ (q.expect = "done" => p.stack = <<>>)
    BY <1>1, <2>1, StringIs
  <2>6. t.depth = Len(p.stack) /\ t.escaped = (p.expect = "escaped")
    BY DEF Marks
  <2> HIDE DEF q, u
  <2>7. q.expect # "error" => Marks(u, q)
    <3>1. Scan!InText(q) \in BOOLEAN
      BY DEF Scan!InText
    <3> QED
      BY <2>2, <2>5, <2>6, <3>1 DEF Marks
  <2> QED
    BY <2>3, <2>4, <2>5, <2>7 DEF q, u
<1>2. CASE ~Scan!InText(p)
  <2>1. t.in = FALSE /\ t.escaped = FALSE /\ t.depth = Len(p.stack)
    BY <1>0, <1>2 DEF Marks, Scan!InText
  <2>2. /\ u.depth = IF c \in Scan!Opens THEN t.depth + 1 ELSE IF c \in Scan!Closes THEN t.depth - 1 ELSE t.depth
        /\ u.in = (c = "quote") /\ u.escaped = FALSE
    BY <2>1, MarkIs
  <2>3. Scan!AtEnd(t, c) <=> c \in Scan!Closes /\ Len(p.stack) = 1
    BY <1>0, <2>1, <2>2 DEF Scan!AtEnd
  <2>4. Parsed(q)
    BY <1>2, OutsideIs
  <2>5. CASE q.expect = "error"
    BY <2>4, <2>5
  <2>6. CASE c \in Scan!Opens /\ q = Scan!Opened(p, c)
    <3>1. q.expect \in {"firstKey", "firstItem"} /\ Len(q.stack) = Len(p.stack) + 1 /\ q.stack # <<>>
      BY <1>0, <2>6, OpenedIs
    <3>2. u.depth = Len(q.stack) /\ u.in = FALSE /\ Scan!InText(q) = FALSE /\ u.escaped = FALSE /\ q.expect # "escaped"
      <4>1. Scan!InText(q) = FALSE /\ q.expect # "escaped"
        BY <3>1 DEF Scan!InText
      <4>2. c # "quote"
        BY <2>6
      <4>3. u.in = FALSE /\ u.escaped = FALSE
        BY <2>2, <4>2
      <4>4. u.depth = Len(q.stack)
        BY <2>1, <2>2, <2>6, <3>1
      <4> QED
        BY <4>1, <4>3, <4>4
    <3> QED
      BY <2>3, <2>4, <2>6, <3>1, <3>2 DEF Marks
  <2>7. CASE c \in Scan!Closes /\ p.stack # <<>> /\ q = Scan!Closed(p)
    <3>1. Len(q.stack) = Len(p.stack) - 1 /\ q.expect = IF Len(p.stack) = 1 THEN "done" ELSE "next"
      BY <1>0, <2>7, ClosedIs
    <3>2. q.expect = "next" => q.stack # <<>>
      BY <2>4 DEF Parsed, Placed
    <3>3. u.depth = Len(q.stack) /\ u.in = FALSE /\ Scan!InText(q) = FALSE /\ u.escaped = FALSE /\ q.expect # "escaped"
      <4>1. Scan!InText(q) = FALSE /\ q.expect # "escaped"
        BY <3>1 DEF Scan!InText
      <4>2. c # "quote"
        BY <2>7
      <4>3. u.in = FALSE /\ u.escaped = FALSE
        BY <2>2, <4>2
      <4>4. u.depth = Len(q.stack)
        BY <2>1, <2>2, <2>7, <3>1
      <4> QED
        BY <4>1, <4>3, <4>4
    <3> QED
      BY <2>3, <2>4, <2>7, <3>1, <3>2, <3>3 DEF Marks
  <2>8. CASE c = "quote" /\ q.expect = "text" /\ q.stack = p.stack
    BY <2>1, <2>2, <2>3, <2>4, <2>8 DEF Marks, Scan!InText
  <2>9. CASE /\ c \notin Scan!Opens \cup Scan!Closes \cup {"quote"} /\ q.stack = p.stack /\ ~Scan!InText(q)
             /\ q.expect = "done" => p.stack = <<>>
             /\ q.expect = "root" => p.expect = "root"
    <3>1. p.stack # <<>> => q.expect # "root"
      BY <1>0, <2>9 DEF Placed
    <3>2. Scan!InText(q) = FALSE /\ q.expect # "escaped"
      BY <2>9 DEF Scan!InText
    <3> QED
      BY <2>1, <2>2, <2>3, <2>4, <2>9, <3>1, <3>2 DEF Marks
  <2> QED
    BY <1>2, <2>5, <2>6, <2>7, <2>8, <2>9, OutsideIs
<1> QED
  BY <1>1, <1>2

\* While the parser accepts, both scans know where it is, and the pieces' parser is where
\* the stream's is; once it does not, the splitter or the pieces' parser has failed too.
ScanInv ==
  /\ textKind \in {"whole", "sequence"} /\ scan \in ScanMarks /\ split \in SplitMarks /\ Parsed(stream)
  /\ stream.expect # "error" => Marks(scan, stream)
  /\ textKind = "sequence" =>
       /\ stream.expect # "error" =>
            /\ doc = stream /\ ~split.failed /\ Marks(split, stream)
            /\ split.within = (stream.expect \notin {"root", "done"}) /\ (split.within => stream.stack # <<>>)
       /\ stream.expect = "error" => split.failed \/ doc.expect = "error"

\* Nothing is open, and nothing was counted.
LEMMA ScanStarts == Scan!Init => ScanInv
<1> SUFFICES ASSUME Scan!Init PROVE ScanInv
  OBVIOUS
<1>1. stream = Scan!Fresh /\ doc = Scan!Fresh /\ Parsed(stream) /\ stream.expect = "root" /\ stream.stack = <<>>
  BY FreshIsParsed DEF Scan!Init
<1>2. scan \in ScanMarks /\ split \in SplitMarks /\ scan.depth = 0 /\ scan.in = FALSE /\ scan.escaped = FALSE
      /\ split.depth = 0 /\ split.in = FALSE /\ split.escaped = FALSE /\ split.within = FALSE /\ split.failed = FALSE
  BY DEF Scan!Init, ScanMarks, SplitMarks
<1>3. Marks(scan, stream) /\ Marks(split, stream)
  <2>1. Scan!InText(stream) = FALSE /\ Len(stream.stack) = 0 /\ (stream.expect = "escaped") = FALSE
    BY <1>1 DEF Scan!InText
  <2> QED
    BY <1>2, <2>1 DEF Marks
<1> QED
  BY <1>1, <1>2, <1>3 DEF ScanInv, Scan!Init

\* The invariant says what the run checks.
LEMMA ScansAgree == ScanInv => Scan!ScanBoundsParser /\ Scan!SplitAgrees
BY DEF ScanInv, Marks, Scan!ScanBoundsParser, Scan!SplitAgrees

\* Between two documents the parser is where a new one is.
LEMMA BetweenIsFresh ==
  ASSUME ScanInv, stream.expect \in {"root", "done"}, NEW t, Marks(t, stream)
  PROVE  Marks(t, Scan!Fresh) /\ stream.stack = <<>> /\ (stream.expect = "root" => stream = Scan!Fresh)
<1>1. stream.stack = <<>> /\ (stream.expect = "root" => stream = Scan!Fresh)
  BY DEF ScanInv, Parsed, Placed
<1>2. ~Scan!InText(stream) /\ ~Scan!InText(Scan!Fresh) /\ Scan!Fresh.expect # "escaped" /\ stream.expect # "escaped"
  BY FreshIsParsed DEF Scan!InText
<1>3. Len(stream.stack) = Len(Scan!Fresh.stack)
  BY <1>1, FreshIsParsed
<1>4. Scan!InText(stream) = FALSE /\ Scan!InText(Scan!Fresh) = FALSE
  <2>1. Scan!InText(stream) \in BOOLEAN /\ Scan!InText(Scan!Fresh) \in BOOLEAN
    BY DEF Scan!InText
  <2> QED
    BY <1>2, <2>1
<1>5. t.depth = Len(stream.stack) /\ t.in = FALSE /\ t.escaped = FALSE
  BY <1>2, <1>4 DEF Marks
<1>6. Marks(t, Scan!Fresh)
  BY <1>2, <1>3, <1>4, <1>5 DEF Marks
<1> QED
  BY <1>1, <1>6

\* The parser of the stream takes one character, from a new root between two documents, and
\* the depth scan counts it alike.
LEMMA StreamIs ==
  ASSUME ScanInv, stream.expect # "error", NEW c \in Scan!Chars
  PROVE  LET s == Scan!Stream(stream, c)
         IN  /\ Parsed(s) /\ (s.expect # "error" => Marks(Scan!Mark(scan, c), s))
             /\ \/ s = Scan!Failed
                \/ s = Scan!Parse(stream, c)
                \/ stream.expect = "done" /\ s = Scan!Parse(Scan!Fresh, c)
<1> DEFINE s == Scan!Stream(stream, c)
<1>1. Parsed(stream) /\ scan \in ScanMarks /\ Marks(scan, stream)
  BY DEF ScanInv
<1>2. CASE s = Scan!Failed
  BY <1>2, FailedIsParsed
<1>3. CASE s = Scan!Parse(stream, c)
  BY <1>1, <1>3, ParseIsMarked
<1>4. CASE stream.expect = "done" /\ s = Scan!Parse(Scan!Fresh, c)
  <2>1. Marks(scan, Scan!Fresh)
    BY <1>1, <1>4, BetweenIsFresh
  <2> QED
    BY <1>1, <1>4, <2>1, FreshIsParsed, ParseIsMarked
<1> QED
  BY <1>2, <1>3, <1>4 DEF Scan!Stream

\* The splitter and the parser of the pieces take one character as the stream's parser does.
LEMMA PieceIs ==
  ASSUME ScanInv, textKind = "sequence", stream.expect # "error", NEW c \in Scan!Chars
  PROVE  LET s == Scan!Stream(stream, c)
             d == Scan!Piece(doc, split, c)
             u == Scan!Split(split, c)
         IN  /\ u \in SplitMarks
             /\ s.expect # "error" =>
                  /\ d = s /\ ~u.failed /\ Marks(u, s)
                  /\ u.within = (s.expect \notin {"root", "done"}) /\ (u.within => s.stack # <<>>)
             /\ s.expect = "error" => u.failed \/ d.expect = "error"
<1> DEFINE s == Scan!Stream(stream, c)
           d == Scan!Piece(doc, split, c)
           u == Scan!Split(split, c)
           m == Scan!Mark(split, c)
<1>1. /\ Parsed(stream) /\ split \in SplitMarks /\ Marks(split, stream) /\ doc = stream /\ ~split.failed
      /\ split.within = (stream.expect \notin {"root", "done"}) /\ (split.within => stream.stack # <<>>)
  BY DEF ScanInv
<1>2. m \in SplitMarks /\ m.within = split.within /\ m.failed = split.failed /\ split.failed = FALSE
  BY <1>1, MarkIs DEF SplitMarks
<1>3. CASE split.within
  <2>1. s = Scan!Parse(stream, c)
    BY <1>1, <1>3 DEF Scan!Stream
  <2>2. Parsed(s) /\ (s.expect # "error" => Marks(m, s) /\ s.expect # "root" /\ (s.expect = "done" <=> Scan!AtEnd(split, c))
                                            /\ (s.expect # "done" => s.stack # <<>>))
    BY <1>1, <1>3, <2>1, ParseIsMarked
  <2>3. d = IF Scan!AtEnd(split, c) /\ s.expect # "done" THEN Scan!Failed ELSE s
    BY <1>1, <1>3, <2>1 DEF Scan!Piece
  <2>4. CASE Scan!AtEnd(split, c)
    <3>1. u = [m EXCEPT !.within = FALSE, !.depth = 0]
      BY <1>3, <2>4 DEF Scan!Split
    <3>2. u \in SplitMarks /\ u.depth = 0 /\ u.in = m.in /\ u.escaped = m.escaped /\ u.within = FALSE /\ u.failed = FALSE
      <4>1. ASSUME NEW x \in SplitMarks, NEW y, y = [x EXCEPT !.within = FALSE, !.depth = 0]
            PROVE  y \in SplitMarks /\ y.depth = 0 /\ y.in = x.in /\ y.escaped = x.escaped /\ y.within = FALSE /\ y.failed = x.failed
        <5>1. y = [depth |-> 0, in |-> x.in, escaped |-> x.escaped, within |-> FALSE, failed |-> x.failed]
          BY <4>1 DEF SplitMarks
        <5>2. 0 \in Int /\ x.in \in BOOLEAN /\ x.escaped \in BOOLEAN /\ x.failed \in BOOLEAN
          BY <4>1 DEF SplitMarks
        <5> QED
          BY <5>1, <5>2 DEF SplitMarks
      <4> HIDE DEF u, m
      <4> QED
        BY <1>2, <3>1, <4>1
    <3>3. s.expect = "done" => s.stack = <<>>
      BY <2>2 DEF Parsed, Placed
    <3>4. s.expect # "error" => s.expect = "done" /\ Marks(u, s)
      BY <2>2, <2>4, <3>2, <3>3 DEF Marks
    <3>5. s.expect # "error" => d = s
      BY <2>3, <3>4
    <3>6. s.expect = "error" => d.expect = "error"
      BY <2>3, FailedIsParsed
    <3> QED
      BY <3>2, <3>4, <3>5, <3>6
  <2>5. CASE ~Scan!AtEnd(split, c)
    <3>1. u = m
      BY <1>3, <2>5 DEF Scan!Split
    <3>2. m.within = TRUE /\ m.failed = FALSE
      BY <1>2, <1>3 DEF SplitMarks
    <3> QED
      BY <1>2, <2>2, <2>3, <2>5, <3>1, <3>2
  <2> QED
    BY <2>4, <2>5
<1>4. CASE ~split.within /\ c = "space"
  <2>1. stream.expect \in {"root", "done"} /\ ~Scan!InText(stream)
    BY <1>1, <1>4 DEF Scan!InText
  <2>2. s = stream
    BY <1>4, <2>1 DEF Scan!Stream, Scan!Parse
  <2>3. d = stream /\ u = split
    BY <1>1, <1>4 DEF Scan!Piece, Scan!Split, Scan!Opens
  <2> QED
    BY <1>1, <2>2, <2>3
<1>5. CASE ~split.within /\ c \in Scan!Opens
  <2>1. stream.expect \in {"root", "done"} /\ c # "space"
    BY <1>1, <1>5 DEF Scan!Opens
  <2>2. Marks(split, Scan!Fresh) /\ (stream.expect = "root" => stream = Scan!Fresh)
    BY <1>1, <2>1, BetweenIsFresh
  <2>3. s = Scan!Parse(Scan!Fresh, c)
    BY <1>5, <2>1, <2>2 DEF Scan!Stream
  <2>4. d = s
    BY <1>5, <2>1, <2>3 DEF Scan!Piece
  <2>5. u = [m EXCEPT !.within = TRUE]
    BY <1>5, <2>1 DEF Scan!Split
  <2>6. u \in SplitMarks /\ u.depth = m.depth /\ u.in = m.in /\ u.escaped = m.escaped /\ u.within = TRUE /\ u.failed = FALSE
    BY <1>2, <2>5 DEF SplitMarks
  <2>7. s.expect # "error" => Marks(m, s)
    BY <1>1, <2>2, <2>3, FreshIsParsed, ParseIsMarked
  <2>8. s.expect # "error" => s.expect \in {"firstKey", "firstItem"} /\ s.stack # <<>>
    <3>1. ~Scan!InText(Scan!Fresh) /\ Parsed(Scan!Fresh) /\ Scan!Fresh \in Parser
      BY FreshIsParsed DEF Scan!InText, Parsed
    <3>2. s.expect = "error" \/ s = Scan!Opened(Scan!Fresh, c)
      BY <1>5, <2>3, <3>1, OutsideIs DEF Scan!Opens, Scan!Closes
    <3> QED
      BY <1>5, <3>1, <3>2, OpenedIs
  <2>9. s.expect # "error" => Marks(u, s)
    <3> HIDE DEF u, s, m
    <3> QED
      BY <2>6, <2>7 DEF Marks
  <2>10. d.expect = s.expect
    BY <2>4
  <2> QED
    BY <2>4, <2>6, <2>8, <2>9, <2>10
<1>6. CASE ~split.within /\ c # "space" /\ c \notin Scan!Opens
  <2>1. stream.expect \in {"root", "done"}
    BY <1>1, <1>6
  <2>2. s = Scan!Failed
    BY <1>6, <2>1 DEF Scan!Stream
  <2>3. u = [split EXCEPT !.failed = TRUE]
    BY <1>6 DEF Scan!Split
  <2>4. u \in SplitMarks /\ u.failed
    BY <1>1, <2>3 DEF SplitMarks
  <2> QED
    BY <2>2, <2>4, FailedIsParsed
<1> QED
  BY <1>3, <1>4, <1>5, <1>6

\* One character, read by all of them.
LEMMA ScanKeeps == ScanInv /\ [Scan!Next]_scanVars => ScanInv'
<1> SUFFICES ASSUME ScanInv, [Scan!Next]_scanVars PROVE ScanInv'
  OBVIOUS
<1>1. ASSUME NEW c \in Scan!Chars, Scan!Read(c) PROVE ScanInv'
  <2> DEFINE s == Scan!Stream(stream, c)
             d == Scan!Piece(doc, split, c)
             u == Scan!Split(split, c)
             m == Scan!Mark(scan, c)
  <2>1. stream.expect # "error" /\ textKind' = textKind /\ scan' = m
        /\ split' = IF textKind = "whole" \/ split.failed THEN split ELSE u
    BY <1>1 DEF Scan!Read
  <2>2. PICK repeated \in BOOLEAN :
          /\ repeated => Scan!Repeats(stream, s)
          /\ stream' = IF repeated THEN Scan!Failed ELSE s
          /\ doc' = IF textKind = "whole" \/ doc.expect = "error" \/ (repeated /\ Scan!Repeats(doc, d)) THEN Scan!Failed ELSE d
    BY <1>1 DEF Scan!Read
  <2>3. Parsed(s) /\ (s.expect # "error" => Marks(m, s)) /\ m \in ScanMarks
    BY <2>1, StreamIs, MarkIs DEF ScanInv
  <2>4. Parsed(Scan!Failed) /\ Scan!Failed.expect = "error"
    BY FailedIsParsed
  <2>5. textKind = "sequence" =>
          /\ u \in SplitMarks /\ doc = stream /\ ~split.failed
          /\ s.expect # "error" =>
               /\ d = s /\ ~u.failed /\ Marks(u, s)
               /\ u.within = (s.expect \notin {"root", "done"}) /\ (u.within => s.stack # <<>>)
          /\ s.expect = "error" => u.failed \/ d.expect = "error"
    BY <2>1, PieceIs DEF ScanInv
  <2> HIDE DEF s, d, u, m
  <2>6. CASE textKind = "whole"
    <3>1. split' = split /\ textKind' # "sequence"
      BY <2>1, <2>6
    <3>2. Parsed(stream') /\ (stream'.expect # "error" => stream' = s)
      BY <2>2, <2>3, <2>4
    <3> QED
      BY <2>1, <2>3, <3>1, <3>2 DEF ScanInv, Marks, Scan!InText
  <2>7. CASE textKind = "sequence"
    <3>1. split' = u /\ doc.expect # "error"
      BY <2>1, <2>5, <2>7
    <3>2. CASE repeated
      <4>1. s.expect = "colon" /\ stream.expect = "text" /\ stream' = Scan!Failed
        BY <2>2, <3>2 DEF Scan!Repeats
      <4>2. d = s /\ Scan!Repeats(doc, d)
        BY <2>5, <2>7, <4>1 DEF Scan!Repeats
      <4>3. doc' = Scan!Failed
        BY <2>2, <3>2, <4>2
      <4> QED
        BY <2>1, <2>3, <2>4, <2>5, <2>7, <3>1, <4>1, <4>3 DEF ScanInv
    <3>3. CASE ~repeated
      <4>1. stream' = s /\ doc' = d
        BY <2>2, <2>7, <3>1, <3>3
      <4>2. Marks(scan, stream)' = Marks(m, s) /\ Marks(split, stream)' = Marks(u, s)
        BY <2>1, <3>1, <4>1 DEF Marks, Scan!InText
      <4> QED
        BY <2>1, <2>3, <2>5, <2>7, <3>1, <4>1, <4>2 DEF ScanInv
    <3> QED
      BY <3>2, <3>3
  <2> QED
    BY <2>6, <2>7 DEF ScanInv
<1>2. CASE UNCHANGED scanVars
  BY <1>2 DEF scanVars, ScanInv, Marks, Parsed, Placed, Scan!InText
<1> QED
  BY <1>1, <1>2 DEF Scan!Next

-------------------------------------------------------------------------------
(* The framings of a text                                                  *)

\* What is written down of a text is what each reader makes of it.
Cut(mode) ==
  [mode |-> mode, out |-> Framing!Framed(text, mode), member |-> Framing!Member(text), lines |-> Framing!ImportLines(text)]
FramingInv ==
  /\ text \in Seq(Texts)
  /\ cut = Framing!Unread \/ \E mode \in Framing!Modes : cut = Cut(mode)

\* An empty text that nobody has read.
LEMMA FramingStarts == Framing!Init => FramingInv
BY DEF Framing!Init, FramingInv

\* A text grows until it is read, and never after.
LEMMA FramingKeeps == FramingInv /\ [Framing!Next]_framingVars => FramingInv'
<1> SUFFICES ASSUME FramingInv, [Framing!Next]_framingVars PROVE FramingInv'
  OBVIOUS
<1>1. CASE Framing!Emit
  <2>1. PICK d \in Documents, s \in Framing!Separators : text' = Append(text, [d EXCEPT !.after = s])
    BY <1>1 DEF Framing!Emit
  <2>2. [d EXCEPT !.after = s] \in Texts
    BY DocumentAssumption DEF Texts
  <2> QED
    BY <1>1, <2>1, <2>2 DEF Framing!Emit, FramingInv
<1>2. CASE Framing!Read
  <2>1. text' = text
    BY <1>2 DEF Framing!Read
  <2>2. PICK mode \in Framing!Modes :
          cut' = [mode |-> mode, out |-> Framing!Framed(text, mode), member |-> Framing!Member(text), lines |-> Framing!ImportLines(text)]
    BY <1>2 DEF Framing!Read
  <2>3. cut' = Cut(mode)
    BY <2>2 DEF Cut
  <2>4. Cut(mode)' = Cut(mode)
    BY <2>1 DEF Cut
  <2> QED
    BY <2>1, <2>3, <2>4 DEF FramingInv
<1>3. CASE UNCHANGED framingVars
  <2>1. text' = text /\ cut' = cut
    BY <1>3 DEF framingVars
  <2>2. ASSUME NEW mode PROVE Cut(mode)' = Cut(mode)
    BY <2>1 DEF Cut
  <2> QED
    BY <2>1, <2>2 DEF FramingInv
<1> QED
  BY <1>1, <1>2, <1>3 DEF Framing!Next

\* The framings count with the same Cardinality.
LEMMA SameCardinality == \A S : Framing!Cardinality(S) = Cardinality(S)
BY DEF Cardinality, Framing!Cardinality

\* The documents of a text that are not blank.
LEMMA PositionsAre ==
  ASSUME NEW t \in Seq(Texts)
  PROVE  /\ Framing!Positions(t) \subseteq 1..Len(t) /\ IsFiniteSet(Framing!Positions(t))
         /\ Cardinality(Framing!Positions(t)) = 1 => Framing!Positions(t) = {Framing!Only(t)}
         /\ (\A n \in DOMAIN t : t[n].root # "blank") => Framing!Positions(t) = 1..Len(t) /\ Cardinality(Framing!Positions(t)) = Len(t)
<1>1. Framing!Positions(t) \subseteq 1..Len(t)
  BY DEF Framing!Positions
<1>2. IsFiniteSet(Framing!Positions(t))
  BY <1>1, FS_Interval, FS_Subset
<1>3. ASSUME Cardinality(Framing!Positions(t)) = 1 PROVE Framing!Positions(t) = {Framing!Only(t)}
  <2>1. PICK x : Framing!Positions(t) = {x}
    BY <1>2, <1>3, FS_Singleton
  <2> QED
    BY <2>1 DEF Framing!Only
<1>4. ASSUME \A n \in DOMAIN t : t[n].root # "blank"
      PROVE  Framing!Positions(t) = 1..Len(t) /\ Cardinality(Framing!Positions(t)) = Len(t)
  <2>1. Framing!Positions(t) = 1..Len(t)
    BY <1>4 DEF Framing!Positions
  <2>2. Len(t) \in Nat
    OBVIOUS
  <2>3. Cardinality(1..Len(t)) = Len(t)
    <3>1. \A a, b \in Int : Cardinality(a..b) = IF a > b THEN 0 ELSE b - a + 1
      BY FS_Interval
    <3>2. Cardinality(1..Len(t)) = IF 1 > Len(t) THEN 0 ELSE Len(t) - 1 + 1
      BY <2>2, <3>1
    <3> QED
      BY <2>2, <3>2
  <2> QED
    BY <2>1, <2>3
<1> QED
  BY <1>1, <1>2, <1>3, <1>4

Pairs == Nat \X Nat

\* The records of one document: it, or its items in their order.
LEMMA RecordsAre ==
  ASSUME NEW t \in Seq(Texts), NEW n \in 1..Len(t)
  PROVE  LET r == Framing!Records(t, n)
         IN  /\ r \in Seq(Pairs) /\ \A k \in 1..Len(r) : r[k][1] = n
             /\ \A k \in 1..(Len(r) - 1) : 0 < r[k][2] /\ r[k + 1][2] = r[k][2] + 1
             /\ r = <<>> \/ (1 \in 1..Len(r) /\ DOMAIN r = 1..Len(r))
             /\ t[n].root # "array" => r = <<<<n, 0>>>>
<1> DEFINE r == Framing!Records(t, n)
<1>0. t[n].items \in Nat
  <2>1. t[n] \in Texts
    OBVIOUS
  <2> QED
    BY <2>1 DEF Texts
<1>1. CASE t[n].root = "array"
  <2>1. r = [i \in 1..t[n].items |-> <<n, i>>]
    BY <1>1 DEF Framing!Records
  <2>2. ASSUME NEW m \in Nat, NEW s, s = [i \in 1..m |-> <<n, i>>]
        PROVE  s \in Seq(Pairs) /\ Len(s) = m /\ \A k \in 1..m : s[k] = <<n, k>>
    <3>1. \A i \in 1..m : <<n, i>> \in Pairs
      BY DEF Pairs
    <3> QED
      BY <2>2, <3>1
  <2>3. r \in Seq(Pairs) /\ Len(r) = t[n].items /\ \A k \in 1..Len(r) : r[k] = <<n, k>>
    BY <1>0, <2>1, <2>2
  <2>4. Len(r) \in Nat
    BY <1>0, <2>3
  <2>5. \A k \in 1..Len(r) : r[k][1] = n /\ r[k][2] = k
    BY <2>3
  <2> HIDE DEF r
  <2>6. \A k \in 1..(Len(r) - 1) : 0 < r[k][2] /\ r[k + 1][2] = r[k][2] + 1
    BY <2>4, <2>5
  <2>7. r = <<>> \/ (1 \in 1..Len(r) /\ DOMAIN r = 1..Len(r))
    BY <2>3, EmptySeq
  <2> QED
    BY <1>1, <2>3, <2>5, <2>6, <2>7 DEF r
<1>2. CASE t[n].root # "array"
  <2>1. r = <<<<n, 0>>>>
    BY <1>2 DEF Framing!Records
  <2>2. <<n, 0>> \in Pairs
    BY DEF Pairs
  <2> QED
    BY <2>1, <2>2
<1> QED
  BY <1>1, <1>2

\* The first m documents of t, as records in their order, each once and whole.
Ordered(t, s, m) ==
  /\ s \in Seq(Pairs) /\ \A k \in 1..Len(s) : s[k][1] \in 1..m
  /\ \A k \in 1..(Len(s) - 1) :
       s[k][1] < s[k + 1][1] \/ (s[k][1] = s[k + 1][1] /\ 0 < s[k][2] /\ s[k + 1][2] = s[k][2] + 1)
  /\ \A n \in Framing!Positions(t) : n <= m => (\E k \in 1..Len(s) : s[k][1] = n) \/ Framing!Records(t, n) = <<>>

\* The records of the document at n, none if it is blank.
RecordsOf(t, n) == IF n \in Framing!Positions(t) THEN Framing!Records(t, n) ELSE <<>>

\* The next document's records follow those of the documents before it.
LEMMA OneMore ==
  ASSUME NEW t \in Seq(Texts), NEW m \in 1..Len(t), NEW s, Ordered(t, s, m - 1)
  PROVE  Ordered(t, s \o RecordsOf(t, m), m)
<1> DEFINE r == RecordsOf(t, m)
           q == s \o r
<1>1. /\ s \in Seq(Pairs) /\ m \in Nat /\ m - 1 \in Nat
      /\ \A k \in 1..Len(s) : s[k][1] \in 1..(m - 1)
      /\ \A k \in 1..(Len(s) - 1) :
           s[k][1] < s[k + 1][1] \/ (s[k][1] = s[k + 1][1] /\ 0 < s[k][2] /\ s[k + 1][2] = s[k][2] + 1)
  BY DEF Ordered
<1>2. /\ r \in Seq(Pairs) /\ \A k \in 1..Len(r) : r[k][1] = m
      /\ \A k \in 1..(Len(r) - 1) : 0 < r[k][2] /\ r[k + 1][2] = r[k][2] + 1
  <2>1. CASE m \in Framing!Positions(t)
    BY <2>1, RecordsAre DEF RecordsOf
  <2>2. CASE m \notin Framing!Positions(t)
    <3>1. r = <<>>
      BY <2>2 DEF RecordsOf
    <3> QED
      BY <3>1
  <2> QED
    BY <2>1, <2>2
<1>3. \A n \in Framing!Positions(t) : n <= m =>
        \/ n <= m - 1 /\ ((\E k \in 1..Len(s) : s[k][1] = n) \/ Framing!Records(t, n) = <<>>)
        \/ n = m /\ r = Framing!Records(t, n)
  <2> SUFFICES ASSUME NEW n \in Framing!Positions(t), n <= m
               PROVE  \/ n <= m - 1 /\ ((\E k \in 1..Len(s) : s[k][1] = n) \/ Framing!Records(t, n) = <<>>)
                      \/ n = m /\ r = Framing!Records(t, n)
    OBVIOUS
  <2>1. n \in Nat
    BY PositionsAre
  <2>2. CASE n = m
    BY <2>2 DEF RecordsOf
  <2>3. CASE n # m
    <3>1. n <= m - 1
      BY <1>1, <2>1, <2>3
    <3> QED
      BY <3>1 DEF Ordered
  <2> QED
    BY <2>2, <2>3
<1> HIDE DEF r
<1>4. /\ q \in Seq(Pairs) /\ Len(q) = Len(s) + Len(r) /\ Len(s) \in Nat /\ Len(r) \in Nat
      /\ \A k \in 1..Len(q) : q[k] = IF k <= Len(s) THEN s[k] ELSE r[k - Len(s)]
  BY <1>1, <1>2
<1> HIDE DEF q
<1>5. \A k \in 1..Len(s) : k \in 1..Len(q) /\ q[k] = s[k]
  BY <1>4
<1>6. \A k \in 1..Len(r) : Len(s) + k \in 1..Len(q) /\ q[Len(s) + k] = r[k]
  BY <1>4, SMTT(30)
<1>7. ASSUME NEW k \in 1..Len(q) PROVE q[k][1] \in 1..m /\ (k <= Len(s) => q[k][1] < m) /\ (k > Len(s) => q[k][1] = m)
  <2>1. CASE k <= Len(s)
    <3>1. q[k] = s[k] /\ k \in 1..Len(s)
      BY <1>4, <2>1
    <3>2. s[k][1] \in 1..(m - 1)
      BY <1>1, <3>1
    <3> QED
      BY <1>1, <1>4, <2>1, <3>1, <3>2
  <2>2. CASE k > Len(s)
    <3>1. q[k] = r[k - Len(s)] /\ k - Len(s) \in 1..Len(r)
      BY <1>4, <2>2
    <3> QED
      BY <1>1, <1>2, <1>4, <2>2, <3>1
  <2> QED
    BY <1>4, <2>1, <2>2
<1>8. ASSUME NEW k \in 1..(Len(q) - 1)
      PROVE  q[k][1] < q[k + 1][1] \/ (q[k][1] = q[k + 1][1] /\ 0 < q[k][2] /\ q[k + 1][2] = q[k][2] + 1)
  <2>0. k \in 1..Len(q) /\ k + 1 \in 1..Len(q)
    BY <1>4
  <2>1. CASE k + 1 <= Len(s)
    <3>1. q[k] = s[k] /\ q[k + 1] = s[k + 1] /\ k \in 1..(Len(s) - 1)
      BY <1>4, <2>0, <2>1
    <3> QED
      BY <1>1, <3>1
  <2>2. CASE k = Len(s)
    <3>1. q[k][1] < m /\ q[k + 1][1] = m
      BY <1>4, <1>7, <2>0, <2>2
    <3> QED
      BY <3>1
  <2>3. CASE k > Len(s)
    <3>1. k - Len(s) \in 1..(Len(r) - 1) /\ (k - Len(s)) + 1 = k + 1 - Len(s)
      BY <1>4, <2>3
    <3>2. q[k] = r[k - Len(s)] /\ q[k + 1] = r[(k - Len(s)) + 1]
      BY <1>4, <2>0, <2>3, <3>1
    <3>3. q[k][1] = m /\ q[k + 1][1] = m
      BY <1>4, <1>7, <2>0, <2>3
    <3> QED
      BY <1>2, <3>1, <3>2, <3>3
  <2> QED
    BY <1>4, <2>1, <2>2, <2>3
<1>9. ASSUME NEW n \in Framing!Positions(t), n <= m
      PROVE  (\E k \in 1..Len(q) : q[k][1] = n) \/ Framing!Records(t, n) = <<>>
  <2>1. CASE \E k \in 1..Len(s) : s[k][1] = n
    BY <1>5, <2>1
  <2>2. CASE n = m /\ r = Framing!Records(t, n) /\ r # <<>>
    <3>1. 1 \in 1..Len(r)
      BY <1>2, <1>4, <2>2, EmptySeq
    <3>2. q[Len(s) + 1] = r[1] /\ r[1][1] = m /\ Len(s) + 1 \in 1..Len(q)
      BY <1>2, <1>6, <3>1
    <3> QED
      BY <2>2, <3>2
  <2> QED
    BY <1>3, <1>9, <2>1, <2>2
<1> QED
  BY <1>4, <1>7, <1>8, <1>9 DEF Ordered, q, r

\* f holds the records of the first documents, up to m of them.
Gathers(f, t, m) == f = [n \in 0..m |-> IF n = 0 THEN <<>> ELSE f[n - 1] \o RecordsOf(t, n)]

\* The records are defined for every length: no least length could lack them.
LEMMA Gathering == ASSUME NEW t PROVE \A m \in Nat : \E f : Gathers(f, t, m)
<1> DEFINE T == {m \in Nat : ~\E f : Gathers(f, t, m)}
<1> SUFFICES ASSUME T # {} PROVE FALSE
  OBVIOUS
<1>1. PICK m \in T : \A k \in T : m <= k
  <2> HIDE DEF T
  <2>1. T \in SUBSET Nat
    BY DEF T
  <2> QED
    BY <2>1, LeastNumber
<1>2. m # 0
  <2>1. Gathers([n \in 0..0 |-> <<>>], t, 0)
    BY DEF Gathers
  <2> QED
    BY <2>1
<1>3. PICK f : Gathers(f, t, m - 1)
  <2>1. m - 1 \in Nat /\ m - 1 \notin T
    BY <1>1, <1>2
  <2> QED
    BY <2>1
<1> DEFINE g == [n \in 0..m |-> IF n = m THEN f[m - 1] \o RecordsOf(t, m) ELSE f[n]]
<1>4. ASSUME NEW n \in 0..m
      PROVE  g[n] = IF n = 0 THEN <<>> ELSE g[n - 1] \o RecordsOf(t, n)
  <2>1. CASE n = m
    <3>1. g[n - 1] = f[m - 1]
      BY <1>2, <2>1
    <3> QED
      BY <1>2, <2>1, <3>1
  <2>2. CASE n # m
    <3>1. n \in 0..(m - 1) /\ (n # 0 => n - 1 \in 0..(m - 1))
      BY <1>2, <2>2
    <3>2. f[n] = IF n = 0 THEN <<>> ELSE f[n - 1] \o RecordsOf(t, n)
      BY <1>3, <3>1 DEF Gathers
    <3> QED
      BY <2>2, <3>1, <3>2
  <2> QED
    BY <2>1, <2>2
<1>5. Gathers(g, t, m)
  <2> HIDE DEF g
  <2>1. g = [n \in 0..m |-> g[n]]
    BY DEF g
  <2> QED
    BY <1>4, <2>1 DEF Gathers
<1> QED
  BY <1>1, <1>5

\* Pieces is the last of them.
LEMMA PiecesGather ==
  ASSUME NEW t \in Seq(Texts)
  PROVE  \E f : Gathers(f, t, Len(t)) /\ Framing!Pieces(t) = f[Len(t)]
<1> DEFINE upTo == CHOOSE f : f = [n \in 0..Len(t) |->
              IF n = 0 THEN <<>> ELSE f[n - 1] \o (IF n \in Framing!Positions(t) THEN Framing!Records(t, n) ELSE <<>>)]
<1>1. Framing!Pieces(t) = upTo[Len(t)]
  BY DEF Framing!Pieces
<1>2. upTo = CHOOSE f : Gathers(f, t, Len(t))
  BY DEF Gathers, RecordsOf
<1>3. Gathers(upTo, t, Len(t))
  <2> HIDE DEF upTo
  <2>1. Len(t) \in Nat
    OBVIOUS
  <2>2. \E f : Gathers(f, t, Len(t))
    BY <2>1, Gathering
  <2> QED
    BY <1>2, <2>2
<1> QED
  BY <1>1, <1>3

\* The records of all documents of a text, and of one without blanks and arrays.
LEMMA PiecesAre ==
  ASSUME NEW t \in Seq(Texts)
  PROVE  /\ Ordered(t, Framing!Pieces(t), Len(t))
         /\ (\A n \in DOMAIN t : t[n].root \notin {"blank", "array"}) => Framing!Pieces(t) = [n \in DOMAIN t |-> <<n, 0>>]
<1>0. Len(t) \in Nat /\ DOMAIN t = 1..Len(t)
  OBVIOUS
<1>1. PICK f : Gathers(f, t, Len(t)) /\ Framing!Pieces(t) = f[Len(t)]
  BY PiecesGather
<1>2. \A n \in 0..Len(t) : f[n] = IF n = 0 THEN <<>> ELSE f[n - 1] \o RecordsOf(t, n)
  BY <1>1 DEF Gathers
<1> DEFINE Good(n) ==
             /\ Ordered(t, f[n], n)
             /\ (\A k \in DOMAIN t : t[k].root \notin {"blank", "array"}) => f[n] = [k \in 1..n |-> <<k, 0>>]
           T == {n \in 0..Len(t) : ~Good(n)}
<1>3. Good(0)
  <2>0. 0 \in 0..Len(t)
    BY <1>0
  <2>1. f[0] = <<>>
    BY <1>2, <2>0
  <2>2. \A n \in Framing!Positions(t) : ~(n <= 0)
    BY <1>0, PositionsAre
  <2>3. Ordered(t, f[0], 0)
    BY <2>1, <2>2 DEF Ordered
  <2>4. f[0] = [k \in 1..0 |-> <<k, 0>>]
    BY <2>1
  <2> QED
    BY <2>3, <2>4
<1>4. ASSUME NEW n \in 1..Len(t), Good(n - 1) PROVE Good(n)
  <2>0. n \in 0..Len(t) /\ n # 0
    BY <1>0
  <2>1. f[n] = f[n - 1] \o RecordsOf(t, n)
    BY <1>2, <2>0
  <2>2. Ordered(t, f[n - 1], n - 1)
    BY <1>4
  <2>3. Ordered(t, f[n], n)
    BY <2>1, <2>2, OneMore
  <2>4. ASSUME \A k \in DOMAIN t : t[k].root \notin {"blank", "array"}
        PROVE  f[n] = [k \in 1..n |-> <<k, 0>>]
    <3>1. f[n - 1] = [k \in 1..(n - 1) |-> <<k, 0>>]
      BY <1>4, <2>4
    <3>2. n \in Framing!Positions(t)
      BY <1>0, <2>4 DEF Framing!Positions
    <3>3. RecordsOf(t, n) = <<<<n, 0>>>>
      BY <1>0, <2>4, <3>2, RecordsAre DEF RecordsOf
    <3>4. ASSUME NEW m \in Nat PROVE [k \in 1..m |-> <<k, 0>>] \o <<<<m + 1, 0>>>> = [k \in 1..(m + 1) |-> <<k, 0>>]
      BY SMTT(30)
    <3>5. n - 1 \in Nat /\ (n - 1) + 1 = n
      BY <1>0
    <3> QED
      BY <2>1, <3>1, <3>3, <3>4, <3>5
  <2> QED
    BY <2>3, <2>4
<1> HIDE DEF Good
<1>5. T = {}
  <2> SUFFICES ASSUME T # {} PROVE FALSE
    OBVIOUS
  <2>1. PICK m \in T : \A k \in T : m <= k
    <3>1. T \in SUBSET Nat
      BY <1>0
    <3> HIDE DEF T
    <3> QED
      BY <3>1, LeastNumber
  <2>2. m # 0 /\ m \in 1..Len(t)
    BY <1>0, <1>3, <2>1
  <2>3. m - 1 \in 0..Len(t) /\ m - 1 \notin T
    BY <1>0, <2>1, <2>2
  <2> QED
    BY <1>4, <2>1, <2>2, <2>3
<1>6. Good(Len(t))
  BY <1>0, <1>5
<1> QED
  BY <1>0, <1>1, <1>6 DEF Good

\* The records of one document, as a whole or item by item.
LEMMA DocumentIs ==
  ASSUME NEW t \in Seq(Texts), Cardinality(Framing!Positions(t)) = 1
  PROVE  /\ Ordered(t, Framing!Records(t, Framing!Only(t)), Len(t))
         /\ (\A n \in DOMAIN t : t[n].root \notin {"blank", "array"}) =>
              Framing!Records(t, Framing!Only(t)) = [n \in DOMAIN t |-> <<n, 0>>]
<1> DEFINE o == Framing!Only(t)
           r == Framing!Records(t, o)
<1>0. Len(t) \in Nat /\ DOMAIN t = 1..Len(t)
  OBVIOUS
<1>1. o \in 1..Len(t) /\ Framing!Positions(t) = {o}
  BY PositionsAre
<1>2. /\ r \in Seq(Pairs) /\ \A k \in 1..Len(r) : r[k][1] = o
      /\ \A k \in 1..(Len(r) - 1) : 0 < r[k][2] /\ r[k + 1][2] = r[k][2] + 1
      /\ r = <<>> \/ (1 \in 1..Len(r) /\ DOMAIN r = 1..Len(r))
      /\ t[o].root # "array" => r = <<<<o, 0>>>>
  BY <1>1, RecordsAre
<1>3. Ordered(t, r, Len(t))
  <2> HIDE DEF r, o
  <2>1. Len(r) \in Nat
    BY <1>2
  <2>2. \A k \in 1..(Len(r) - 1) : k \in 1..Len(r) /\ k + 1 \in 1..Len(r)
    BY <2>1
  <2> QED
    BY <1>1, <1>2, <2>2 DEF Ordered, r, o
<1>4. ASSUME \A n \in DOMAIN t : t[n].root \notin {"blank", "array"} PROVE r = [n \in DOMAIN t |-> <<n, 0>>]
  <2>1. Framing!Positions(t) = 1..Len(t) /\ Len(t) = 1
    BY <1>4, PositionsAre
  <2>2. o = 1 /\ t[o].root # "array"
    BY <1>0, <1>1, <1>4, <2>1
  <2>3. r = <<<<1, 0>>>>
    BY <1>2, <2>2
  <2>4. [n \in 1..1 |-> <<n, 0>>] = <<<<1, 0>>>>
    OBVIOUS
  <2> QED
    BY <1>0, <2>1, <2>3, <2>4
<1> QED
  BY <1>3, <1>4

\* One record a line.
LEMMA LinesAre ==
  ASSUME NEW t \in Seq(Texts), \A n \in DOMAIN t : t[n].root # "blank"
  PROVE  Ordered(t, [n \in DOMAIN t |-> <<n, 0>>], Len(t)) /\ Len([n \in DOMAIN t |-> <<n, 0>>]) = Len(t)
<1> DEFINE r == [n \in DOMAIN t |-> <<n, 0>>]
<1>0. Len(t) \in Nat /\ DOMAIN t = 1..Len(t)
  OBVIOUS
<1>1. \A m \in 1..Len(t) : <<m, 0>> \in Pairs
  BY DEF Pairs
<1>2. r \in Seq(Pairs) /\ Len(r) = Len(t) /\ \A k \in 1..Len(t) : r[k] = <<k, 0>>
  BY <1>0, <1>1
<1>3. \A k \in 1..Len(t) : r[k][1] = k
  BY <1>2
<1>4. Framing!Positions(t) \subseteq 1..Len(t)
  BY PositionsAre
<1> HIDE DEF r
<1>5. \A k \in 1..(Len(r) - 1) : k \in 1..Len(t) /\ k + 1 \in 1..Len(t) /\ r[k][1] < r[k + 1][1]
  BY <1>0, <1>2, <1>3
<1>6. Ordered(t, r, Len(t))
  BY <1>0, <1>2, <1>3, <1>4, <1>5 DEF Ordered
<1> QED
  BY <1>2, <1>6 DEF r

\* What a framing that accepts a text has found.
LEMMA FramedIs ==
  ASSUME NEW t \in Seq(Texts), NEW mode \in Framing!Modes, Framing!Framed(t, mode) # Framing!Rejected
  PROVE  LET r == Framing!Framed(t, mode).records
         IN  /\ Ordered(t, r, Len(t)) /\ Len(r) <= MaxRecords
             /\ mode = "auto" /\ (\A n \in DOMAIN t : t[n].root \notin {"array", "blank"}) => r = [n \in DOMAIN t |-> <<n, 0>>]
<1> DEFINE a == Framing!Framed(t, mode)
<1>1. a \in {Framing!Document(t), Framing!Lines(t), Framing!Concatenated(t)}
  BY DEF Framing!Framed, Framing!Auto, Framing!Modes
<1>2. CASE a = Framing!Document(t)
  <2>1. Cardinality(Framing!Positions(t)) = 1 /\ Len(Framing!Records(t, Framing!Only(t))) <= MaxRecords
        /\ a.records = Framing!Records(t, Framing!Only(t))
    BY <1>2, SameCardinality DEF Framing!Document
  <2> QED
    BY <2>1, DocumentIs
<1>3. CASE a = Framing!Lines(t)
  <2>1. Len(t) <= MaxRecords /\ (\A n \in DOMAIN t : t[n].root # "blank") /\ a.records = [n \in DOMAIN t |-> <<n, 0>>]
    BY <1>3 DEF Framing!Lines, Framing!LinesFit, Framing!OnePerLine
  <2> QED
    BY <2>1, LinesAre
<1>4. CASE a = Framing!Concatenated(t)
  <2>1. Len(Framing!Pieces(t)) <= MaxRecords /\ a.records = Framing!Pieces(t)
    BY <1>4 DEF Framing!Concatenated
  <2> QED
    BY <2>1, PiecesAre
<1> QED
  BY <1>1, <1>2, <1>3, <1>4

\* No framing loses, repeats or reorders a record.
LEMMA FramingsAreWhole == FramingInv => Framing!NothingLost
<1> SUFFICES ASSUME FramingInv, cut.out # Framing!Rejected PROVE
      LET r == cut.out.records
      IN  /\ \A k \in 1..(Len(r) - 1) :
               r[k][1] < r[k + 1][1] \/ (r[k][1] = r[k + 1][1] /\ 0 < r[k][2] /\ r[k + 1][2] = r[k][2] + 1)
          /\ \A n \in Framing!Positions(text) : (\E k \in DOMAIN r : r[k][1] = n) \/ Framing!Records(text, n) = <<>>
          /\ Len(r) <= MaxRecords
  BY DEF Framing!NothingLost
<1> DEFINE r == cut.out.records
<1>1. PICK mode \in Framing!Modes : cut = Cut(mode)
  BY DEF FramingInv, Framing!Unread
<1>2. cut.out = Framing!Framed(text, mode)
  BY <1>1 DEF Cut
<1>3. Ordered(text, r, Len(text)) /\ Len(r) <= MaxRecords
  BY <1>2, FramedIs DEF FramingInv
<1>4. Framing!Positions(text) \subseteq 1..Len(text) /\ Len(text) \in Nat
  BY PositionsAre DEF FramingInv
<1>5. \A n \in Framing!Positions(text) : n <= Len(text)
  BY <1>4
<1> HIDE DEF r
<1>6. r \in Seq(Pairs)
  BY <1>3 DEF Ordered
<1>7. DOMAIN r = 1..Len(r)
  BY <1>6
<1> QED
  BY <1>3, <1>5, <1>7 DEF Ordered, r

\* The automatic choice finds in lines what the framing by lines finds.
LEMMA ChoiceIsIrrelevant == FramingInv => Framing!FramingsAgree
<1> SUFFICES ASSUME FramingInv, cut.mode = "auto", \A n \in DOMAIN text : text[n].root # "array",
                    Framing!Lines(text) # Framing!Rejected
             PROVE  cut.out.records = Framing!Lines(text).records
  BY DEF Framing!FramingsAgree
<1>1. cut = Cut("auto")
  BY DEF FramingInv, Framing!Unread, Cut
<1>2. cut.out = Framing!Framed(text, "auto") /\ "auto" \in Framing!Modes
  BY <1>1 DEF Cut, Framing!Modes
<1>3. Framing!Lines(text).records = [n \in DOMAIN text |-> <<n, 0>>] /\ \A n \in DOMAIN text : text[n].root # "blank"
  BY DEF Framing!Lines, Framing!OnePerLine
<1>4. \A n \in DOMAIN text : text[n].root \notin {"array", "blank"}
  BY <1>3
<1>5. Framing!Framed(text, "auto") # Framing!Rejected
  <2>1. Framing!Framed(text, "auto") = Framing!Auto(text)
    BY DEF Framing!Framed
  <2> QED
    BY <2>1 DEF Framing!Auto
<1> QED
  BY <1>2, <1>3, <1>4, <1>5, FramedIs DEF FramingInv

\* What the import reads as lines, the probe and the package probe read alike.
LEMMA LineReadersAgree == FramingInv => Framing!ReadersAgree
<1> SUFFICES ASSUME FramingInv, cut.mode = "jsonl", cut.lines # Framing!Rejected
             PROVE  cut.out = cut.lines /\ (Len(text) > 1 => cut.member = cut.lines)
  BY DEF Framing!ReadersAgree
<1> DEFINE whole == [framing |-> "jsonl", records |-> [n \in DOMAIN text |-> <<n, 0>>]]
<1>1. cut = Cut("jsonl") /\ text \in Seq(Texts)
  BY DEF FramingInv, Framing!Unread, Cut
<1>2. cut.out = Framing!Framed(text, "jsonl") /\ cut.member = Framing!Member(text) /\ cut.lines = Framing!ImportLines(text)
  BY <1>1 DEF Cut
<1>3. /\ text # <<>> /\ Framing!Sound(text) /\ Framing!OnePerLine(text) /\ Framing!Shallow(text) /\ Len(text) <= MaxRecords
      /\ \A n \in DOMAIN text : Framing!LineBytes(text[n]) <= MaxLineBytes
      /\ cut.lines = whole
  BY <1>2 DEF Framing!ImportLines
<1>4. ASSUME NEW n \in DOMAIN text PROVE Framing!Padded(text[n]) <= MaxLineBytes
  <2>1. text[n] \in Texts
    BY <1>1
  <2>2. Framing!Padded(text[n]) \in Nat /\ MaxLineBytes \in Nat
    BY <2>1, DocumentAssumption DEF Texts, Framing!Padded
  <2>3. Framing!LineBytes(text[n]) <= MaxLineBytes
    BY <1>3
  <2> QED
    BY <2>2, <2>3 DEF Framing!LineBytes
<1>5. cut.out = whole
  <2>1. Framing!Framed(text, "jsonl") = Framing!Lines(text)
    BY DEF Framing!Framed
  <2> QED
    BY <1>2, <1>3, <1>4, <2>1 DEF Framing!Lines, Framing!LinesFit
<1>6. ASSUME Len(text) > 1 PROVE cut.member = whole
  <2>1. Cardinality(Framing!Positions(text)) = Len(text)
    BY <1>1, <1>3, PositionsAre DEF Framing!OnePerLine
  <2>2. Cardinality(Framing!Positions(text)) # 1
    BY <1>6, <2>1
  <2> QED
    BY <1>2, <1>3, <2>2, SameCardinality DEF Framing!Member
<1> QED
  BY <1>3, <1>5, <1>6

\* Splitting, depth scan, framings and parsers make the same of every text: the scan bounds
\* the parser's depth, splitting first changes nothing, and no record is lost or joined.
THEOREM TextsAreReadAlike == MCSpec => []TextReadersAgree
<1>1. ScanInv /\ FramingInv /\ [MCNext]_<<part, archiveVars, sourceVars, importVars, scanVars, framingVars, assessmentVars, gateVars>>
      => ScanInv' /\ FramingInv'
  BY ScanKeeps, FramingKeeps DEF MCNext
<1>2. ScanInv /\ FramingInv => TextReadersAgree
  BY ScansAgree, FramingsAreWhole, ChoiceIsIrrelevant, LineReadersAgree DEF TextReadersAgree
<1>3. MCInit => ScanInv /\ FramingInv
  BY ScanStarts, FramingStarts DEF MCInit
<1> QED
  BY <1>1, <1>2, <1>3, PTL DEF MCSpec

-------------------------------------------------------------------------------
(* The assessment                                                          *)

AssessmentInv ==
  /\ package \in {"JsonObject", "JsonLines", "AuditPackageZip"}
  /\ observations \in Seq(Assessment!Observation) /\ Len(observations) >= 1

\* The observations an assessment begins with are of its kind.
LEMMA BaseIsObservation == ASSUME NEW a \in {"Defender", "Firewall", "other"} PROVE Assessment!Base(a) \in Assessment!Observation
<1>1. Assessment!Complete \in Assessment!States
  BY DEF Assessment!Complete, Assessment!States, Assessment!OnOff
<1>2. [present |-> TRUE, run |-> 1, lists |-> TRUE, succeeded |-> TRUE] \in Assessment!Executions
  BY DEF Assessment!Executions
<1> QED
  BY <1>1, <1>2 DEF Assessment!Base, Assessment!Observation, Assessment!Areas

\* There is an observation to begin with.
LEMMA AssessmentStarts == Assessment!Init => AssessmentInv
<1> SUFFICES ASSUME Assessment!Init PROVE AssessmentInv
  OBVIOUS
<1>1. Assessment!Base("Defender") \in Assessment!Observation /\ Assessment!Base("Firewall") \in Assessment!Observation
      /\ Assessment!Base("other") \in Assessment!Observation
  BY BaseIsObservation
<1>2. \A a, b, c \in Assessment!Observation :
        /\ <<a>> \in Seq(Assessment!Observation) /\ Len(<<a>>) = 1
        /\ <<a, b, c>> \in Seq(Assessment!Observation) /\ Len(<<a, b, c>>) = 3
  OBVIOUS
<1> QED
  BY <1>1, <1>2 DEF Assessment!Init, AssessmentInv

\* One field of one observation changes.
LEMMA FieldIsChanged ==
  ASSUME AssessmentInv, NEW n \in DOMAIN observations, Assessment!ChangeField(n), UNCHANGED package
  PROVE  AssessmentInv'
<1> DEFINE O == Assessment!Observation
           o == observations[n]
<1>1. observations \in Seq(O) /\ n \in 1..Len(observations) /\ Len(observations) \in Nat /\ Len(observations) >= 1
  BY DEF AssessmentInv
<1>2. o \in O
  BY <1>1
<1>3. ASSUME NEW v \in O, observations' = [observations EXCEPT ![n] = v] PROVE AssessmentInv'
  <2>1. observations' \in Seq(O) /\ Len(observations') = Len(observations)
    BY <1>1, <1>3
  <2> QED
    BY <1>1, <2>1 DEF AssessmentInv
<1>4. o.execution \in Assessment!Executions /\ o.data \in Assessment!States
  BY <1>2 DEF Assessment!Observation
<1>5. ASSUME NEW a \in Assessment!Areas \cup {"other"},
             observations' = [observations EXCEPT ![n].area = a] \/ observations' = [observations EXCEPT ![n].schema = a]
      PROVE  AssessmentInv'
  <2>1. [o EXCEPT !.area = a] \in O /\ [o EXCEPT !.schema = a] \in O
    BY <1>2 DEF Assessment!Observation
  <2> QED
    BY <1>3, <1>5, <2>1
<1>6. ASSUME NEW f \in {"subject", "valid", "intact"}, observations' = [observations EXCEPT ![n][f] = FALSE] PROVE AssessmentInv'
  <2>1. [o EXCEPT ![f] = FALSE] \in O
    BY <1>2 DEF Assessment!Observation
  <2> QED
    BY <1>3, <1>6, <2>1
<1>7. ASSUME observations' = [observations EXCEPT ![n].run = 2] PROVE AssessmentInv'
  <2>1. [o EXCEPT !.run = 2] \in O
    BY <1>2 DEF Assessment!Observation
  <2> QED
    BY <1>3, <1>7, <2>1
<1>8. ASSUME NEW e \in Assessment!Executions, observations' = [observations EXCEPT ![n].execution = e] PROVE AssessmentInv'
  <2>1. [o EXCEPT !.execution = e] \in O
    BY <1>2 DEF Assessment!Observation
  <2> QED
    BY <1>3, <1>8, <2>1
<1>9. ASSUME observations' = [observations EXCEPT ![n].execution.run = 2] PROVE AssessmentInv'
  <2>1. [o.execution EXCEPT !.run = 2] \in Assessment!Executions
    BY <1>4 DEF Assessment!Executions
  <2> QED
    BY <1>8, <1>9, <2>1
<1>10. ASSUME NEW f \in {"present", "lists", "succeeded"}, observations' = [observations EXCEPT ![n].execution[f] = FALSE]
       PROVE  AssessmentInv'
  <2>1. [o.execution EXCEPT ![f] = FALSE] \in Assessment!Executions
    BY <1>4 DEF Assessment!Executions
  <2> QED
    BY <1>8, <1>10, <2>1
<1>11. ASSUME NEW f \in DOMAIN Assessment!Complete, NEW v \in {"Disabled", "Unknown", "Passive"},
              observations' = [observations EXCEPT ![n].data[f] = v] /\ observations'[n] \in O
       PROVE  AssessmentInv'
  <2>1. observations' = [observations EXCEPT ![n] = [o EXCEPT !.data = [o.data EXCEPT ![f] = v]]]
    BY <1>11
  <2>2. observations'[n] = [o EXCEPT !.data = [o.data EXCEPT ![f] = v]]
    BY <1>1, <2>1
  <2> QED
    BY <1>3, <1>11, <2>1, <2>2
<1> QED
  BY <1>5, <1>6, <1>7, <1>9, <1>10, <1>11 DEF Assessment!ChangeField

\* One field of an observation at a time goes wrong.
LEMMA AssessmentKeeps == AssessmentInv /\ [Assessment!Next]_assessmentVars => AssessmentInv'
<1> SUFFICES ASSUME AssessmentInv, [Assessment!Next]_assessmentVars PROVE AssessmentInv'
  OBVIOUS
<1>1. CASE Assessment!Next
  BY <1>1, FieldIsChanged DEF Assessment!Next, Assessment!Change
<1>2. CASE UNCHANGED assessmentVars
  BY <1>2 DEF assessmentVars, AssessmentInv
<1> QED
  BY <1>1, <1>2

\* What Accepted asks of each observation by itself, and of any two of them.
Alone(o) ==
  /\ ~Assessment!Mismatch(o)
  /\ Assessment!Supported(o) => o.subject /\ o.valid /\ o.intact /\ Assessment!Bound(o)
Single(s) == \A m, n \in DOMAIN s : m # n /\ s[m].area = s[n].area => s[n].area \notin Assessment!Areas

\* Observations are accepted for what each of them is, one an area, all of one run: nothing
\* of this depends on their order.
LEMMA AcceptedIsSymmetric ==
  ASSUME NEW s \in Seq(Assessment!Observation)
  PROVE  Assessment!Accepted(s) <=> (\A n \in DOMAIN s : Alone(s[n])) /\ Single(s) /\ Assessment!OneRun(s)
<1>1. DOMAIN s = 1..Len(s) /\ Len(s) \in Nat
  OBVIOUS
<1>2. ASSUME \A n \in DOMAIN s : ~Assessment!Rejects(s, n), NEW m \in DOMAIN s, NEW n \in DOMAIN s,
             m # n, s[m].area = s[n].area, s[n].area \in Assessment!Areas
      PROVE  FALSE
  <2>1. CASE m < n
    <3>1. m \in 1..(n - 1)
      BY <1>1, <2>1
    <3> QED
      BY <1>2, <3>1 DEF Assessment!Rejects, Assessment!Duplicate
  <2>2. CASE n < m
    <3>1. n \in 1..(m - 1)
      BY <1>1, <2>2
    <3> QED
      BY <1>2, <3>1 DEF Assessment!Rejects, Assessment!Duplicate
  <2> QED
    BY <1>1, <1>2, <2>1, <2>2
<1>3. ASSUME Single(s), NEW n \in DOMAIN s, s[n].area \in Assessment!Areas PROVE ~Assessment!Duplicate(s, n)
  <2>1. \A m \in 1..(n - 1) : m \in DOMAIN s /\ m # n
    BY <1>1
  <2> QED
    BY <1>3, <2>1 DEF Single, Assessment!Duplicate
<1>4. ASSUME NEW n \in DOMAIN s
      PROVE  ~Assessment!Rejects(s, n) <=> Alone(s[n]) /\ (s[n].area \in Assessment!Areas => ~Assessment!Duplicate(s, n))
  BY DEF Assessment!Rejects, Alone
<1>5. (\A n \in DOMAIN s : ~Assessment!Rejects(s, n)) => Single(s)
  BY <1>2 DEF Single
<1> QED
  BY <1>3, <1>4, <1>5 DEF Assessment!Accepted

\* Of an accepted import, a rule's area has at most one observation.
LEMMA SelectedIsTheOne ==
  ASSUME NEW s \in Seq(Assessment!Observation), Assessment!Accepted(s), NEW r \in DOMAIN Assessment!Rules,
         NEW n \in DOMAIN s, s[n].area = Assessment!Rules[r].area
  PROVE  Assessment!Of(s, r) = {n} /\ Assessment!Selected(s, r) = s[n]
<1>1. Assessment!Rules[r].area \in Assessment!Areas
  BY DEF Assessment!Rules, Assessment!Areas
<1>2. Single(s)
  BY AcceptedIsSymmetric
<1>3. Assessment!Of(s, r) = {n}
  BY <1>1, <1>2 DEF Assessment!Of, Single
<1>4. (CHOOSE k \in Assessment!Of(s, r) : \A m \in Assessment!Of(s, r) : m <= k) = n
  <2>1. n <= n
    OBVIOUS
  <2> QED
    BY <1>3, <2>1
<1> QED
  BY <1>3, <1>4 DEF Assessment!Selected

\* Reversing the observations changes no row.
LEMMA OrderDoesNotMatter == ASSUME AssessmentInv PROVE Assessment!OrderIsIrrelevant
<1> DEFINE s == observations
           t == Assessment!Reverse(s)
           L == Len(s)
<1>1. s \in Seq(Assessment!Observation) /\ L \in Nat /\ DOMAIN s = 1..L
  BY DEF AssessmentInv
<1>2. t = [i \in 1..L |-> s[(L - i) + 1]]
  BY DEF Assessment!Reverse
<1>3. \A i \in 1..L : (L - i) + 1 \in 1..L /\ t[i] = s[(L - i) + 1] /\ s[i] = t[(L - i) + 1]
  BY <1>1, <1>2
<1>4. DOMAIN t = 1..L /\ t \in Seq(Assessment!Observation)
  <2>1. t \in [1..L -> Assessment!Observation]
    BY <1>1, <1>2, <1>3
  <2> QED
    BY <1>1, <2>1
<1> HIDE DEF s, t, L
<1>5. ASSUME NEW u \in Seq(Assessment!Observation), NEW v \in Seq(Assessment!Observation), DOMAIN u = 1..L, DOMAIN v = 1..L,
             \A i \in 1..L : (L - i) + 1 \in 1..L /\ u[i] = v[(L - i) + 1] /\ v[i] = u[(L - i) + 1], Assessment!Accepted(u)
      PROVE  Assessment!Accepted(v)
  <2>1. (\A n \in 1..L : Alone(u[n])) /\ Single(u) /\ Assessment!OneRun(u)
    BY <1>5, AcceptedIsSymmetric
  <2>2. \A n \in 1..L : Alone(v[n])
    BY <1>5, <2>1
  <2>3. Single(v)
    <3> SUFFICES ASSUME NEW m \in 1..L, NEW n \in 1..L, m # n, v[m].area = v[n].area PROVE v[n].area \notin Assessment!Areas
      BY <1>5 DEF Single
    <3>1. (L - m) + 1 # (L - n) + 1 /\ (L - m) + 1 \in DOMAIN u /\ (L - n) + 1 \in DOMAIN u
      BY <1>1, <1>5
    <3> QED
      BY <1>5, <2>1, <3>1 DEF Single
  <2>4. Assessment!OneRun(v)
    <3> SUFFICES ASSUME NEW m \in 1..L, NEW n \in 1..L PROVE v[m].run = v[n].run
      BY <1>5 DEF Assessment!OneRun
    <3>1. v[m] = u[(L - m) + 1] /\ v[n] = u[(L - n) + 1] /\ (L - m) + 1 \in DOMAIN u /\ (L - n) + 1 \in DOMAIN u
      BY <1>5
    <3> QED
      BY <2>1, <3>1 DEF Assessment!OneRun
  <2> QED
    BY <1>5, <2>2, <2>3, <2>4, AcceptedIsSymmetric
<1>6. Assessment!Accepted(s) <=> Assessment!Accepted(t)
  BY <1>1, <1>3, <1>4, <1>5
<1>7. ASSUME Assessment!Accepted(s), NEW r \in DOMAIN Assessment!Rules PROVE Assessment!Row(s, r) = Assessment!Row(t, r)
  <2>1. CASE \E n \in 1..L : s[n].area = Assessment!Rules[r].area
    <3> PICK n \in 1..L : s[n].area = Assessment!Rules[r].area
      BY <2>1
    <3> DEFINE k == (L - n) + 1
    <3>1. k \in 1..L /\ t[k] = s[n]
      BY <1>3
    <3>2. Assessment!Of(s, r) = {n} /\ Assessment!Selected(s, r) = s[n]
      BY <1>1, <1>7, SelectedIsTheOne
    <3>3. Assessment!Of(t, r) = {k} /\ Assessment!Selected(t, r) = t[k]
      <4>1. k \in DOMAIN t /\ t[k].area = Assessment!Rules[r].area /\ Assessment!Accepted(t)
        BY <1>4, <1>6, <1>7, <3>1
      <4> HIDE DEF k
      <4> QED
        BY <1>4, <4>1, SelectedIsTheOne
    <3> QED
      BY <3>1, <3>2, <3>3 DEF Assessment!Row
  <2>2. CASE \A n \in 1..L : s[n].area # Assessment!Rules[r].area
    <3>1. Assessment!Of(s, r) = {} /\ Assessment!Of(t, r) = {}
      BY <1>1, <1>3, <1>4, <2>2 DEF Assessment!Of
    <3> QED
      BY <3>1 DEF Assessment!Row
  <2> QED
    BY <2>1, <2>2
<1>8. Assessment!Assess(s) = Assessment!Assess(t)
  BY <1>6, <1>7 DEF Assessment!Assess
<1> QED
  BY <1>8 DEF Assessment!OrderIsIrrelevant, s, t

\* No concern is reported only where the one observation of the area says so.
LEMMA RowsAreBacked == ASSUME AssessmentInv PROVE Assessment!NothingIsMadeUp
<1> DEFINE s == observations
<1> SUFFICES ASSUME Assessment!Accepted(s), NEW r \in DOMAIN Assessment!Rules,
                    Assessment!Row(s, r).outcome = "NoConcernReported"
             PROVE  \E o \in ToSet(s) :
        /\ \A p \in ToSet(s) : p.area = o.area => p = o
        /\ o.area = Assessment!Rules[r].area /\ o.schema = o.area /\ o.valid /\ o.intact /\ o.run = s[1].run
        /\ o.execution.present => o.execution.succeeded /\ o.execution.run = o.run /\ o.execution.lists
        /\ package = "AuditPackageZip" => o.execution.present
        /\ \A f \in DOMAIN Assessment!Rules[r].checks : o.data[f] = Assessment!Rules[r].checks[f].expected
  BY DEF Assessment!NothingIsMadeUp, ToSet, Assessment!ToSet
<1>1. s \in Seq(Assessment!Observation) /\ Len(s) \in Nat /\ DOMAIN s = 1..Len(s) /\ 1 \in DOMAIN s
  BY DEF AssessmentInv
<1>2. Assessment!Of(s, r) # {}
  BY DEF Assessment!Row
<1>3. PICK n \in DOMAIN s : s[n].area = Assessment!Rules[r].area
  BY <1>2 DEF Assessment!Of
<1>4. Assessment!Of(s, r) = {n} /\ Assessment!Selected(s, r) = s[n]
  BY <1>1, <1>3, SelectedIsTheOne
<1> DEFINE o == s[n]
<1>5. Assessment!Reason(o) = "none" /\ Assessment!Known(o.data, r) /\ ~Assessment!Differs(o.data, r)
  BY <1>4 DEF Assessment!Row, Assessment!Outcome
<1>6. Assessment!Supported(o) /\ ~Assessment!NotCollected(o)
  BY <1>5 DEF Assessment!Reason
<1>7. Alone(o) /\ Single(s) /\ Assessment!OneRun(s)
  BY <1>1, AcceptedIsSymmetric
<1>8. o \in ToSet(s)
  BY DEF ToSet
<1>9. \A p \in ToSet(s) : p.area = o.area => p = o
  BY <1>6, <1>7 DEF ToSet, Single, Assessment!Supported
<1>10. o.run = s[1].run
  BY <1>1, <1>7 DEF Assessment!OneRun
<1>11. o.execution.present \in BOOLEAN /\ o.execution.succeeded \in BOOLEAN
  <2>1. o \in Assessment!Observation
    BY <1>1
  <2> QED
    BY <2>1 DEF Assessment!Observation, Assessment!Executions
<1> HIDE DEF o
<1>12. /\ o.area = Assessment!Rules[r].area /\ o.schema = o.area /\ o.valid /\ o.intact
       /\ o.execution.present => o.execution.succeeded /\ o.execution.run = o.run /\ o.execution.lists
       /\ package = "AuditPackageZip" => o.execution.present
  BY <1>3, <1>6, <1>7, <1>11 DEF o, Alone, Assessment!Supported, Assessment!NotCollected, Assessment!Bound
<1>13. \A f \in DOMAIN Assessment!Rules[r].checks : o.data[f] = Assessment!Rules[r].checks[f].expected
  BY <1>5 DEF Assessment!Differs
<1> QED
  BY <1>8, <1>9, <1>10, <1>12, <1>13

\* A concern which a sound observation states is shown.
LEMMA ConcernsAreShown == ASSUME AssessmentInv PROVE Assessment!ConcernIsShown
<1> DEFINE s == observations
<1> SUFFICES ASSUME Assessment!Accepted(s), NEW n \in DOMAIN s, NEW r \in DOMAIN Assessment!Rules,
                    s[n].area = Assessment!Rules[r].area, Assessment!Reason(s[n]) = "none",
                    Assessment!Known(s[n].data, r), Assessment!Differs(s[n].data, r)
             PROVE  Assessment!Row(s, r).outcome = "Concern"
  BY DEF Assessment!ConcernIsShown, Assessment!ToSet, Assessment!Known, Assessment!Differs
<1>1. Assessment!Of(s, r) = {n} /\ Assessment!Selected(s, r) = s[n]
  BY SelectedIsTheOne DEF AssessmentInv
<1> QED
  BY <1>1 DEF Assessment!Row, Assessment!Outcome

\* The preview of the direct operation says what the assessment says.
LEMMA PreviewsAgree == ASSUME AssessmentInv PROVE Assessment!PreviewAgrees
<1> SUFFICES ASSUME NEW m \in Assessment!RawModes, NEW t \in Assessment!RawRealtime
             PROVE LET vals == Assessment!Normalized(m, t)
                       o    == [observations[1] EXCEPT !.data = vals]
                   IN  /\ Assessment!Supported(o) /\ o.area = "Defender" /\ Assessment!Reason(o) = "none"
                          => Assessment!Preview(vals).realtime = Assessment!Row(<<o>>, "realtime").outcome
                       /\ m # "Normal" \/ t = "null" => Assessment!Preview(vals).realtime = "NotTested"
                       /\ \A r \in DOMAIN Assessment!Rules \ {"realtime"} : Assessment!Preview(vals)[r] = "NotTested"
  BY DEF Assessment!PreviewAgrees
<1> DEFINE d == Assessment!Normalized(m, t)
           o == [observations[1] EXCEPT !.data = d]
<1>1. observations[1] \in Assessment!Observation
  BY DEF AssessmentInv
<1>2. o.data = d
  BY <1>1 DEF Assessment!Observation
<1>3. DOMAIN Assessment!Rules = {"realtime", "domain", "private"} /\ Assessment!Rules["realtime"].area = "Defender"
      /\ DOMAIN Assessment!Rules["realtime"].checks = {"mode", "realtime"}
      /\ Assessment!Rules["realtime"].checks["mode"].known = {"Active"}
      /\ Assessment!Rules["realtime"].checks["realtime"].known = {"Enabled", "Disabled"}
  BY DEF Assessment!Rules, Assessment!Check, Assessment!OnOff
<1>4. m # "Normal" \/ t = "null" => ~Assessment!Known(d, "realtime")
  BY <1>3 DEF Assessment!Known, Assessment!Normalized, Assessment!ModeOf, Assessment!RealtimeOf, Assessment!RawModes, Assessment!RawRealtime
<1>5. \A r \in DOMAIN Assessment!Rules :
        Assessment!Preview(d)[r] = Assessment!Outcome(r = "realtime" /\ Assessment!Known(d, r), Assessment!Differs(d, r))
  BY DEF Assessment!Preview
<1>6. Assessment!Preview(d).realtime = Assessment!Outcome(Assessment!Known(d, "realtime"), Assessment!Differs(d, "realtime"))
  <2>1. "realtime" \in DOMAIN Assessment!Rules
    BY <1>3
  <2>2. Assessment!Preview(d)["realtime"]
          = Assessment!Outcome("realtime" = "realtime" /\ Assessment!Known(d, "realtime"), Assessment!Differs(d, "realtime"))
    BY <1>5, <2>1
  <2> QED
    BY <2>2 DEF Assessment!Outcome
<1>7. \A r \in DOMAIN Assessment!Rules \ {"realtime"} : Assessment!Preview(d)[r] = "NotTested"
  BY <1>5 DEF Assessment!Outcome
<1>8. m # "Normal" \/ t = "null" => Assessment!Preview(d).realtime = "NotTested"
  BY <1>4, <1>6 DEF Assessment!Outcome
<1>9. ASSUME o.area = "Defender", Assessment!Reason(o) = "none"
      PROVE  Assessment!Preview(d).realtime = Assessment!Row(<<o>>, "realtime").outcome
  <2>1. <<o>>[1] = o /\ DOMAIN <<o>> = {1}
    <3> HIDE DEF o
    <3> QED
      OBVIOUS
  <2> HIDE DEF o
  <2>2. Assessment!Of(<<o>>, "realtime") = {1}
    BY <1>3, <1>9, <2>1 DEF Assessment!Of
  <2>3. Assessment!Selected(<<o>>, "realtime") = o
    <3>1. (CHOOSE n \in {1} : \A k \in {1} : k <= n) = 1
      OBVIOUS
    <3> QED
      BY <2>1, <2>2, <3>1 DEF Assessment!Selected
  <2> QED
    BY <1>2, <1>6, <1>9, <2>2, <2>3 DEF Assessment!Row, Assessment!Outcome
<1> HIDE DEF d
<1> QED
  BY <1>7, <1>8, <1>9 DEF d

\* What is said of the protection is what one sound observation says, in whatever order the
\* observations come, and the preview of the direct operation agrees with it.
THEOREM AssessmentBacked == MCSpec => []AssessmentIsBacked
<1>1. AssessmentInv /\ [MCNext]_<<part, archiveVars, sourceVars, importVars, scanVars, framingVars, assessmentVars, gateVars>>
      => AssessmentInv'
  BY AssessmentKeeps DEF MCNext
<1>2. AssessmentInv => AssessmentIsBacked
  BY OrderDoesNotMatter, RowsAreBacked, ConcernsAreShown, PreviewsAgree DEF AssessmentIsBacked
<1>3. MCInit => AssessmentInv
  BY AssessmentStarts DEF MCInit
<1> QED
  BY <1>1, <1>2, <1>3, PTL DEF MCSpec

-------------------------------------------------------------------------------
(* The output gate                                                         *)

\* While nothing went wrong the gate holds exactly what the pipes delivered, and whatever
\* spoils an output makes it fail.
OpenInv ==
  ~Gate!Failing /\ ~completed =>
    /\ storage = delivered /\ storage \in Seq({"ok", "bad"}) /\ capacity = MaxSourceBytes /\ Len(storage) <= MaxSourceBytes
    /\ ~spoilt /\ preview = "none"

FlagsInv ==
  /\ capacity \in {0, MaxSourceBytes} /\ ended \subseteq {"stdout", "stderr"}
  /\ completed \in BOOLEAN /\ spoilt \in BOOLEAN

GateInv == OpenInv /\ Gate!NothingKept /\ FlagsInv /\ last \in {"none", firstFailure}

\* An open gate has delivered nothing.
LEMMA GateStarts == Gate!Init => GateInv
<1> SUFFICES ASSUME Gate!Init PROVE GateInv
  OBVIOUS
<1> USE DEF Gate!Init
<1>1. storage \in Seq({"ok", "bad"}) /\ Len(storage) = 0
  OBVIOUS
<1>2. OpenInv
  BY <1>1, LimitAssumption DEF OpenInv
<1>3. FlagsInv /\ Gate!NothingKept
  BY DEF FlagsInv, Gate!NothingKept
<1> QED
  BY <1>2, <1>3 DEF GateInv

\* Types, and that a gate which ended or failed keeps no byte.
LEMMA GateTyped == GateInv => Gate!TypeOK /\ Gate!NothingKept
<1> SUFFICES ASSUME GateInv PROVE Gate!TypeOK
  BY DEF GateInv
<1>1. Len(storage) <= MaxSourceBytes
  BY LimitAssumption DEF GateInv, OpenInv, Gate!NothingKept, Gate!Failing
<1> QED
  BY <1>1 DEF Gate!TypeOK, GateInv, FlagsInv

\* What one call may do to a preview and to the first failure.
PreviewStep == preview = "none" /\ preview' # "none" => preview' = delivered /\ ~spoilt /\ ended = {"stdout", "stderr"}
FailureStep == firstFailure # "none" => firstFailure' = firstFailure /\ last' = firstFailure /\ preview' = preview

\* A call that is refused.
LEMMA RejectKeeps ==
  ASSUME GateInv, NEW code, code # "none", Gate!Reject(code), spoilt' \in BOOLEAN,
         Gate!Failing => code = firstFailure
  PROVE  GateInv' /\ PreviewStep /\ FailureStep
BY DEF GateInv, OpenInv, Gate!NothingKept, FlagsInv, Gate!Failing, Gate!Reject, Gate!First, Gate!Clear, Gate!Cleared,
  PreviewStep, FailureStep

\* A call on a gate that failed or completed is refused, and so is any that does not do
\* what it is for.
LEMMA CallKeeps ==
  ASSUME GateInv, NEW ACTION Body, Gate!Call(Body), spoilt' \in BOOLEAN,
         Body /\ ~Gate!Failing /\ ~completed => GateInv' /\ PreviewStep /\ FailureStep
  PROVE  GateInv' /\ PreviewStep /\ FailureStep
<1>1. CASE Gate!Failing
  BY <1>1, RejectKeeps DEF Gate!Call, Gate!Failing
<1>2. CASE ~Gate!Failing /\ completed
  BY <1>2, RejectKeeps DEF Gate!Call, Gate!Failing
<1>3. CASE ~Gate!Failing /\ ~completed
  BY <1>3 DEF Gate!Call
<1> QED
  BY <1>1, <1>2, <1>3

\* A chunk is kept whole or refused.
LEMMA StdoutKeeps ==
  ASSUME GateInv, NEW c \in Gate!Chunks, Gate!Stdout(c), delivered' = delivered \o c, UNCHANGED spoilt
  PROVE  GateInv' /\ PreviewStep /\ FailureStep
<1>1. spoilt' \in BOOLEAN
  BY DEF GateInv, FlagsInv
<1>2. c \in Seq({"ok", "bad"})
  <2> PICK m \in 0..MaxChunk : c \in [1..m -> {"ok", "bad"}]
    BY DEF Gate!Chunks, Gate!SeqOf
  <2> QED
    OBVIOUS
<1>3. CASE Gate!Failing
  BY <1>1, <1>3, RejectKeeps DEF Gate!Stdout, Gate!Call, Gate!Failing
<1>4. CASE ~Gate!Failing /\ completed
  BY <1>1, <1>4, RejectKeeps DEF Gate!Stdout, Gate!Call, Gate!Failing
<1>5. CASE ~Gate!Failing /\ ~completed /\ (Gate!Reject("DIRECT_STDOUT_AFTER_END") \/ Gate!Reject("DIRECT_STDOUT_LIMIT"))
  BY <1>1, <1>5, RejectKeeps
<1>6. ASSUME ~Gate!Failing, ~completed, Gate!Fits(c), storage' = storage \o c, last' = "none",
             UNCHANGED <<capacity, ended, completed, firstFailure, preview>>
      PROVE  GateInv' /\ PreviewStep /\ FailureStep
  <2>1. storage = delivered /\ storage \in Seq({"ok", "bad"}) /\ capacity = MaxSourceBytes
    BY <1>6 DEF GateInv, OpenInv
  <2>2. storage' \in Seq({"ok", "bad"}) /\ Len(storage') = Len(storage) + Len(c)
    BY <1>2, <1>6, <2>1
  <2>3. Len(storage') <= MaxSourceBytes
    BY <1>2, <1>6, <2>1, <2>2, LimitAssumption DEF Gate!Fits
  <2>4. OpenInv'
    BY <1>6, <2>1, <2>2, <2>3 DEF GateInv, OpenInv, Gate!Failing
  <2> QED
    BY <1>6, <2>4 DEF GateInv, FlagsInv, Gate!NothingKept, Gate!Failing, PreviewStep, FailureStep
<1>7. CASE ~Gate!Failing /\ ~completed
  <2>1. CASE "stdout" \in ended
    BY <1>5, <1>7, <2>1 DEF Gate!Stdout, Gate!Call
  <2>2. CASE "stdout" \notin ended /\ ~Gate!Fits(c)
    BY <1>5, <1>7, <2>2 DEF Gate!Stdout, Gate!Call
  <2>3. CASE "stdout" \notin ended /\ Gate!Fits(c)
    BY <1>6, <1>7, <2>3 DEF Gate!Stdout, Gate!Call
  <2> QED
    BY <2>1, <2>2, <2>3
<1> QED
  BY <1>3, <1>4, <1>7

\* A byte on stderr is never accepted.
LEMMA StderrKeeps ==
  ASSUME GateInv, NEW c \in Gate!Chunks, Gate!Stderr(c), spoilt' = (spoilt \/ c # <<>>), UNCHANGED delivered
  PROVE  GateInv' /\ PreviewStep /\ FailureStep
<1>1. spoilt' \in BOOLEAN
  BY DEF GateInv, FlagsInv
<1>2. CASE Gate!Failing
  BY <1>1, <1>2, RejectKeeps DEF Gate!Stderr, Gate!Call, Gate!Failing
<1>3. CASE ~Gate!Failing /\ completed
  BY <1>1, <1>3, RejectKeeps DEF Gate!Stderr, Gate!Call, Gate!Failing
<1>4. CASE ~Gate!Failing /\ (Gate!Reject("DIRECT_STDERR_AFTER_END") \/ Gate!Reject("DIRECT_STDERR_PRESENT"))
  BY <1>1, <1>4, RejectKeeps
<1>5. ASSUME ~Gate!Failing, ~completed, c = <<>>, last' = "none",
             UNCHANGED <<storage, capacity, ended, completed, firstFailure, preview>>
      PROVE  GateInv' /\ PreviewStep /\ FailureStep
  BY <1>5 DEF GateInv, OpenInv, FlagsInv, Gate!NothingKept, Gate!Failing, PreviewStep, FailureStep
<1>6. CASE ~Gate!Failing /\ ~completed
  <2>1. CASE "stderr" \in ended
    BY <1>4, <1>6, <2>1 DEF Gate!Stderr, Gate!Call
  <2>2. CASE "stderr" \notin ended /\ c # <<>>
    BY <1>4, <1>6, <2>2 DEF Gate!Stderr, Gate!Call
  <2>3. CASE "stderr" \notin ended /\ c = <<>>
    BY <1>5, <1>6, <2>3 DEF Gate!Stderr, Gate!Call
  <2> QED
    BY <2>1, <2>2, <2>3
<1> QED
  BY <1>2, <1>3, <1>6

\* The end of a stream counts once.
LEMMA EndStreamKeeps ==
  ASSUME GateInv, NEW s \in {"stdout", "stderr"}, Gate!EndStream(s), UNCHANGED <<delivered, spoilt>>
  PROVE  GateInv' /\ PreviewStep /\ FailureStep
<1>1. spoilt' \in BOOLEAN
  BY DEF GateInv, FlagsInv
<1>2. CASE Gate!Failing
  BY <1>1, <1>2, RejectKeeps DEF Gate!EndStream, Gate!Call, Gate!Failing
<1>3. CASE ~Gate!Failing /\ completed
  BY <1>1, <1>3, RejectKeeps DEF Gate!EndStream, Gate!Call, Gate!Failing
<1>4. CASE ~Gate!Failing /\ ~completed /\ s \in ended
  <2>1. Gate!DuplicateEnd[s] # "none"
    BY DEF Gate!DuplicateEnd
  <2> QED
    BY <1>1, <1>4, <2>1, RejectKeeps DEF Gate!EndStream, Gate!Call
<1>5. CASE ~Gate!Failing /\ ~completed /\ s \notin ended
  BY <1>5 DEF Gate!EndStream, Gate!Call, GateInv, OpenInv, FlagsInv, Gate!NothingKept, Gate!Failing, PreviewStep, FailureStep
<1> QED
  BY <1>2, <1>3, <1>4, <1>5

\* An abort, and a chunk that is none, always fail the gate.
LEMMA AbortKeeps ==
  ASSUME GateInv, Gate!InvalidChunk \/ (\E r \in Gate!AbortReasons : Gate!Abort(r)), spoilt' \in BOOLEAN
  PROVE  GateInv' /\ PreviewStep /\ FailureStep
<1>1. ASSUME NEW code, code # "none", Gate!Call(Gate!Reject(code))
      PROVE  GateInv' /\ PreviewStep /\ FailureStep
  BY <1>1, RejectKeeps DEF Gate!Call, Gate!Failing
<1>2. CASE Gate!InvalidChunk
  BY <1>1, <1>2 DEF Gate!InvalidChunk
<1>3. ASSUME NEW r \in Gate!AbortReasons, Gate!Abort(r) PROVE GateInv' /\ PreviewStep /\ FailureStep
  <2>1. r \in DOMAIN Gate!AbortCode => Gate!AbortCode[r] # "none"
    BY DEF Gate!AbortCode
  <2> QED
    BY <1>1, <1>3, <2>1 DEF Gate!Abort
<1> QED
  BY <1>2, <1>3

\* The preview is made of all bytes, at the end of both streams.
LEMMA CompleteKeeps ==
  ASSUME GateInv, NEW e \in Gate!Exits, Gate!Complete(e), spoilt' = (spoilt \/ e # "zero"), UNCHANGED delivered
  PROVE  GateInv' /\ PreviewStep /\ FailureStep
<1>1. spoilt' \in BOOLEAN
  BY DEF GateInv, FlagsInv
<1>2. CASE Gate!Failing
  BY <1>1, <1>2, RejectKeeps DEF Gate!Complete, Gate!Call, Gate!Failing
<1>3. CASE ~Gate!Failing /\ completed
  BY <1>1, <1>3, RejectKeeps DEF Gate!Complete, Gate!Call, Gate!Failing
<1>4. CASE ~Gate!Failing /\ (Gate!Reject("DIRECT_EXIT_INVALID") \/ Gate!Reject("DIRECT_EXIT_NONZERO")
                              \/ Gate!Reject("DIRECT_STREAMS_INCOMPLETE"))
  BY <1>1, <1>4, RejectKeeps
<1>5. ASSUME ~Gate!Failing, ~completed, e = "zero", Gate!BothEnded, completed' = TRUE, Gate!Clear, UNCHANGED ended,
             IF Gate!Readable(storage) THEN preview' = storage /\ last' = "none" /\ UNCHANGED firstFailure
             ELSE firstFailure' = "DIRECT_OUTPUT_INVALID" /\ last' = firstFailure' /\ UNCHANGED preview
      PROVE  GateInv' /\ PreviewStep /\ FailureStep
  BY <1>5 DEF GateInv, OpenInv, FlagsInv, Gate!NothingKept, Gate!Failing, Gate!BothEnded, Gate!Clear, Gate!Cleared,
    PreviewStep, FailureStep
<1>6. CASE ~Gate!Failing /\ ~completed
  <2>1. CASE e = "invalid"
    BY <1>4, <1>6, <2>1 DEF Gate!Complete, Gate!Call
  <2>2. CASE e = "nonzero"
    BY <1>4, <1>6, <2>2 DEF Gate!Complete, Gate!Call
  <2>3. CASE e = "zero" /\ ~Gate!BothEnded
    BY <1>4, <1>6, <2>3 DEF Gate!Complete, Gate!Call
  <2>4. CASE e = "zero" /\ Gate!BothEnded
    BY <1>5, <1>6, <2>4 DEF Gate!Complete, Gate!Call
  <2> QED
    BY <2>1, <2>2, <2>3, <2>4 DEF Gate!Exits
<1> QED
  BY <1>2, <1>3, <1>6

\* Every call keeps the gate's invariant, returns a preview only of a whole output, and
\* repeats the failure that came first.
LEMMA GateKeeps ==
  ASSUME GateInv, [Gate!Next]_gateVars
  PROVE  GateInv' /\ [PreviewStep]_gateVars /\ [FailureStep]_gateVars
<1>1. CASE \E c \in Gate!Chunks : Gate!Stdout(c) /\ delivered' = delivered \o c /\ UNCHANGED spoilt /\ Gate!Counted
  BY <1>1, StdoutKeeps
<1>2. CASE \E c \in Gate!Chunks : Gate!Stderr(c) /\ spoilt' = (spoilt \/ c # <<>>) /\ UNCHANGED delivered /\ Gate!Counted
  BY <1>2, StderrKeeps
<1>3. CASE Gate!InvalidChunk /\ UNCHANGED <<delivered, spoilt>> /\ Gate!Counted
  BY <1>3, AbortKeeps DEF GateInv, FlagsInv
<1>4. CASE \E s \in {"stdout", "stderr"} : Gate!EndStream(s) /\ UNCHANGED <<delivered, spoilt>> /\ Gate!Counted
  BY <1>4, EndStreamKeeps
<1>5. CASE \E r \in Gate!AbortReasons : Gate!Abort(r) /\ spoilt' = TRUE /\ UNCHANGED delivered /\ Gate!Counted
  BY <1>5, AbortKeeps
<1>6. CASE \E e \in Gate!Exits : Gate!Complete(e) /\ spoilt' = (spoilt \/ e # "zero") /\ UNCHANGED delivered /\ Gate!Counted
  BY <1>6, CompleteKeeps
<1>7. CASE UNCHANGED gateVars
  BY <1>7 DEF gateVars, GateInv, OpenInv, FlagsInv, Gate!NothingKept, Gate!Failing
<1> QED
  BY <1>1, <1>2, <1>3, <1>4, <1>5, <1>6, <1>7 DEF Gate!Next

\* The gate gives one preview, of a whole and clean output whose pipes both ended, or the
\* first failure, which sticks; and it keeps nothing afterwards.
THEOREM GateIsWhole == MCSpec => PreviewIsWhole
<1>1. MCInit => GateInv
  BY GateStarts DEF MCInit
<1>2. ASSUME GateInv, [MCNext]_<<part, archiveVars, sourceVars, importVars, scanVars, framingVars, assessmentVars, gateVars>>
      PROVE  GateInv' /\ [PreviewStep]_gateVars /\ [FailureStep]_gateVars
  <2>1. [Gate!Next]_gateVars
    BY <1>2 DEF MCNext
  <2> QED
    BY <1>2, <2>1, GateKeeps
<1>3. [PreviewStep]_gateVars /\ [FailureStep]_gateVars
      => /\ [preview = "none" /\ preview' # "none" => preview' = delivered /\ ~spoilt /\ ended = {"stdout", "stderr"}]_(Gate!vars)
         /\ [firstFailure # "none" /\ calls' # calls
              => firstFailure' = firstFailure /\ last' = firstFailure /\ preview' = preview]_(Gate!vars)
  BY DEF gateVars, Gate!vars, Gate!gate, Gate!history, PreviewStep, FailureStep
<1> QED
  BY <1>1, <1>2, <1>3, GateTyped, PTL DEF MCSpec, PreviewIsWhole, Gate!PreviewIsWhole, Gate!FirstFailureSticks

===============================================================================
