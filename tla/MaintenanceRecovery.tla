------------------------- MODULE MaintenanceRecovery -------------------------
(***************************************************************************)
(* The second reference model of the maintenance store                     *)
(* (src/tools/lib/maintenance-recovery-model.mjs): every operation, the    *)
(* recoveries and the compaction of the journal included, is admitted by   *)
(* an offer bound to all that was observed, and an interrupted compaction  *)
(* is reconciled while both its representations are retained.              *)
(*                                                                         *)
(* simulateMaintenanceRecovery runs one session over a list of events;     *)
(* here every accepted event is an action, a refused one ends the session, *)
(* and Open starts the next session on the resulting storage and minimum.  *)
(* Digests are modelled by what they bind: the tail of the chain by its    *)
(* sequence number and origin, a state by that tail.                       *)
(***************************************************************************)
EXTENDS Naturals, SequencesExt

CONSTANTS
  Digests, MaxEpoch,             \* what may be selected, and its security epochs
  MaxCounter, MaxGen, MaxSeq,    \* Number.MAX_SAFE_INTEGER for each counter
  MaxRecords, MaxLineage,        \* RECOVERY_LIMITS
  NoDigest, None                 \* null

ASSUME RecoveryAssumption ==
  /\ {MaxEpoch, MaxCounter, MaxGen, MaxSeq, MaxRecords, MaxLineage} \subseteq Nat \ {0}
  /\ MaxRecords >= 6 /\ MaxSeq >= 6 /\ NoDigest \notin Digests

VARIABLES
  anchor, records, head, candidate, obsolete, known,    \* the storage
  min,                                                  \* the conservative minimum
  s,                                                    \* the state the storage reconstructs to
  open, auth, pending, headRequired, admitted, waiting, \* the session
  verified, published, completed, acks,
  finished, shown                        \* history: ended transactions, those ever blocked

storage  == <<anchor, records, head, candidate, obsolete, known>>
progress == <<headRequired, admitted, waiting, verified, published, completed, acks>>
history  == <<finished, shown>>
vars     == <<storage, min, s, open, auth, pending, progress, history>>

Nothing       == [digest |-> NoDigest, epoch |-> 0]
Selections    == {Nothing} \cup [digest : Digests, epoch : 0..MaxEpoch]
Publications  == {"Maintenance", "RecoverPublication"}
CheckpointOps == {"CompactTerminalState", "ReconcileCheckpoint"}
MetaOps       == CheckpointOps \cup {"RetireAdmittedCandidate"}
Operations    == Publications \cup MetaOps \cup {"FinishCommittedCleanup"}
Targets       == {"FinalizeCandidate", "RestorePermittedPrevious"}
Kinds         == {"Admission", "Block", "Commit", "Complete", "Retire", "AuthorizeCheckpoint"}
Phases        == {"Stable", "Admitted", "Blocked", "Committed"}
Classes       == {"Stable", "Active", "CheckpointPending", "PreparedUnpublished", "PublishedUnretired", "Conflict"}
Larger(a, b)  == IF a > b THEN a ELSE b

-----------------------------------------------------------------------------
(* The documents of the schema                                             *)

Tails     == Nat \X {"anchor", "record"}
Terminals == [tx : Nat, op : Operations \cup {"None"},
              outcome : {"None", "CandidateRetired", "MetadataAuthorized", "Completed"}]
Actives   == [tx : Nat, op : Operations, cand : Selections, seen : BOOLEAN, lineage : Seq(Nat),
              stage : Phases, target : Nat, origin : Nat, first : Operations,
              original : Selections, previous : Selections]
States    == [seq : Nat, counter : Nat, gen : Nat, genFloor : Nat, secFloor : Nat, sel : Selections,
              terminal : Terminals, tail : Tails, active : Actives \cup {None}]
Anchors   == [seq : Nat, counter : Nat, gen : Nat, genFloor : Nat, secFloor : Nat, sel : Selections,
              terminal : Terminals]
Heads     == [seq : Nat, counter : Nat, gen : Nat, genFloor : Nat, secFloor : Nat, sel : Selections,
              phase : Phases, tail : Tails]
Minima    == [counter : Nat, gen : Nat, secFloor : Nat]
Bases     == [tail : Tails, head : Heads, candidate : Anchors \cup {None}, obsolete : Anchors \cup {None},
              min : Minima, cls : Classes]
Offers    == [op : Operations, tx : Nat, cand : Selections, target : Targets \cup {"None"}, origin : Nat,
              basis : Bases]
Records   == [seq : Nat, kind : Kinds, tx : Nat, offer : Offers \cup {None}]
Writes    == [target : {"Record"}, flushed : BOOLEAN, record : Records]
               \cup [target : {"Head"}, flushed : BOOLEAN, checkpoint : BOOLEAN, head : Heads]
               \cup [target : {"Checkpoint"}, flushed : BOOLEAN, anchor : Anchors]

ASSUME NullAssumption ==
  /\ None \notin Actives /\ None \notin States /\ None \notin Anchors
  /\ None \notin Offers /\ None \notin Writes

-----------------------------------------------------------------------------
\* Plausible faults, used only to show that the properties can fail.
BlockAndCommit(op)        == IF op \in Publications THEN 3 ELSE 2
AnyStage(old)             == old.stage = "Admitted"
CandidateFloor(st)        == st.active.cand.epoch
-----------------------------------------------------------------------------
(* Capacity, anchors, heads and classification                             *)

\* Records an admission must leave room for: its own, and two for a compaction.
Costs(op) == CASE op \in Publications -> 6 [] op \in CheckpointOps -> 2 [] OTHER -> 4

HasCapacity(count, st, op) ==
  /\ count + Costs(op) <= MaxRecords /\ st.seq + Costs(op) <= MaxSeq
  /\ st.counter < MaxCounter
  /\ st.active # None => Len(st.active.lineage) < MaxLineage

\* The outcome each operation ends with.
OutcomeOf(op) == CASE op \in CheckpointOps -> "MetadataAuthorized"
                   [] op = "RetireAdmittedCandidate" -> "CandidateRetired"
                   [] OTHER -> "Completed"

\* An anchor is a settled state: no publication is above it.
ValidAnchor(a) ==
  /\ a.gen = a.genFloor /\ (a.sel # Nothing => a.sel.epoch >= a.secFloor)
  /\ a.terminal.op # "None" => a.terminal.tx = a.counter /\ a.terminal.outcome = OutcomeOf(a.terminal.op)

AtAnchor(a) ==
  [seq |-> a.seq, counter |-> a.counter, gen |-> a.gen, genFloor |-> a.genFloor,
   secFloor |-> a.secFloor, sel |-> a.sel, terminal |-> a.terminal,
   tail |-> <<a.seq, "anchor">>, active |-> None]

AnchorOf(st) ==
  [seq |-> st.seq, counter |-> st.counter, gen |-> st.gen, genFloor |-> st.genFloor,
   secFloor |-> st.secFloor, sel |-> st.sel, terminal |-> st.terminal]

\* A publication has begun and is not known to be committed.
Unresolved(st) == st.active # None /\ st.active.seen /\ st.active.stage # "Committed"

HeadFor(st) ==
  [seq |-> st.seq, counter |-> st.counter, gen |-> st.gen, genFloor |-> st.genFloor,
   secFloor |-> st.secFloor, sel |-> IF Unresolved(st) THEN Nothing ELSE st.sel,
   phase |-> IF st.active = None THEN "Stable" ELSE st.active.stage, tail |-> st.tail]

Minimum(st) == [counter |-> st.counter, gen |-> st.genFloor, secFloor |-> st.secFloor]

Disk == [records |-> records, head |-> head, candidate |-> candidate, obsolete |-> obsolete]

\* The candidate the last admission reconciles, the only one that may be obsolete.
Reconciling(rs) ==
  LET admissions == SelectSeq(rs, LAMBDA r : r.kind = "Admission")
  IN  IF admissions = <<>> \/ Last(admissions).offer.op # "ReconcileCheckpoint" THEN None
      ELSE Last(admissions).offer.basis.candidate

Classified(d, st, m) ==
  IF Minimum(st) # m THEN "Conflict"
  ELSE IF d.candidate = None
  THEN IF d.obsolete # None \/ d.head # HeadFor(st) THEN "Conflict"
       ELSE IF st.active # None THEN "Active"
       ELSE IF st.terminal.outcome = "MetadataAuthorized" /\ d.records # <<>>
       THEN "CheckpointPending" ELSE "Stable"
  ELSE IF st.active # None \/ d.candidate # AnchorOf(st) \/ d.obsolete \notin {None, Reconciling(d.records)}
  THEN "Conflict"
  ELSE IF d.head = HeadFor(st) THEN "PreparedUnpublished"
  ELSE IF d.head = HeadFor(AtAnchor(d.candidate)) THEN "PublishedUnretired" ELSE "Conflict"

-----------------------------------------------------------------------------
(* Offers and records                                                      *)

Observed(d, st, m) ==
  [tail |-> st.tail, head |-> d.head, candidate |-> d.candidate, obsolete |-> d.obsolete,
   min |-> m, cls |-> Classified(d, st, m)]

Settled(cls)     == cls = "Stable"
Retirable(old)   == old.stage = "Admitted" /\ ~old.seen
Interrupted(cls) == cls \in {"PreparedUnpublished", "PublishedUnretired"}

InScope(st, o, count) ==
  LET old == st.active
      cls == o.basis.cls
  IN  /\ o.origin = IF old = None THEN 0 ELSE old.origin
      /\ o.op # "RecoverPublication" => o.target = "None"
      /\ CASE o.op = "Maintenance" -> old = None /\ Settled(cls)
           [] o.op = "RecoverPublication" ->
                /\ Unresolved(st) /\ o.target \in Targets
                /\ o.cand = IF o.target = "FinalizeCandidate" THEN old.original ELSE old.previous
           [] o.op = "FinishCommittedCleanup" ->
                old # None /\ old.stage = "Committed" /\ o.cand = st.sel
           [] o.op = "RetireAdmittedCandidate" ->
                /\ old # None /\ old.first = "Maintenance" /\ Retirable(old)
                /\ old.previous = st.sel /\ o.cand = st.sel
           [] o.op = "CompactTerminalState" ->
                old = None /\ o.cand = st.sel /\ Settled(cls) /\ count > 0
           [] o.op = "ReconcileCheckpoint" ->
                old = None /\ o.cand = st.sel /\ Interrupted(cls) /\ o.basis.obsolete = None
      /\ o.cand # Nothing => o.cand.epoch >= Larger(st.secFloor, st.sel.epoch)
      /\ o.op \in Publications => st.genFloor < MaxGen

Authorized(d, st, o) ==
  /\ o.basis = Observed(d, st, o.basis.min) /\ o.basis.cls # "Conflict"
  /\ HasCapacity(Len(d.records), st, o.op) /\ o.tx = st.counter + 1
  /\ InScope(st, o, Len(d.records))

SeenBefore(old) == old # None /\ old.seen
Extended(old, o) == IF old = None THEN <<o.tx>> ELSE Append(old.lineage, o.tx)

Admit(st, o) ==
  LET old == st.active
  IN  [st EXCEPT !.counter = @ + 1, !.active =
        [tx |-> o.tx, op |-> o.op, cand |-> o.cand, seen |-> SeenBefore(old), lineage |-> Extended(old, o),
         stage    |-> IF o.op = "FinishCommittedCleanup" THEN "Committed" ELSE "Admitted",
         target   |-> IF o.op \in Publications THEN st.genFloor + 1 ELSE st.gen,
         origin   |-> IF old = None THEN o.tx   ELSE old.origin,
         first    |-> IF old = None THEN o.op   ELSE old.first,
         original |-> IF old = None THEN o.cand ELSE old.original,
         previous |-> IF old = None THEN st.sel ELSE old.previous]]

RaisedFloor(st) == Larger(st.secFloor, Larger(st.active.cand.epoch, st.sel.epoch))

Outcome(kind) == CASE kind = "Retire" -> "CandidateRetired"
                   [] kind = "AuthorizeCheckpoint" -> "MetadataAuthorized"
                   [] OTHER -> "Completed"

\* advance(): whether the record is admissible after st, and the state it leads to.
Fits(d, st, r) ==
  IF r.kind = "Admission" THEN r.offer # None /\ r.tx = r.offer.tx /\ Authorized(d, st, r.offer)
  ELSE /\ st.active # None /\ r.offer = None /\ r.tx = st.active.tx
       /\ LET a == st.active
          IN  CASE r.kind = "Block"    -> a.op \in Publications /\ a.stage = "Admitted"
                [] r.kind = "Commit"   -> a.stage = "Blocked"
                [] r.kind = "Retire"   -> a.op = "RetireAdmittedCandidate" /\ Retirable(a)
                [] r.kind = "AuthorizeCheckpoint" -> a.op \in CheckpointOps /\ a.stage = "Admitted"
                [] r.kind = "Complete" -> a.stage = "Committed"

Advanced(st, r) ==
  CASE r.kind = "Admission" -> Admit(st, r.offer)
    [] r.kind = "Block"  -> [st EXCEPT !.active.stage = "Blocked", !.active.seen = TRUE,
                                       !.genFloor = st.active.target, !.secFloor = RaisedFloor(st)]
    [] r.kind = "Commit" -> [st EXCEPT !.active.stage = "Committed", !.gen = st.active.target,
                                       !.sel = st.active.cand]
    [] OTHER -> [st EXCEPT !.active = None, !.terminal =
                  [tx |-> st.active.tx, op |-> st.active.op, outcome |-> Outcome(r.kind)]]

Chained(st, r) == [Advanced(st, r) EXCEPT !.seq = r.seq, !.tail = <<r.seq, "record">>]

\* A plausible fault: the published head alone instead of what the admission was offered on.
OnlyTheHead(before, r, st) == [records |-> before, head |-> HeadFor(st), candidate |-> None, obsolete |-> None]

\* A historical admission is checked against the representations it was offered on.
Historical(before, r, st) ==
  IF r.offer = None THEN [records |-> before, head |-> HeadFor(st), candidate |-> None, obsolete |-> None]
  ELSE [records |-> before, head |-> r.offer.basis.head, candidate |-> r.offer.basis.candidate,
        obsolete |-> r.offer.basis.obsolete]

Rechecked(before, r, st) ==
  IF /\ st # None /\ st.seq < MaxSeq /\ r.seq = st.seq + 1
     /\ Fits(Historical(before, r, st), st, r)
  THEN Chained(st, r) ELSE None

\* reconstruct(): None when the anchor is invalid or a record does not fit (the set binds
\* each state once).
Reconstruct(a, rs) ==
  LET after[n \in 0..Len(rs)] ==
        IF n = 0 THEN IF ValidAnchor(a) THEN AtAnchor(a) ELSE None
                 ELSE CHOOSE next \in {Rechecked(SubSeq(rs, 1, n - 1), rs[n], st) : st \in {after[n - 1]}} : TRUE
  IN  after[Len(rs)]

-----------------------------------------------------------------------------
(* Sessions                                                                *)

FirstAnchor == [seq |-> 0, counter |-> 0, gen |-> 0, genFloor |-> 0, secFloor |-> 0, sel |-> Nothing,
                terminal |-> [tx |-> 0, op |-> "None", outcome |-> "None"]]

Init ==
  /\ anchor = FirstAnchor /\ records = <<>> /\ head = HeadFor(AtAnchor(FirstAnchor))
  /\ candidate = None /\ obsolete = None /\ known = TRUE
  /\ s = AtAnchor(FirstAnchor) /\ min = Minimum(s)
  /\ open = FALSE /\ auth = None /\ pending = None /\ acks = {}
  /\ headRequired = FALSE /\ admitted = FALSE /\ waiting = FALSE
  /\ verified = FALSE /\ published = FALSE /\ completed = FALSE
  /\ finished = {} /\ shown = {}

Raise(st) == min' = [counter  |-> Larger(min.counter, st.counter), gen |-> Larger(min.gen, st.genFloor),
                     secFloor |-> Larger(min.secFloor, st.secFloor)]

\* prepareRecoveryOffer: only offers that are in scope for what is observed now.
OffersFor(st) ==
  {o \in [op : Operations, tx : {st.counter + 1}, cand : Selections, target : Targets \cup {"None"},
          origin : {IF st.active = None THEN 0 ELSE st.active.origin}, basis : {Observed(Disk, st, min)}] :
     Authorized(Disk, st, o)}

\* A session on the stored state with a new approved offer, that of the previous session,
\* or none.  An expired, foreign or declined offer is a refusal: the session ends.
Open ==
  /\ ~open /\ known
  /\ s' = Reconstruct(anchor, records) /\ s' # None
  /\ Classified(Disk, s', min) # "Conflict"
  /\ open' = TRUE /\ Raise(s')
  /\ auth' \in OffersFor(s') \cup {auth, None}
  /\ UNCHANGED <<storage, pending, progress, history>>

\* What was written but is not the published head any more, or may not be there, makes
\* the image Unknown for good.
Close(uncertain) ==
  /\ open' = FALSE
  /\ known' = (known /\ ~uncertain /\ pending = None /\ ~headRequired)
  /\ pending' = None /\ acks' = {}
  /\ headRequired' = FALSE /\ admitted' = FALSE /\ waiting' = FALSE
  /\ verified' = FALSE /\ published' = FALSE /\ completed' = FALSE

\* A crash, a cancellation, a refused event or the end of the events.
EndSession ==
  /\ open /\ Close(FALSE)
  /\ UNCHANGED <<anchor, records, head, candidate, obsolete, min, s, auth, history>>

MayWrite == open /\ ~waiting /\ pending = None

NotWritten(next) == Close(FALSE) /\ UNCHANGED min

NewRecord(kind) == [seq |-> s.seq + 1, kind |-> kind, tx |-> auth.tx,
                    offer |-> IF kind = "Admission" THEN auth ELSE None]

\* The minimum is raised before an effect that may persist, not for a known NotWritten.
WriteRecord(kind) ==
  /\ MayWrite /\ ~headRequired /\ ~verified /\ auth # None
  /\ admitted = (kind # "Admission")
  /\ s.seq < MaxSeq /\ Len(records) < MaxRecords
  /\ LET r == NewRecord(kind)
     IN  /\ Fits(Disk, s, r)
         /\ \/ /\ pending' = [target |-> "Record", flushed |-> FALSE, record |-> r]
               /\ Raise(Chained(s, r)) /\ UNCHANGED <<known, open, progress>>
            \/ Close(TRUE) /\ Raise(Chained(s, r))
            \/ NotWritten(Chained(s, r))
  /\ UNCHANGED <<anchor, records, head, candidate, obsolete, s, auth, history>>

FlushRecord(r) ==
  /\ records' = Append(records, r) /\ s' = Chained(s, r)
  /\ admitted' = (admitted \/ r.kind = "Admission")
  /\ finished' = finished \cup IF s'.active = None THEN ToSet(s.active.lineage) ELSE {}
  /\ shown' = shown \cup IF r.kind = "Block" THEN {s.active.origin} ELSE {}

\* From now on the write is assumed durable, or the session ends uncertain.  A new
\* checkpoint makes the one it reconciles obsolete.
Flush ==
  /\ open /\ ~waiting /\ pending # None /\ ~pending.flushed
  /\ \/ /\ pending' = [pending EXCEPT !.flushed = TRUE]
        /\ IF pending.target = "Record" THEN FlushRecord(pending.record)
           ELSE UNCHANGED <<records, s, admitted, history>>
        /\ head' = IF pending.target = "Head" THEN pending.head ELSE head
        /\ IF pending.target = "Checkpoint" THEN obsolete' = candidate /\ candidate' = pending.anchor
           ELSE UNCHANGED <<candidate, obsolete>>
        /\ UNCHANGED <<known, open, headRequired, waiting, verified, published, completed, acks>>
     \/ Close(TRUE) /\ UNCHANGED <<records, head, candidate, obsolete, s, history>>
  /\ UNCHANGED <<anchor, min, auth>>

ReadBack ==
  /\ open /\ ~waiting /\ pending # None /\ pending.flushed
  /\ \/ /\ pending' = None
        /\ headRequired' = (pending.target = "Record")
        /\ published' = (published \/ (pending.target = "Head" /\ pending.checkpoint))
        /\ verified' = (verified \/ pending.target = "Checkpoint")
        /\ UNCHANGED <<known, open, admitted, waiting, completed, acks>>
     \/ Close(TRUE)
  /\ UNCHANGED <<anchor, records, head, candidate, obsolete, min, s, auth, history>>

\* A write that is complete, known not to have happened, or uncertain.
Attempt(write) ==
  \/ pending' = write /\ UNCHANGED <<known, open, progress>>
  \/ \E uncertain \in BOOLEAN : Close(uncertain)

WriteHead ==
  /\ MayWrite /\ (headRequired \/ verified) /\ ~published
  /\ Attempt([target |-> "Head", flushed |-> FALSE, checkpoint |-> verified,
              head |-> HeadFor(IF verified THEN AtAnchor(candidate) ELSE s)])
  /\ UNCHANGED <<anchor, records, head, candidate, obsolete, min, s, auth, history>>

WriteCheckpoint ==
  /\ MayWrite /\ ~headRequired /\ admitted /\ s.active = None
  /\ s.terminal.op \in CheckpointOps /\ s.terminal.tx = auth.tx
  /\ head = HeadFor(s) /\ obsolete = None /\ ~verified /\ ~completed
  /\ Attempt([target |-> "Checkpoint", flushed |-> FALSE, anchor |-> AnchorOf(s)])
  /\ UNCHANGED <<anchor, records, head, candidate, obsolete, min, s, auth, history>>

RetireJournal ==
  /\ MayWrite /\ ~headRequired /\ verified /\ published /\ s.active = None
  /\ \/ /\ anchor' = candidate /\ records' = <<>> /\ candidate' = None /\ obsolete' = None
        /\ s' = AtAnchor(candidate) /\ completed' = TRUE /\ verified' = FALSE /\ published' = FALSE
        /\ UNCHANGED <<known, open, pending, headRequired, admitted, waiting, acks>>
     \/ \E uncertain \in BOOLEAN : Close(uncertain) /\ UNCHANGED <<anchor, records, candidate, obsolete, s>>
  /\ UNCHANGED <<head, min, auth, history>>

\* An acknowledgment may be lost; then only a status query or a crash may follow.
Acknowledge(phase) ==
  /\ MayWrite /\ ~headRequired /\ admitted /\ head = HeadFor(s)
  /\ phase \notin acks /\ acks' = acks \cup {phase} /\ waiting' \in BOOLEAN
  /\ IF phase = "Admission" THEN s.active # None
     ELSE /\ s.active = None /\ s.terminal.tx = auth.tx
          /\ s.terminal.op \in CheckpointOps => completed
  /\ UNCHANGED <<storage, min, s, open, auth, pending, headRequired, admitted, verified, published,
                 completed, history>>

\* Only the query of the current transaction ends the wait.
QueryStatus ==
  /\ open /\ waiting /\ auth.tx = s.counter /\ waiting' = FALSE
  /\ UNCHANGED <<storage, min, s, open, auth, pending, headRequired, admitted, verified, published,
                 completed, acks, history>>

Next ==
  \/ Open \/ EndSession \/ Flush \/ ReadBack \/ WriteHead \/ WriteCheckpoint \/ RetireJournal \/ QueryStatus
  \/ \E kind \in Kinds : WriteRecord(kind)
  \/ \E phase \in {"Admission", "Result"} : Acknowledge(phase)

Spec == Init /\ [][Next]_vars

-----------------------------------------------------------------------------
(* What a projection reports                                               *)

Quiet == pending = None /\ ~headRequired /\ Classified(Disk, s, min) \in {"Stable", "Active"}

StatusOf(t) ==
  IF ~Quiet THEN "RecoveryRequired"
  ELSE IF s.active # None /\ t \in ToSet(s.active.lineage)
  THEN IF s.active.seen /\ ~admitted THEN "RecoveryRequired" ELSE "Active"
  ELSE IF t = s.terminal.tx
  THEN IF s.terminal.outcome = "CandidateRetired" THEN "CandidateRetired" ELSE "Completed"
  ELSE "Retired"

SelectionKnown == known /\ Quiet /\ ~(s.active # None /\ s.active.seen)

\* checkedDocument() of the codec: which snapshots are encoded or decoded.
Encodable ==
  /\ \A part \in {anchor, head, candidate, obsolete} \ {None} :
       part.counter <= min.counter /\ part.genFloor <= min.gen /\ part.secFloor <= min.secFloor
  /\ \A n \in 1..Len(records) : records[n].seq = anchor.seq + n /\ records[n].tx <= min.counter
  /\ known /\ candidate = None
       => LET st == Reconstruct(anchor, records) IN st # None /\ Classified(Disk, st, min) # "Conflict"

-----------------------------------------------------------------------------
(* Properties                                                              *)

\* Every counter stays within its bound: no operation passes its own overflow check.
TypeOK ==
  /\ {known, open, headRequired, admitted, waiting, verified, published, completed} \subseteq BOOLEAN
  /\ s.seq \in 0..MaxSeq /\ s.counter \in 0..MaxCounter /\ s.secFloor \in 0..MaxEpoch
  /\ {s.gen, s.genFloor} \subseteq 0..MaxGen /\ s.sel \in Selections
  /\ s.active # None => s.active.target \in 0..MaxGen /\ Len(s.active.lineage) \in 1..MaxLineage
  /\ Len(records) <= MaxRecords /\ acks \subseteq {"Admission", "Result"}

\* A restart rechecks every historical admission against the representations it was
\* offered on, and finds exactly the state the sessions worked with.
RestartAgrees == ~open /\ known => Reconstruct(anchor, records) = s

\* Records an admitted operation still has to write.
Outstanding(work) ==
  IF work.op \notin Publications THEN 1
  ELSE CASE work.stage = "Admitted" -> 3 [] work.stage = "Blocked" -> 2 [] OTHER -> 1

\* An admitted operation never runs out of journal or sequence numbers half way.
AdmittedCanEnd ==
  open /\ admitted /\ s.active # None
    => /\ Len(records) + Outstanding(s.active) <= MaxRecords
       /\ s.seq + Outstanding(s.active) <= MaxSeq

\* A full journal can still be compacted: whatever ended, crashes and recoveries
\* included, left the two records a compaction needs.
RoomToCompact ==
  s.active = None /\ s.terminal.op \notin CheckpointOps /\ s.counter < MaxCounter
    => HasCapacity(Len(records), s, "CompactTerminalState")

\* The snapshot any session leaves, interrupted anywhere, can be encoded and decoded: no
\* minimum is below what is stored, and a Known image without a checkpoint is explained.
SnapshotKeeps == ~open => Encodable

\* Every checkpoint kept beside the journal, a superseded one included, shows the same
\* deployment as the journal: whichever survives, nothing is rolled back.
CheckpointsAgree ==
  \A c \in {candidate, obsolete} \ {None} :
    /\ <<c.gen, c.genFloor, c.secFloor, c.sel>> = <<s.gen, s.genFloor, s.secFloor, s.sel>>
    /\ c.counter <= s.counter

\* A candidate is reported as retired only when none of the attempts to install it ever
\* began to publish.
RetiredNeverShown ==
  \A r \in ToSet(records) :
    r.kind = "Retire" => \A q \in ToSet(records) :
      q.offer # None /\ q.tx = r.tx => q.offer.origin \notin shown

\* A selection is reported only when it is the settled one: no publication above it.
KnownIsSettled == SelectionKnown => s.gen = s.genFloor /\ head.sel = s.sel

\* A status answer tells finished work from unfinished work for every transaction ever
\* admitted, across recoveries by later transactions, restarts and compaction.
StatusIsTrue ==
  open /\ Quiet =>
    \A t \in 1..s.counter : t \in finished <=> StatusOf(t) \in {"Completed", "CandidateRetired", "Retired"}

\* Journal, head, checkpoints and minimum tell one story, at every restart.
StoreAgrees == TypeOK /\ RestartAgrees /\ SnapshotKeeps /\ CheckpointsAgree

\* What was admitted fits, and what ended leaves room to compact.
AdmittedFits == AdmittedCanEnd /\ RoomToCompact

\* What a projection reports of a transaction, a candidate or the selection is so.
ReportsAreTrue == StatusIsTrue /\ KnownIsSettled /\ RetiredNeverShown

\* What is stored behaves as the ledger all maintenance models share.
L == INSTANCE MaintenanceLedger WITH
       Null <- Nothing, counter <- s.counter, gen <- s.gen, genFloor <- s.genFloor,
       secFloor <- s.secFloor, sel <- s.sel,
       phase <- IF s.active = None THEN "Stable" ELSE IF Unresolved(s) THEN "Blocked" ELSE s.active.stage
ImplementsLedger == L!Ledger
=============================================================================
