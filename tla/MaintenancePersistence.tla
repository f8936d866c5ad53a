------------------------ MODULE MaintenancePersistence ------------------------
(***************************************************************************)
(* The reference model of the maintenance store                            *)
(* (src/tools/lib/maintenance-persistence-model.mjs): a journal of         *)
(* records, a head that publishes the selection, checkpoints, and sessions *)
(* that admit one transaction each, crash anywhere and restart on what the *)
(* previous session left.                                                  *)
(*                                                                         *)
(* simulateMaintenancePersistence runs one session over a list of events;  *)
(* here every accepted event is an action, a refused one ends the session, *)
(* and Open starts the next session on the resulting storage and           *)
(* watermarks.  A digest is modelled by what it binds: the tail of the     *)
(* chain by its sequence number and origin, a state by that tail.          *)
(***************************************************************************)
EXTENDS Naturals, SequencesExt

CONSTANTS
  Digests, MaxEpoch,             \* what may be selected, and its security epochs
  MaxCounter, MaxGen, MaxSeq,    \* Number.MAX_SAFE_INTEGER for each counter
  MaxRecords, MaxLineage,        \* MAINTENANCE_PERSISTENCE_LIMITS
  NoDigest, None                 \* null

ASSUME PersistenceAssumption ==
  /\ {MaxEpoch, MaxCounter, MaxGen, MaxSeq, MaxRecords, MaxLineage} \subseteq Nat \ {0}
  /\ NoDigest \notin Digests

VARIABLES
  anchor, records, head, candidate, known,   \* storage; known: integrity is "Known"
  open, st, intent,                          \* the session and its replayed state
  pending, headRequired, verified, published, quiescent, reserved, waiting,
  acks, marks,                               \* what was acknowledged; the watermarks
  finished                                   \* history: transactions of completed lineages

storage == <<anchor, records, head, candidate, known>>
flags   == <<headRequired, verified, published, quiescent, reserved, waiting, acks>>
vars    == <<storage, open, st, intent, pending, flags, marks, finished>>

Nothing    == [digest |-> NoDigest, epoch |-> 0]
Selections == {Nothing} \cup [digest : Digests, epoch : 0..MaxEpoch]
Targets    == {"FinalizeCandidate", "RestorePermittedPrevious", "FinishCommittedCleanup"}
Max2(a, b) == IF a > b THEN a ELSE b
Kinds      == {"Reserve", "Block", "Commit", "Complete"}

\* The documents of the store and of a session, null apart from every one of them.
Tails   == Nat \X {"anchor", "record"}
Actives == [tx : Nat, cleanup : BOOLEAN, cand : Selections, lineage : Seq(Nat),
            stage : {"Admitted", "Blocked", "Committed"}, target : Nat, origin : Nat,
            publishing : BOOLEAN, original : Selections, previous : Selections]
States  == [seq : Nat, tail : Tails, counter : Nat, gen : Nat, genFloor : Nat, secFloor : Nat,
            sel : Selections, last : Nat, active : Actives \cup {None}]
Anchors == [seq : Nat, counter : Nat, gen : Nat, secFloor : Nat, sel : Selections, last : Nat]
Intents == [kind : {"Maintenance"}, origin : {0}, target : {"none"}, tx : Nat,
            sel : Selections, expected : Tails, approved : BOOLEAN]
             \cup [kind : {"Recovery"}, origin : Nat, target : Targets, tx : Nat,
                   sel : Selections, expected : Tails, approved : BOOLEAN]
Records == [seq : Nat, kind : Kinds, tx : Nat, intent : Intents \cup {None}]
Heads   == [seq : Nat, tail : Tails, counter : Nat, gen : Nat, genFloor : Nat, secFloor : Nat,
            phase : {"Stable", "Admitted", "Blocked", "Committed"}, sel : Selections]
Writes  == [target : {"Journal"}, flushed : BOOLEAN, record : Records]
             \cup [target : {"Head"}, flushed : BOOLEAN, head : Heads]
             \cup [target : {"Checkpoint"}, flushed : BOOLEAN]

ASSUME NullAssumption ==
  /\ None \notin Actives /\ None \notin States /\ None \notin Anchors
  /\ None \notin Intents /\ None \notin Writes

-----------------------------------------------------------------------------
\* Plausible faults, used only to show that the properties can fail.
ForgetsLineage(old, t)  == <<t>>
KeepsState(s)           == s
CandidateEpoch(s)       == s.active.cand.epoch
-----------------------------------------------------------------------------
(* States, heads and the journal                                           *)

FromAnchor(a) ==
  [seq |-> a.seq, tail |-> <<a.seq, "anchor">>, counter |-> a.counter, gen |-> a.gen,
   genFloor |-> a.gen, secFloor |-> a.secFloor, sel |-> a.sel, last |-> a.last, active |-> None]

ValidAnchor(a) ==
  /\ a.last # 0 => a.last = a.counter
  /\ a.sel # Nothing => a.sel.epoch >= a.secFloor

AnchorFor(s) ==
  [seq |-> s.seq, counter |-> s.counter, gen |-> s.gen, secFloor |-> s.secFloor,
   sel |-> s.sel, last |-> s.last]

Publishing(s) == s.active # None /\ s.active.publishing

HeadFor(s) ==
  [seq |-> s.seq, tail |-> s.tail, counter |-> s.counter, gen |-> s.gen,
   genFloor |-> s.genFloor, secFloor |-> s.secFloor,
   phase |-> IF Publishing(s) THEN "Blocked" ELSE IF s.active = None THEN "Stable" ELSE s.active.stage,
   sel |-> IF Publishing(s) THEN Nothing ELSE s.sel]

NoOverflow(s, i) ==
  s.counter < MaxCounter /\ (i.target # "FinishCommittedCleanup" => s.genFloor < MaxGen)

PermitsEpoch(s, i) == i.sel # Nothing => i.sel.epoch >= Max2(s.secFloor, s.sel.epoch)

\* What a recovery of the active lineage must select.
Expected(s, target) ==
  CASE target = "FinishCommittedCleanup" -> s.sel
    [] target = "FinalizeCandidate"      -> s.active.original
    [] OTHER                             -> s.active.previous

ReserveFits(s, i) ==
  /\ i.expected = s.tail /\ i.approved
  /\ NoOverflow(s, i) /\ i.tx = s.counter + 1
  /\ IF s.active = None THEN i.kind = "Maintenance"
     ELSE /\ i.kind = "Recovery" /\ i.origin = s.active.origin
          /\ Len(s.active.lineage) < MaxLineage
          /\ IF i.target = "FinishCommittedCleanup"
             THEN s.active.stage = "Committed" /\ ~s.active.publishing
             ELSE s.active.publishing
          /\ i.sel = Expected(s, i.target)
  /\ PermitsEpoch(s, i)

\* A publication never reuses a generation an interrupted one may have shown.
FreshTarget(s) == s.genFloor + 1

Extended(old, t) == IF old = None THEN <<t>> ELSE Append(old.lineage, t)

Reserved(s, i) ==
  LET old == s.active
      cleanup == i.target = "FinishCommittedCleanup"
  IN  [s EXCEPT !.counter = @ + 1, !.active =
        [tx |-> i.tx, cleanup |-> cleanup, cand |-> i.sel, lineage |-> Extended(old, i.tx),
         stage |-> IF cleanup THEN "Committed" ELSE "Admitted",
         target |-> IF cleanup THEN s.gen ELSE FreshTarget(s),
         origin     |-> IF old = None THEN i.tx  ELSE old.origin,
         publishing |-> IF old = None THEN FALSE ELSE old.publishing,
         original   |-> IF old = None THEN i.sel ELSE old.original,
         previous   |-> IF old = None THEN s.sel ELSE old.previous]]

RaisedGenFloor(s) == s.active.target
RaisedSecFloor(s) == Max2(s.secFloor, Max2(s.sel.epoch, s.active.cand.epoch))

\* advance(): whether the record is admissible in s, and the state after it.
Fits(s, kind, t, i) ==
  IF kind = "Reserve" THEN i # None /\ i.tx = t /\ ReserveFits(s, i)
  ELSE /\ s.active # None /\ s.active.tx = t
       /\ CASE kind = "Block"    -> s.active.stage = "Admitted" /\ ~s.active.cleanup
            [] kind = "Commit"   -> s.active.stage = "Blocked"
            [] kind = "Complete" -> s.active.stage = "Committed"

Advanced(s, kind, t, i) ==
  CASE kind = "Reserve"  -> Reserved(s, i)
    [] kind = "Block"    -> [s EXCEPT !.active.stage = "Blocked", !.active.publishing = TRUE,
                                      !.genFloor = RaisedGenFloor(s), !.secFloor = RaisedSecFloor(s)]
    [] kind = "Commit"   -> [s EXCEPT !.active.stage = "Committed", !.active.publishing = FALSE,
                                      !.gen = s.active.target, !.sel = s.active.cand]
    [] kind = "Complete" -> [s EXCEPT !.last = t, !.active = None]

Chained(s, r) ==
  [Advanced(s, r.kind, r.tx, r.intent) EXCEPT !.seq = r.seq, !.tail = <<r.seq, "record">>]

Replayed(s, r) ==
  IF s # None /\ r.seq = s.seq + 1 /\ Fits(s, r.kind, r.tx, r.intent) THEN Chained(s, r) ELSE None

\* replay(): None when a stored record does not fit (the set binds each state once).
Replay(a, rs) ==
  LET after[n \in 0..Len(rs)] ==
        IF n = 0 THEN IF ValidAnchor(a) THEN FromAnchor(a) ELSE None
                 ELSE CHOOSE next \in {Replayed(s, rs[n]) : s \in {after[n - 1]}} : TRUE
  IN  after[Len(rs)]

Durable == Replay(anchor, records)

Raise(s) == marks' = [counter  |-> Max2(marks.counter, s.counter),
                      gen      |-> Max2(marks.gen, s.genFloor),
                      secFloor |-> Max2(marks.secFloor, s.secFloor)]

-----------------------------------------------------------------------------
(* Sessions                                                                *)

FirstAnchor == [seq |-> 0, counter |-> 0, gen |-> 0, secFloor |-> 0, sel |-> Nothing, last |-> 0]

Init ==
  /\ anchor = FirstAnchor /\ records = <<>> /\ candidate = None /\ known = TRUE
  /\ head = HeadFor(FromAnchor(FirstAnchor))
  /\ open = FALSE /\ st = FromAnchor(FirstAnchor) /\ intent = None /\ pending = None
  /\ headRequired = FALSE /\ verified = FALSE /\ published = FALSE
  /\ quiescent = FALSE /\ reserved = FALSE /\ waiting = FALSE /\ acks = {}
  /\ marks = [counter |-> 0, gen |-> 0, secFloor |-> 0] /\ finished = {}

\* An intent bound to the state s as it is: any selection, approved or not.
IntentsFor(s) ==
  LET bound(kind, origin, target) ==
        [kind : {kind}, origin : {origin}, target : {target}, tx : {s.counter + 1},
         sel : Selections, expected : {s.tail}, approved : BOOLEAN]
  IN  IF s.active = None THEN bound("Maintenance", 0, "none")
      ELSE UNION {bound("Recovery", s.active.origin, t) : t \in Targets}

\* The state after the journal was replaced by the checkpoint.
Rebased(s) == FromAnchor(candidate)

Restartable ==
  /\ known /\ candidate = None /\ Durable # None
  /\ Durable.counter >= marks.counter /\ Durable.genFloor >= marks.gen
  /\ Durable.secFloor >= marks.secFloor
  /\ head = HeadFor(Durable)

\* A session on the stored state, with a new intent, the previous one again, or none.
Open ==
  /\ ~open /\ Restartable
  /\ open' = TRUE /\ st' = Durable
  /\ intent' \in IntentsFor(Durable) \cup {intent, None}
  /\ Raise(Durable)
  /\ UNCHANGED <<storage, pending, flags, finished>>

\* A restart that cannot trust what it finds marks the image Unknown.
RefuseOpen ==
  /\ ~open /\ known /\ ~Restartable /\ known' = FALSE
  /\ UNCHANGED <<anchor, records, head, candidate, open, st, intent, pending, flags, marks, finished>>

\* stop() and finish(): a pending write, or an uncertain outcome, makes the image
\* Unknown for good; what the session held in memory is gone.
Close(uncertain) ==
  /\ open' = FALSE
  /\ known' = (known /\ ~uncertain /\ pending = None)
  /\ pending' = None /\ acks' = {} /\ st' = st
  /\ headRequired' = FALSE /\ verified' = FALSE /\ published' = FALSE
  /\ quiescent' = FALSE /\ reserved' = FALSE /\ waiting' = FALSE

\* A crash, a refused event (a lost coordinator included) or the end of the events.
EndSession ==
  /\ open /\ Close(FALSE)
  /\ UNCHANGED <<anchor, records, head, candidate, intent, marks, finished>>

MayWrite == open /\ ~waiting /\ pending = None

NewRecord(kind) == [seq |-> st.seq + 1, kind |-> kind, tx |-> intent.tx,
                    intent |-> IF kind = "Reserve" THEN intent ELSE None]

NotWritten(next) == Close(FALSE) /\ UNCHANGED marks

\* The watermarks are raised before an effect that may persist, not for a known NotWritten.
WriteRecord(kind) ==
  /\ MayWrite /\ ~headRequired /\ candidate = None /\ intent # None
  /\ reserved = (kind # "Reserve") /\ (kind = "Block" => quiescent)
  /\ st.seq < MaxSeq /\ Len(records) < MaxRecords
  /\ LET r == NewRecord(kind)
     IN  /\ Fits(st, kind, r.tx, r.intent)
         /\ \/ /\ pending' = [target |-> "Journal", flushed |-> FALSE, record |-> r]
               /\ Raise(Chained(st, r)) /\ UNCHANGED <<known, open, st, flags>>
            \/ Close(TRUE) /\ Raise(Chained(st, r))
            \/ NotWritten(Chained(st, r))
  /\ UNCHANGED <<anchor, records, head, candidate, intent, finished>>

\* Flush: from now on the write is assumed durable, or the session ends uncertain.
Flush ==
  /\ open /\ ~waiting /\ pending # None /\ ~pending.flushed
  /\ \/ /\ pending' = [pending EXCEPT !.flushed = TRUE]
        /\ IF pending.target = "Journal"
           THEN /\ records' = Append(records, pending.record) /\ st' = Chained(st, pending.record)
                /\ reserved' = (reserved \/ pending.record.kind = "Reserve")
                /\ finished' = finished \cup
                     IF pending.record.kind = "Complete" THEN ToSet(st.active.lineage) ELSE {}
           ELSE UNCHANGED <<records, st, reserved, finished>>
        /\ head' = IF pending.target = "Head" THEN pending.head ELSE head
        /\ UNCHANGED <<known, open, headRequired, verified, published, quiescent, waiting, acks>>
     \/ Close(TRUE) /\ UNCHANGED <<records, head, finished>>
  /\ UNCHANGED <<anchor, candidate, intent, marks>>

HeadNeeded(p) == headRequired' = TRUE

ReadBack ==
  /\ open /\ ~waiting /\ pending # None /\ pending.flushed
  /\ \/ /\ pending' = None
        /\ CASE pending.target = "Journal"    -> HeadNeeded(pending) /\ UNCHANGED <<verified, published>>
             [] pending.target = "Head"       -> /\ headRequired' = FALSE /\ UNCHANGED verified
                                                 /\ published' = (published \/ verified)
             [] pending.target = "Checkpoint" -> verified' = TRUE /\ UNCHANGED <<headRequired, published>>
        /\ UNCHANGED <<known, open, st, quiescent, reserved, waiting, acks>>
     \/ Close(TRUE)
  /\ UNCHANGED <<anchor, records, head, candidate, intent, marks, finished>>

WriteHead ==
  /\ MayWrite /\ (headRequired \/ verified) /\ ~published
  /\ \/ /\ pending' = [target |-> "Head", flushed |-> FALSE,
                       head |-> HeadFor(IF verified THEN FromAnchor(candidate) ELSE st)]
        /\ UNCHANGED <<known, open, st, flags>>
     \/ \E uncertain \in BOOLEAN : Close(uncertain)
  /\ UNCHANGED <<anchor, records, head, candidate, intent, marks, finished>>

ObserveQuiescence ==
  /\ MayWrite /\ ~headRequired /\ reserved /\ st.active # None /\ st.active.stage = "Admitted"
  /\ \/ quiescent' = TRUE
        /\ UNCHANGED <<known, open, st, pending, headRequired, verified, published, reserved, waiting, acks>>
     \/ Close(FALSE)
  /\ UNCHANGED <<anchor, records, head, candidate, intent, marks, finished>>

\* An acknowledgment may be lost; then only a status query or a crash may follow.
Acknowledge(phase) ==
  /\ MayWrite /\ ~headRequired /\ candidate = None /\ head = HeadFor(st) /\ reserved
  /\ phase \notin acks /\ acks' = acks \cup {phase} /\ waiting' \in BOOLEAN
  /\ IF phase = "Admission" THEN st.active # None /\ st.active.stage \in {"Admitted", "Committed"}
                            ELSE st.active = None /\ st.last = intent.tx
  /\ UNCHANGED <<storage, open, st, intent, pending, headRequired, verified, published,
                 quiescent, reserved, marks, finished>>

\* Nothing is said of any transaction while a write is in flight or the head lags.
Recovering == pending # None \/ headRequired \/ head # HeadFor(st) \/ candidate # None
StatusOf(t) ==
  IF Recovering THEN "RecoveryRequired"
  ELSE IF t = st.last THEN "Completed"
  ELSE IF st.active # None /\ t \in ToSet(st.active.lineage)
  THEN IF st.active.publishing /\ ~reserved THEN "RecoveryRequired" ELSE "Active"
  ELSE "Retired"

\* Only the query of the current transaction ends the wait.
QueryStatus ==
  /\ open /\ waiting /\ intent.tx = st.counter /\ waiting' = FALSE
  /\ UNCHANGED <<storage, open, st, intent, pending, headRequired, verified, published,
                 quiescent, reserved, acks, marks, finished>>

WriteCheckpoint ==
  /\ MayWrite /\ ~headRequired /\ candidate = None /\ st.active = None /\ head = HeadFor(st)
  /\ reserved /\ st.last = intent.tx /\ records # <<>>
  /\ \/ /\ candidate' = AnchorFor(st)
        /\ pending' = [target |-> "Checkpoint", flushed |-> FALSE]
        /\ UNCHANGED <<known, open, st, flags>>
     \/ \E uncertain \in BOOLEAN : Close(uncertain) /\ UNCHANGED candidate
  /\ UNCHANGED <<anchor, records, head, intent, marks, finished>>

RetireJournal ==
  /\ MayWrite /\ published /\ verified /\ candidate # None /\ st.active = None
  /\ \/ /\ anchor' = candidate /\ candidate' = None /\ records' = <<>>
        /\ st' = Rebased(st) /\ verified' = FALSE /\ published' = FALSE
        /\ UNCHANGED <<known, open, pending, headRequired, quiescent, reserved, waiting, acks>>
     \/ \E uncertain \in BOOLEAN : Close(uncertain) /\ UNCHANGED <<anchor, candidate, records>>
  /\ UNCHANGED <<head, intent, marks, finished>>

Next ==
  \/ Open \/ RefuseOpen \/ EndSession \/ Flush \/ ReadBack \/ WriteHead \/ ObserveQuiescence
  \/ QueryStatus \/ WriteCheckpoint \/ RetireJournal
  \/ \E kind \in Kinds : WriteRecord(kind)
  \/ \E phase \in {"Admission", "Result"} : Acknowledge(phase)

Spec == Init /\ [][Next]_vars

\* checkedDocument() of the codec: which snapshots are encoded or decoded, the
\* watermarks being their minimum.
Encodable ==
  /\ \A part \in {anchor, head, candidate} \ {None} :
       /\ part.counter <= marks.counter /\ part.secFloor <= marks.secFloor
       /\ (IF part = head THEN head.genFloor ELSE part.gen) <= marks.gen
  /\ \A n \in 1..Len(records) : records[n].seq = anchor.seq + n /\ records[n].tx <= marks.counter
  /\ known /\ candidate = None => Restartable

-----------------------------------------------------------------------------
(* Properties                                                              *)

\* Every counter stays within its bound: no increment passes its own overflow check.
TypeOK ==
  /\ {known, open, headRequired, verified, published, quiescent, reserved, waiting} \subseteq BOOLEAN
  /\ st.seq \in 0..MaxSeq /\ st.counter \in 0..MaxCounter
  /\ {st.gen, st.genFloor} \subseteq 0..MaxGen /\ st.secFloor \in 0..MaxEpoch
  /\ st.sel \in Selections /\ st.last \in 0..MaxCounter
  /\ st.active # None => /\ st.active.target \in 0..MaxGen
                         /\ Len(st.active.lineage) \in 1..MaxLineage
                         /\ {st.active.cand, st.active.original, st.active.previous} \subseteq Selections
  /\ Len(records) <= MaxRecords /\ acks \subseteq {"Admission", "Result"}

\* What the session believes is what a restart would reconstruct, at every point: a
\* record counts only once it is flushed, and compaction changes nothing but the chain.
ReplayAgrees == open => st = Durable

\* The published head is the one of the stored chain, of the chain without its newest
\* record, or of the verified checkpoint: never ahead of the journal, never two behind.
HeadLags ==
  \/ head = HeadFor(Durable)
  \/ records # <<>> /\ head = HeadFor(Replay(anchor, Front(records)))
  \/ candidate # None /\ head = HeadFor(FromAnchor(candidate))

\* A visible selection is exactly at the security floor: neither a restored previous nor
\* a reinstalled one is older than anything a publication was ever blocked for.
PublishedAtFloor == head.sel # Nothing => head.sel.epoch = head.secFloor

\* A Known image never looks like a rollback: the watermarks carried outside the store
\* are those of the stored chain, however earlier sessions ended.
NoFalseRegression ==
  known /\ pending = None => marks = [counter |-> Durable.counter, gen |-> Durable.genFloor,
                                      secFloor |-> Durable.secFloor]

\* The snapshot a session leaves can be encoded, interrupted anywhere, except between a
\* record and the head that publishes it.
SnapshotKeeps == ~open => Encodable \/ (records # <<>> /\ head = HeadFor(Replay(anchor, Front(records))))

\* An interrupted publication is never trapped between the floor and its targets: while
\* the limits leave room, finalizing the original candidate is admissible.
CanFinish ==
  open /\ pending = None /\ Publishing(st) /\ Len(st.active.lineage) < MaxLineage
       /\ st.counter < MaxCounter /\ st.genFloor < MaxGen
    => ReserveFits(st, [kind |-> "Recovery", origin |-> st.active.origin,
                        target |-> "FinalizeCandidate", tx |-> st.counter + 1,
                        sel |-> st.active.original, expected |-> st.tail, approved |-> TRUE])

\* A status query tells finished work from unfinished work for every transaction ever
\* admitted, across recoveries by later transactions, restarts and compaction: unfinished
\* work is never reported as ended, and finished work is, unless the store itself recovers.
StatusIsTrue ==
  open =>
    \A t \in 1..st.counter :
      IF t \in finished THEN Recovering \/ StatusOf(t) \in {"Completed", "Retired"}
      ELSE StatusOf(t) \in {"Active", "RecoveryRequired"}

\* Whatever ended the sessions before, what is stored is one history, and the next session
\* goes on from it.
StoreGoesOn ==
  TypeOK /\ ReplayAgrees /\ HeadLags /\ NoFalseRegression /\ SnapshotKeeps /\ CanFinish

\* What the model reports, a selection in use or the end of an admitted work, is so.
ReportsAreTrue == PublishedAtFloor /\ StatusIsTrue

\* What is stored behaves as the ledger all maintenance models share, whatever is in
\* flight, lost, retried or compacted.  An open session holds what is stored (ReplayAgrees).
Stored == IF open THEN st ELSE Durable
L == INSTANCE MaintenanceLedger WITH
       Null <- Nothing, counter <- Stored.counter, gen <- Stored.gen,
       genFloor <- Stored.genFloor, secFloor <- Stored.secFloor, sel <- Stored.sel,
       phase <- IF Stored.active = None THEN "Stable"
                ELSE IF Stored.active.publishing THEN "Blocked" ELSE Stored.active.stage
ImplementsLedger == L!Ledger
=============================================================================
