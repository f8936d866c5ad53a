------------------------- MODULE MaintenanceProtocol -------------------------
(***************************************************************************)
(* The maintenance protocol reference model                                *)
(* (src/tools/lib/maintenance-protocol-model.mjs): a helper and a client   *)
(* pair, propose, review, confirm and reserve one operation, take in its   *)
(* payload, publish it and clean up, under deadlines and lost replies.     *)
(*                                                                         *)
(* simulateMaintenanceProtocol is one session over a list of events; each  *)
(* accepted event is an action.  Which check refuses an event changes      *)
(* nothing but the reported reason, so every refusal is Refuse.  A session *)
(* may end after any event; NextSession starts another one on what the     *)
(* storage may then hold (disk).                                           *)
(***************************************************************************)
EXTENDS MaintenanceTuples, SequencesExt, FiniteSetsExt

CONSTANTS
  MaxCounter, MaxGen,                       \* Number.MAX_SAFE_INTEGER
  MaxLineage, PairingMs, OfferMs, IdleMs, IntakeMs, ChunkSize,  \* MAINTENANCE_PROTOCOL_LIMITS
  MemberLists,                              \* sizes of the members a request may declare
  MaxTime,                                  \* bound on the time of an event
  None

VARIABLES
  disk, known,                              \* stores the storage may hold; storage_status
  store, state, admission, terminal, replyLost,
  txn, proposal, nextGen, now, expires, intakeAt, payloadAt, received,
  counterFloor, securityFloor,              \* as reported by the projection
  consent                                   \* history: what was last confirmed

storage == <<disk, known>>
intake  == <<intakeAt, payloadAt, received>>
offer   == <<txn, proposal, nextGen>>
floors  == <<counterFloor, securityFloor>>
vars    == <<storage, store, state, admission, terminal, replyLost, offer, now, expires, intake, floors, consent>>

Pairing == <<"AwaitPeer", "AwaitHello", "AwaitBind", "Bound">>
Targets == {"FinalizeCandidate", "RestorePermittedPrevious", "FinishCommittedCleanup"}

\* What the storage keeps, and the operation that is under way in it.
Journals == [origin : Nat, phase : {"Admitted", "PublishPending", "Committed"}, highest : Nat, reserved : Nat,
             previous : Selections, candidate : Selections, lineage : Seq(Nat)]
Stores   == [counter : Nat, gen : Nat, floor : Nat, sel : Selections, journal : Journals \cup {None}, last : Nat]

ASSUME ProtocolAssumption ==
  /\ {MaxCounter, MaxGen, MaxLineage, PairingMs, OfferMs, IdleMs, IntakeMs, ChunkSize, MaxTime} \subseteq Nat
  /\ MemberLists \subseteq Seq(Nat \ {0}) /\ None \notin Journals

Empty   == [counter |-> 0, gen |-> 0, floor |-> 0, sel |-> Null, journal |-> None, last |-> 0]

HighestOf(s) == IF s.journal = None THEN s.gen ELSE s.journal.highest
FloorOf(s)   == IF s.journal = None THEN s.floor ELSE Max2(s.floor, s.journal.reserved)
-----------------------------------------------------------------------------
\* Plausible faults, used only to show that the properties can fail.
ForgetsFloor(s)         == [s EXCEPT !.sel = proposal.desired, !.gen = nextGen,
                              !.journal.candidate = proposal.desired, !.journal.phase = "Committed"]
ClockOnly(at)           == at >= now
OnlyPending(fatal)      == state = "PublishPending"
FloorOfDesired(s)       == EpochOf(proposal.desired)
-----------------------------------------------------------------------------
(* The store                                                               *)

\* Whether a session refuses to start on the store.
StoreProblem(s) ==
  LET j == s.journal IN
  \/ s.sel # Null /\ s.sel.epoch < s.floor
  \/ s.last > s.counter
  \/ /\ j # None
     /\ \/ j.highest < s.gen \/ j.reserved < s.floor \/ j.origin # Head(j.lineage) \/ Head(j.lineage) = 0
        \/ \E i \in 1..Len(j.lineage) - 1 : j.lineage[i] >= j.lineage[i + 1]
        \/ Last(j.lineage) # s.counter
        \/ s.last # 0 /\ s.last >= Head(j.lineage)
        \/ j.phase = "Admitted"  /\ (j.highest # s.gen \/ j.reserved # s.floor \/ j.previous # s.sel)
        \/ j.phase = "Committed" /\ (j.highest # s.gen \/ j.reserved # s.floor \/ j.candidate # s.sel)

NormalScope(s, p) ==
  /\ s.journal = None /\ Scoped(p.op, s.sel, p.desired)
  /\ p.op = "Uninstall" => p.members = <<>>

RecoveryScope(s, p) ==
  LET j == s.journal IN
  /\ j # None /\ Len(j.lineage) < MaxLineage
  /\ CASE p.target = "FinishCommittedCleanup" ->
            j.phase = "Committed" /\ p.desired = s.sel /\ p.members = <<>>
       [] p.target = "FinalizeCandidate"        -> j.phase = "PublishPending" /\ p.desired = j.candidate
       [] p.target = "RestorePermittedPrevious" -> j.phase = "PublishPending" /\ p.desired = j.previous
       [] OTHER -> FALSE
  /\ p.desired = Null => p.members = <<>>

EpochAllowed(s, e) == e >= Max2(FloorOf(s), EpochOf(s.sel))

Permitted(s, p) ==
  /\ s.counter < MaxCounter
  /\ IF p.kind = "Maintenance" THEN NormalScope(s, p) ELSE RecoveryScope(s, p)
  /\ p.desired # Null => EpochAllowed(s, p.desired.epoch)
  /\ p.target # "FinishCommittedCleanup" => HighestOf(s) < MaxGen

NextGeneration(p) ==
  IF p.target = "FinishCommittedCleanup" THEN store.gen ELSE HighestOf(store) + 1

Requests ==
  [kind : {"Maintenance"}, op : Operations, target : {"none"}, desired : Selections, members : MemberLists]
    \cup [kind : {"Recovery"}, op : {"none"}, target : Targets, desired : Selections, members : MemberLists]

Admitted(s) ==
  LET t == s.counter + 1
      j == IF proposal.kind = "Recovery" THEN [s.journal EXCEPT !.lineage = Append(@, t)]
           ELSE [origin |-> t, phase |-> "Admitted", highest |-> s.gen, reserved |-> s.floor,
                 previous |-> s.sel, candidate |-> proposal.desired, lineage |-> <<t>>]
  IN  [s EXCEPT !.counter = t, !.journal = j]

ReservedFloor(s) == Max2(securityFloor, Max2(EpochOf(s.sel), EpochOf(proposal.desired)))

Blocked(s) == [s EXCEPT !.journal.phase = "PublishPending", !.journal.highest = nextGen,
                        !.journal.reserved = ReservedFloor(s)]

Committed(s) == [s EXCEPT !.sel = proposal.desired, !.gen = nextGen, !.floor = securityFloor,
                          !.journal.candidate = proposal.desired, !.journal.phase = "Committed"]

Completed(s) == [s EXCEPT !.last = s.counter, !.journal = None]

-----------------------------------------------------------------------------
(* One session                                                             *)

Start(s, k) ==
  /\ store' = s /\ disk' = {s} /\ known' = k
  /\ state' = IF k /\ ~StoreProblem(s) THEN "AwaitPeer" ELSE "RecoveryRequired"
  /\ terminal' = (state' = "RecoveryRequired")
  /\ admission' = "NotConsumed" /\ replyLost' = FALSE
  /\ txn' = 0 /\ proposal' = None /\ nextGen' = 0
  /\ now' = 0 /\ expires' = 0 /\ intakeAt' = 0 /\ payloadAt' = 0 /\ received' = <<>>
  /\ counterFloor' = s.counter /\ securityFloor' = FloorOf(s)

Init ==
  /\ store = Empty /\ disk = {Empty} /\ known = TRUE
  /\ state = "AwaitPeer" /\ terminal = FALSE /\ admission = "NotConsumed" /\ replyLost = FALSE
  /\ txn = 0 /\ proposal = None /\ nextGen = 0
  /\ now = 0 /\ expires = 0 /\ intakeAt = 0 /\ payloadAt = 0 /\ received = <<>>
  /\ counterFloor = 0 /\ securityFloor = 0 /\ consent = [tx |-> 0, desired |-> Null]

\* An uncertain outcome may have been persisted or not, or leave the storage unknown.
NextSession ==
  /\ known
  /\ \E s \in disk, k \in IF Cardinality(disk) = 1 THEN {TRUE} ELSE BOOLEAN : Start(s, k)
  /\ UNCHANGED consent

\* Recovery is required when the selection may be unknown.
Doubtful(fatal) ==
  state = "PublishPending" \/ fatal \/ (admission' = "NotConsumed" /\ store.journal # None)

\* fail()
Fail(fatal) ==
  /\ terminal' = TRUE
  /\ state' = IF Doubtful(fatal) THEN "RecoveryRequired"
              ELSE CASE state = "Completed"                      -> "Completed"
                     [] state \in {"Committed", "CleanupPending"} -> "CleanupPending"
                     [] OTHER -> IF admission' = "ConsumedInModel" THEN "Aborted" ELSE "Rejected"

PayloadDone == \A i \in DOMAIN received : received[i].got = received[i].size

\* The deadlines every event is checked against before it is looked at.
Timely(at) ==
  /\ at >= now
  /\ state \in {Pairing[i] : i \in 1..3} => at <= PairingMs
  /\ state \in {"Reviewed", "Offered", "Confirmed"} => at < expires
  /\ state = "Admitted" => /\ at - intakeAt <= IntakeMs
                           /\ ~PayloadDone => at - payloadAt <= IdleMs

\* An event that is in time and, after a lost reply, allowed at all.
Accept(at) == ~terminal /\ Timely(at) /\ ~replyLost /\ now' = at

\* Any event that is late, out of order, replayed, unbound, surplus or denied; a
\* cancellation or an interruption.
Refuse ==
  /\ ~terminal /\ UNCHANGED admission /\ Fail(FALSE)
  /\ UNCHANGED <<storage, store, replyLost, offer, now, expires, intake, floors, consent>>

\* An interruption that says trust or persistence is in doubt, or an inconsistent commit.
RefuseFatally ==
  /\ ~terminal /\ UNCHANGED admission /\ Fail(TRUE)
  /\ disk' = IF state = "PublishPending" THEN {store, Committed(store)} ELSE disk
  /\ UNCHANGED <<known, store, replyLost, offer, now, expires, intake, floors, consent>>

\* ObservePeers, HelperHello and ClientBind.
Pair(at) ==
  /\ Accept(at)
  /\ \E i \in 1..3 : state = Pairing[i] /\ state' = Pairing[i + 1]
  /\ UNCHANGED <<storage, store, admission, terminal, replyLost, offer, expires, intake, floors, consent>>

ProposeOperation(at) ==
  /\ Accept(at) /\ state = "Bound" /\ state' = "Proposed"
  /\ \E p \in Requests : /\ Permitted(store, p) /\ proposal' = p
                         /\ nextGen' = NextGeneration(p)
  /\ txn' = store.counter + 1
  /\ UNCHANGED <<storage, store, admission, terminal, replyLost, expires, intake, floors, consent>>

ReviewOffer(at) ==
  /\ Accept(at) /\ state = "Proposed" /\ state' = "Reviewed"
  /\ expires' = at + OfferMs
  /\ UNCHANGED <<storage, store, admission, terminal, replyLost, offer, intake, floors, consent>>

VerifiedOffer(at) ==
  /\ Accept(at) /\ state = "Reviewed" /\ state' = "Offered"
  /\ UNCHANGED <<storage, store, admission, terminal, replyLost, offer, expires, intake, floors, consent>>

Approved ==
  /\ state = "Offered" /\ state' = "Confirmed"
  /\ consent' = [tx |-> txn, desired |-> proposal.desired]

Confirm(at) ==
  /\ Accept(at) /\ Approved
  /\ UNCHANGED <<storage, store, admission, terminal, replyLost, offer, expires, intake, floors>>

\* The counter as it will be if the reservation was written.
FloorAfter == store.counter + 1

Reserve(at) ==
  /\ Accept(at) /\ state = "Confirmed" /\ counterFloor' = FloorAfter
  /\ \/ /\ state' = "Admitted" /\ admission' = "ConsumedInModel" /\ UNCHANGED terminal
        /\ store' = Admitted(store) /\ disk' = {store'}
        /\ intakeAt' = at /\ payloadAt' = at
        /\ received' = [i \in DOMAIN proposal.members |-> [size |-> proposal.members[i], got |-> 0]]
     \/ /\ admission' = "Unknown" /\ Fail(TRUE)
        /\ disk' = {store, Admitted(store)} /\ UNCHANGED <<store, intake>>
  /\ UNCHANGED <<known, replyLost, offer, expires, securityFloor, consent>>

AdmissionRecorded(at) ==
  /\ Accept(at) /\ state = "Admitted" /\ replyLost' \in BOOLEAN
  /\ UNCHANGED <<storage, store, state, admission, terminal, offer, expires, intake, floors, consent>>

\* The only length accepted next: a full chunk, or what is left of the member.
Expected(n, i) == n = Min({ChunkSize, received[i].size - received[i].got})

PayloadChunk(at) ==
  /\ Accept(at) /\ state = "Admitted" /\ ~PayloadDone
  /\ LET i == Min({k \in DOMAIN received : received[k].got # received[k].size})
     IN  \E n \in 1..ChunkSize : Expected(n, i) /\ received' = [received EXCEPT ![i].got = @ + n]
  /\ payloadAt' = at
  /\ UNCHANGED <<storage, store, state, admission, terminal, replyLost, offer, expires, intakeAt, floors, consent>>

VerifyPayload(at) ==
  /\ Accept(at) /\ state = "Admitted" /\ state' = "PayloadVerified"
  /\ PayloadDone /\ proposal.target # "FinishCommittedCleanup"
  /\ UNCHANGED <<storage, store, admission, terminal, replyLost, offer, expires, intake, floors, consent>>

BeginPublish(at) ==
  /\ Accept(at) /\ state = "PayloadVerified" /\ state' = "PublishPending"
  /\ securityFloor' = ReservedFloor(store)
  /\ store' = Blocked(store) /\ disk' = {store'}
  /\ UNCHANGED <<known, admission, terminal, replyLost, offer, expires, intake, counterFloor, consent>>

Commit(at) ==
  /\ Accept(at) /\ state = "PublishPending" /\ state' = "Committed"
  /\ store' = Committed(store) /\ disk' = {store'}
  /\ UNCHANGED <<known, admission, terminal, replyLost, offer, expires, intake, floors, consent>>

Cleanup(at) ==
  /\ Accept(at)
  /\ state = "Committed" \/ (state = "Admitted" /\ proposal.target = "FinishCommittedCleanup")
  /\ \/ state' = "CleanupPending" /\ UNCHANGED <<store, disk>>
     \/ state' = "Completed" /\ store' = Completed(store) /\ disk' = {store'}
  /\ UNCHANGED <<known, admission, terminal, replyLost, offer, expires, intake, floors, consent>>

Result(at) ==
  /\ Accept(at) /\ state \in {"Completed", "CleanupPending"} /\ replyLost' \in BOOLEAN
  /\ UNCHANGED <<storage, store, state, admission, terminal, offer, expires, intake, floors, consent>>

\* Only the status of the session's own transaction ends the wait after a lost reply.
QueryStatus(at) ==
  /\ ~terminal /\ Timely(at) /\ now' = at /\ state \notin {Pairing[i] : i \in 1..3}
  /\ \E t \in 0..store.counter : replyLost' = (replyLost /\ ~(t = store.counter /\ t = txn))
  /\ UNCHANGED <<storage, store, state, admission, terminal, offer, expires, intake, floors, consent>>

Progress(at) ==
  /\ Accept(at) /\ state \in {"Admitted", "PayloadVerified", "PublishPending", "Committed", "CleanupPending"}
  /\ UNCHANGED <<storage, store, state, admission, terminal, replyLost, offer, expires, intake, floors, consent>>

Next ==
  \/ NextSession \/ Refuse \/ RefuseFatally
  \/ \E at \in now..MaxTime :
       \/ Pair(at) \/ ProposeOperation(at) \/ ReviewOffer(at) \/ VerifiedOffer(at) \/ Confirm(at)
       \/ Reserve(at) \/ AdmissionRecorded(at) \/ PayloadChunk(at) \/ VerifyPayload(at)
       \/ BeginPublish(at) \/ Commit(at) \/ Cleanup(at) \/ Result(at) \/ QueryStatus(at) \/ Progress(at)

Spec == Init /\ [][Next]_vars

-----------------------------------------------------------------------------
(* Properties                                                              *)

\* projected_store: never while the selection may be unknown.
Projected ==
  IF state \in {"RecoveryRequired", "PublishPending"} \/ (store.journal # None /\ store.journal.phase = "PublishPending")
  THEN None ELSE store

\* Types; the store of every session is one a later session accepts.
TypeOK ==
  /\ store.counter \in 0..MaxCounter /\ store.gen \in 0..MaxGen /\ store.floor \in 0..MaxEpoch
  /\ store.sel \in Selections /\ admission \in {"NotConsumed", "Unknown", "ConsumedInModel"}
  /\ {terminal, replyLost, known} \subseteq BOOLEAN /\ now \in 0..MaxTime
  /\ \A i \in DOMAIN received : received[i].got \in 0..received[i].size

\* However a session ends, the next one does not reject what it finds as invalid.
StoreStaysValid == \A s \in disk : ~StoreProblem(s)

\* The reported floors bound whatever may have been persisted, uncertain writes included.
FloorsAreSafe == \A s \in disk : s.counter <= counterFloor /\ FloorOf(s) <= securityFloor

\* A store is only shown when it is certainly the stored one and no publication is open:
\* in particular after an interrupted recovery of an interrupted publication.
ShownIsCertain ==
  Projected # None => disk = {Projected} /\ (store.journal # None => store.journal.phase # "PublishPending")

\* No sequence of admissions, failures and recoveries leaves a publication that the
\* original candidate could not finish, while counters and lineage leave room.
PublicationCanFinish ==
  \A s \in disk :
    /\ s.journal # None /\ s.journal.phase = "PublishPending"
    /\ s.counter < MaxCounter /\ Len(s.journal.lineage) < MaxLineage /\ s.journal.highest < MaxGen
    => Permitted(s, [kind |-> "Recovery", op |-> "none", target |-> "FinalizeCandidate",
                     desired |-> s.journal.candidate, members |-> <<>>])

\* The selection changes only to what was confirmed for the transaction that is under
\* way, also when the change shows up in a later session.
OnlyConfirmed ==
  [][store'.sel # store.sel => consent = [tx |-> store'.counter, desired |-> store'.sel]]_vars

\* Consent is used before its offer expires, and a payload is complete and verified
\* within the intake deadline, whatever arrived in between.
DeadlinesHold ==
  [][/\ admission' # admission /\ admission' # "NotConsumed" => now' < expires
     /\ state' = "PayloadVerified" /\ state = "Admitted" => now' - intakeAt <= IntakeMs
     /\ received' # received /\ received # <<>> /\ received' # <<>> => now' - payloadAt <= IdleMs]_vars

\* After a lost reply nothing of the operation moves, in whatever state it was lost, until
\* the status of this very transaction was asked for or the session is over.
LostReplyFreezes ==
  [][replyLost /\ txn' # 0 => UNCHANGED <<store, received, consent>>]_vars

\* Every session, recovery and restart is a step of the ledger all maintenance models share.
L == INSTANCE MaintenanceLedger WITH
       counter <- store.counter, gen <- store.gen, genFloor <- HighestOf(store),
       secFloor <- FloorOf(store), sel <- store.sel,
       phase <- IF store.journal = None THEN "Stable"
                ELSE IF store.journal.phase = "PublishPending" THEN "Blocked" ELSE store.journal.phase
ImplementsLedger == L!Ledger
=============================================================================
