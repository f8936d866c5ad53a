-------------------------- MODULE MaintenanceProofs --------------------------
(***************************************************************************)
(* Proofs about the protocol and the deployment model, as the run of       *)
(* MCMaintenance puts them side by side.                                   *)
(*                                                                         *)
(* The first part follows a store from one sound store to the next; the    *)
(* second shows that every step of a protocol session keeps the storage    *)
(* within one such step of the session's own store; the third does the     *)
(* same for a scenario of the deployment model; the last derives what the  *)
(* run checks and maps both to the ledger all maintenance models share.    *)
(***************************************************************************)
EXTENDS MCMaintenance, FiniteSetTheorems, SequenceTheorems, TLAPS

\* A visible selection is not below a security floor.
NotBelow(sel, floor) == sel # Null => sel.epoch >= floor

\* The phase of the transaction a store is in, as the ledger names it.
PhaseOf(d) == IF d.journal = None THEN "Stable"
              ELSE IF d.journal.phase = "PublishPending" THEN "Blocked" ELSE d.journal.phase

\* The transactions of a journal: none is zero, they rise, and the newest is the counter's.
Descends(d, j) ==
  /\ j.lineage # <<>> /\ j.origin = j.lineage[1] /\ j.lineage[1] > d.last
  /\ \A i \in 1..Len(j.lineage) - 1 : j.lineage[i] < j.lineage[i + 1]
  /\ j.lineage[Len(j.lineage)] = d.counter

\* What each phase of a journal says of the selection beside it.
Explains(d, j) ==
  CASE j.phase = "Admitted"  -> j.highest = d.gen /\ j.reserved = d.floor /\ j.previous = d.sel
    [] j.phase = "Committed" -> j.highest = d.gen /\ j.reserved = d.floor /\ j.candidate = d.sel
    [] j.phase = "PublishPending" ->
         /\ j.highest > d.gen /\ j.reserved >= d.floor /\ j.previous = d.sel
         /\ NotBelow(j.candidate, j.reserved) /\ NotBelow(j.candidate, EpochOf(d.sel))

Bounded(d) ==
  /\ d \in Stores /\ d.counter <= MaxCounter /\ d.last <= d.counter
  /\ d.gen <= HighestOf(d) /\ HighestOf(d) <= MaxGen /\ FloorOf(d) <= MaxEpoch

\* A store that a session may leave, and the next one accepts.
Sound(d) ==
  /\ Bounded(d) /\ NotBelow(d.sel, d.floor)
  /\ d.journal # None => Descends(d, d.journal) /\ Explains(d, d.journal)

\* The steps a store can take: those of the ledger.
AdmitMove(a, b) ==
  /\ b.counter = a.counter + 1 /\ b.gen = a.gen /\ b.sel = a.sel
  /\ HighestOf(b) = HighestOf(a) /\ FloorOf(b) = FloorOf(a)
  /\ PhaseOf(b) = IF PhaseOf(a) = "Stable" THEN "Admitted" ELSE PhaseOf(a)

BlockMove(a, b) ==
  /\ b.counter = a.counter /\ b.gen = a.gen /\ b.sel = a.sel
  /\ HighestOf(b) = HighestOf(a) + 1 /\ FloorOf(b) >= FloorOf(a) /\ FloorOf(b) >= EpochOf(a.sel)
  /\ PhaseOf(a) \in {"Admitted", "Blocked"} /\ PhaseOf(b) = "Blocked"

CommitMove(a, b) ==
  /\ b.counter = a.counter /\ b.gen = HighestOf(a) /\ NotBelow(b.sel, FloorOf(a))
  /\ HighestOf(b) = HighestOf(a) /\ FloorOf(b) = FloorOf(a)
  /\ PhaseOf(a) = "Blocked" /\ PhaseOf(b) = "Committed"

CompleteMove(a, b) ==
  /\ b.counter = a.counter /\ b.gen = a.gen /\ b.sel = a.sel
  /\ HighestOf(b) = HighestOf(a) /\ FloorOf(b) = FloorOf(a)
  /\ PhaseOf(a) = "Committed" /\ PhaseOf(b) = "Stable"

-----------------------------------------------------------------------------
\* Before the reservation a session has consumed nothing.
Before == {"AwaitPeer", "AwaitHello", "AwaitBind", "Bound", "Proposed", "Reviewed", "Offered", "Confirmed"}

SessionInv ==
  /\ known \in BOOLEAN /\ terminal \in BOOLEAN /\ replyLost \in BOOLEAN
  /\ admission \in {"NotConsumed", "Unknown", "ConsumedInModel"}
  /\ now \in 0..MaxTime
  /\ received \in Seq([size : Nat, got : Nat])
  /\ \A i \in DOMAIN received : received[i].got <= received[i].size
  /\ state \in Before => admission = "NotConsumed" /\ received = <<>>
  /\ state = "RecoveryRequired" => terminal

\* What may be durable is the session's store, or one step further where the session
\* cannot know it; the reported floors cover both.
DiskInv ==
  /\ Sound(store) /\ store \in disk /\ (state # "RecoveryRequired" => disk = {store})
  /\ securityFloor = FloorOf(store) /\ store.counter <= counterFloor
  /\ \A d \in disk :
       /\ Sound(d) /\ d.counter <= counterFloor
       /\ \/ d = store
          \/ AdmitMove(store, d)
          \/ CommitMove(store, d) /\ consent = [tx |-> d.counter, desired |-> d.sel]

\* The proposal is permitted until it is reserved.
ProposalInv ==
  /\ state \in {"Proposed", "Reviewed", "Offered", "Confirmed"} =>
       /\ proposal \in Requests /\ Permitted(store, proposal)
       /\ nextGen = NextGeneration(proposal) /\ txn = store.counter + 1
  /\ state \in {"Confirmed", "Admitted", "PayloadVerified", "PublishPending"} =>
       consent = [tx |-> txn, desired |-> proposal.desired]

\* A reserved operation aims at a fresh generation with a selection that satisfies the floors.
Aimed ==
  /\ store.journal.phase \in {"Admitted", "PublishPending"}
  /\ nextGen = HighestOf(store) + 1 /\ nextGen <= MaxGen
  /\ NotBelow(proposal.desired, FloorOf(store)) /\ NotBelow(proposal.desired, EpochOf(store.sel))
  /\ store.journal.phase = "Admitted" => store.journal.candidate = proposal.desired
  /\ store.journal.phase = "PublishPending" => proposal.desired \in {store.journal.candidate, store.journal.previous}

WorkInv ==
  /\ state \in {"Admitted", "PayloadVerified", "PublishPending"} =>
       proposal \in Requests /\ txn = store.counter /\ store.journal # None
  /\ state \in {"Admitted", "PayloadVerified"} =>
       IF proposal.target = "FinishCommittedCleanup"
       THEN state = "Admitted" /\ store.journal.phase = "Committed" ELSE Aimed
  /\ state = "PublishPending" =>
       /\ store.journal.phase = "PublishPending" /\ store.journal.highest = nextGen
       /\ store.journal.reserved = securityFloor /\ NotBelow(proposal.desired, securityFloor)
  /\ state = "Committed" => store.journal # None /\ store.journal.phase = "Committed"

\* The inductive invariant of the protocol's sessions.
SessionsInv == SessionInv /\ DiskInv /\ ProposalInv /\ WorkInv

-----------------------------------------------------------------------------
\* The installation, and what the confirmed operation of a scenario aims at.
SnapshotInv ==
  /\ snapshot \in [gen : 0..MaxGen, floor : 0..MaxEpoch, sel : Selections]
  /\ intent \in [op : Operations, next : Nat, desired : Selections]
  /\ NotBelow(snapshot.sel, snapshot.floor)
  /\ used \in SUBSET Nonces /\ IsFiniteSet(used) /\ consumed \in BOOLEAN /\ minFloor \in 0..MaxEpoch

Unpublished == {"Requested", "Prepared", "Staged", "Verified", "PublishPending"}

StageInv ==
  /\ stage \in Unpublished \cup {"Committed", "CleanupPending", "Completed"}
  /\ ended \in {"None", "Rejected", "Cancelled", "Deferred", "RecoveryRequired", "CleanupIncomplete"}
  /\ stage = "PublishPending" => ended \in {"None", "RecoveryRequired"}
  /\ ended = "None" /\ stage \in Unpublished =>
       /\ intent.next = snapshot.gen + 1 /\ intent.next <= MaxGen
       /\ NotBelow(intent.desired, snapshot.floor) /\ NotBelow(intent.desired, EpochOf(snapshot.sel))
  /\ stage = "PublishPending" =>
       /\ intent.next = snapshot.gen + 1
       /\ minFloor >= snapshot.floor /\ minFloor >= EpochOf(snapshot.sel) /\ NotBelow(intent.desired, minFloor)
  /\ stage # "PublishPending" => minFloor = snapshot.floor

\* An accepted request has a confirmation of its own that was never used.
ReceiptInv ==
  /\ receipt # None => receipt.nonce \in Nonces
  /\ ended = "None" /\ stage = "Requested" =>
       /\ receipt.approved /\ receipt.binding = [snapshot |-> snapshot, intent |-> intent]
       /\ receipt.expires - receipt.issued <= ConfirmationSeconds
       /\ receipt.nonce \notin used /\ receipt.nonce \in Nonces

ScenariosInv == SnapshotInv /\ StageInv /\ ReceiptInv

\* The inductive invariant of both.
BothInv == part \in {"protocol", "deployment"} /\ SessionsInv /\ ScenariosInv
-----------------------------------------------------------------------------
\* Epochs, floors and generations are numbers.
LEMMA Numbers ==
  ASSUME NEW d \in Stores
  PROVE  /\ d.counter \in Nat /\ d.gen \in Nat /\ d.floor \in Nat /\ d.last \in Nat /\ d.sel \in Selections
         /\ HighestOf(d) \in Nat /\ FloorOf(d) \in Nat
         /\ d.journal # None => d.journal \in Journals
         /\ d.journal = None => HighestOf(d) = d.gen /\ FloorOf(d) = d.floor
BY DEF Stores, Journals, HighestOf, FloorOf, Max2

LEMMA Epochs ==
  ASSUME NEW sel \in Selections
  PROVE  /\ EpochOf(sel) \in 0..MaxEpoch /\ MaxEpoch \in Nat
         /\ sel # Null => sel.epoch \in Nat /\ EpochOf(sel) = sel.epoch
         /\ sel = Null => EpochOf(sel) = 0
BY TuplesAssumption DEF Selections, Tuples, EpochOf

LEMMA Limits ==
  /\ MaxCounter \in Nat /\ MaxGen \in Nat /\ MaxLineage \in Nat /\ ChunkSize \in Nat /\ MaxTime \in Nat
  /\ OfferMs \in Nat /\ IntakeMs \in Nat /\ IdleMs \in Nat /\ MemberLists \subseteq Seq(Nat \ {0})
  /\ None \notin Journals
BY ProtocolAssumption

\* A sound store is one the next session accepts.
LEMMA SoundIsValid ==
  ASSUME NEW d, Sound(d)
  PROVE  ~StoreProblem(d)
<1>1. d \in Stores /\ d.last <= d.counter /\ NotBelow(d.sel, d.floor)
  BY DEF Sound, Bounded
<1>2. ~(d.sel # Null /\ d.sel.epoch < d.floor) /\ ~(d.last > d.counter)
  <2>1. d.sel \in Selections /\ d.floor \in Nat /\ d.last \in Nat /\ d.counter \in Nat
    BY <1>1, Numbers
  <2>2. d.sel # Null => d.sel.epoch \in Nat /\ d.sel.epoch >= d.floor
    BY <2>1, <1>1, Epochs DEF NotBelow
  <2> QED
    BY <2>1, <2>2, <1>1
<1>3. CASE d.journal # None
  <2> DEFINE j == d.journal
  <2>1. j \in Journals /\ j.lineage \in Seq(Nat) /\ j.highest \in Nat /\ j.reserved \in Nat /\ j.lineage # <<>>
    BY <1>1, <1>3, Numbers DEF Journals, Sound, Descends
  <2>2. Head(j.lineage) = j.lineage[1] /\ Last(j.lineage) = j.lineage[Len(j.lineage)] /\ j.lineage[1] \in Nat
    BY <2>1 DEF Last
  <2>3. Descends(d, j) /\ Explains(d, j)
    BY <1>3 DEF Sound
  <2>4. j.highest >= d.gen /\ j.reserved >= d.floor
    <3>1. j.phase \in {"Admitted", "Committed", "PublishPending"}
      BY <2>1 DEF Journals
    <3>2. d.gen \in Nat /\ d.floor \in Nat
      BY <1>1, Numbers
    <3>3. CASE j.phase \in {"Admitted", "Committed"}
      <4>1. j.highest = d.gen /\ j.reserved = d.floor
        BY <3>3, <2>3 DEF Explains
      <4> QED
        BY <4>1, <3>2
    <3>4. CASE j.phase = "PublishPending"
      BY <3>2, <3>4, <2>1, <2>3 DEF Explains
    <3> QED
      BY <3>1, <3>3, <3>4
  <2>5. j.origin = Head(j.lineage) /\ Head(j.lineage) # 0 /\ Last(j.lineage) = d.counter
        /\ (d.last # 0 => d.last < Head(j.lineage))
    BY <2>2, <2>3, <1>1, Numbers DEF Descends
  <2>6. ASSUME NEW i \in 1..Len(j.lineage) - 1 PROVE ~(j.lineage[i] >= j.lineage[i + 1])
    <3>1. j.lineage[i] < j.lineage[i + 1]
      BY <2>3 DEF Descends
    <3> HIDE DEF j
    <3>2. j.lineage[i] \in Nat /\ j.lineage[i + 1] \in Nat
      BY <2>1
    <3> QED
      BY <3>1, <3>2
  <2>7. (j.phase = "Admitted" => j.highest = d.gen /\ j.reserved = d.floor /\ j.previous = d.sel)
        /\ (j.phase = "Committed" => j.highest = d.gen /\ j.reserved = d.floor /\ j.candidate = d.sel)
    BY <2>3 DEF Explains
  <2> HIDE DEF j
  <2>8. j = d.journal
    BY DEF j
  <2> QED
    <3>1. d.gen \in Nat /\ d.floor \in Nat /\ d.last \in Nat
      BY <1>1, Numbers
    <3>2. ~(j.highest < d.gen) /\ ~(j.reserved < d.floor) /\ ~(d.last # 0 /\ d.last >= Head(j.lineage))
      BY <3>1, <2>1, <2>2, <2>4, <2>5
    <3> QED
      BY <3>2, <1>2, <2>5, <2>6, <2>7, <2>8 DEF StoreProblem
<1> QED
  BY <1>2, <1>3 DEF StoreProblem

\* The kinds of a proposal, and the one target that publishes nothing.
LEMMA ProposalFacts ==
  ASSUME proposal \in Requests
  PROVE  /\ proposal.desired \in Selections /\ proposal.members \in MemberLists
         /\ proposal.kind \in {"Maintenance", "Recovery"}
         /\ proposal.kind = "Maintenance" => proposal.target = "none"
BY DEF Requests

\* The reservation admits a transaction, and what it aims at is known from the permission.
LEMMA AdmitKeeps ==
  ASSUME Sound(store), proposal \in Requests, Permitted(store, proposal), nextGen = NextGeneration(proposal)
  PROVE  LET b == Admitted(store)
         IN  /\ Sound(b) /\ AdmitMove(store, b) /\ b.journal # None
             /\ IF proposal.target = "FinishCommittedCleanup" THEN b.journal.phase = "Committed"
                ELSE /\ b.journal.phase \in {"Admitted", "PublishPending"}
                     /\ nextGen = HighestOf(b) + 1 /\ nextGen <= MaxGen
                     /\ NotBelow(proposal.desired, FloorOf(b)) /\ NotBelow(proposal.desired, EpochOf(b.sel))
                     /\ b.journal.phase = "Admitted" => b.journal.candidate = proposal.desired
                     /\ b.journal.phase = "PublishPending"
                          => proposal.desired \in {b.journal.candidate, b.journal.previous}
<1> DEFINE b == Admitted(store)
           t == store.counter + 1
<1>1. store \in Stores /\ store.counter <= MaxCounter /\ store.last <= store.counter
      /\ store.gen <= HighestOf(store) /\ HighestOf(store) <= MaxGen /\ FloorOf(store) <= MaxEpoch
      /\ NotBelow(store.sel, store.floor)
  BY DEF Sound, Bounded
<1>2. t \in Nat /\ t <= MaxCounter /\ t > store.last /\ t > store.counter
  BY <1>1, Numbers, Limits DEF Permitted
<1>3. NotBelow(proposal.desired, FloorOf(store)) /\ NotBelow(proposal.desired, EpochOf(store.sel))
  <2>1. proposal.desired # Null => proposal.desired.epoch >= Max2(FloorOf(store), EpochOf(store.sel))
    BY DEF Permitted, EpochAllowed
  <2>2. FloorOf(store) \in Nat /\ EpochOf(store.sel) \in Nat
    BY <1>1, Numbers, Epochs
  <2>3. proposal.desired # Null => proposal.desired.epoch \in Nat
    BY ProposalFacts, Epochs
  <2> QED
    BY <2>1, <2>2, <2>3 DEF Max2, NotBelow
<1>4. proposal.target # "FinishCommittedCleanup" => nextGen = HighestOf(store) + 1 /\ nextGen <= MaxGen
  BY <1>1, Numbers, Limits DEF Permitted, NextGeneration
<1>5. CASE proposal.kind = "Maintenance"
  <2>1. store.journal = None /\ proposal.target = "none"
    BY <1>5, ProposalFacts DEF Permitted, NormalScope
  <2> DEFINE j == [origin |-> t, phase |-> "Admitted", highest |-> store.gen, reserved |-> store.floor,
                   previous |-> store.sel, candidate |-> proposal.desired, lineage |-> <<t>>]
  <2>2. b = [store EXCEPT !.counter = t, !.journal = j]
    BY <1>5 DEF Admitted
  <2>3. j \in Journals
    BY <1>1, <1>2, Numbers, ProposalFacts DEF Journals
  <2>4. j # None /\ b \in Stores /\ b.journal = j /\ b.counter = t /\ b.gen = store.gen /\ b.floor = store.floor
        /\ b.sel = store.sel /\ b.last = store.last
    BY <2>2, <2>3, <1>1, <1>2, Limits DEF Stores
  <2>5. j.phase = "Admitted" /\ j.highest = store.gen /\ j.reserved = store.floor /\ j.previous = store.sel
        /\ j.candidate = proposal.desired /\ j.lineage = <<t>> /\ j.origin = t
    OBVIOUS
  <2> HIDE DEF b, j
  <2>6. HighestOf(b) = HighestOf(store) /\ FloorOf(b) = FloorOf(store) /\ PhaseOf(b) = "Admitted"
        /\ PhaseOf(store) = "Stable"
    BY <2>1, <2>4, <2>5, <1>1, Numbers DEF HighestOf, FloorOf, Max2, PhaseOf
  <2>7. Descends(b, j)
    BY <2>4, <2>5, <1>2, <1>1, Numbers DEF Descends
  <2>8. Explains(b, j)
    BY <2>4, <2>5 DEF Explains
  <2>9. Sound(b)
    BY <2>4, <2>6, <2>7, <2>8, <1>1, <1>2, Numbers DEF Sound, Bounded
  <2>10. AdmitMove(store, b)
    BY <2>4, <2>6 DEF AdmitMove
  <2> QED
    BY <2>1, <2>4, <2>5, <2>6, <2>9, <2>10, <1>3, <1>4 DEF b
<1>6. CASE proposal.kind = "Recovery"
  <2> DEFINE old == store.journal
             j == [old EXCEPT !.lineage = Append(@, t)]
  <2>1. old # None /\ old \in Journals /\ Len(old.lineage) < MaxLineage
    <3>1. RecoveryScope(store, proposal)
      BY <1>6 DEF Permitted
    <3> QED
      BY <3>1, <1>1, Numbers DEF RecoveryScope
  <2>2. b = [store EXCEPT !.counter = t, !.journal = j]
    BY <1>6 DEF Admitted
  <2>3. j \in Journals /\ j.lineage = Append(old.lineage, t)
    <3> DEFINE l == Append(old.lineage, t)
    <3>1. l \in Seq(Nat)
      BY <2>1, <1>2 DEF Journals
    <3> HIDE DEF l
    <3>2. j = [old EXCEPT !.lineage = l]
      BY DEF l
    <3>3. [old EXCEPT !.lineage = l] \in Journals /\ [old EXCEPT !.lineage = l].lineage = l
      BY <2>1, <3>1 DEF Journals
    <3> QED
      BY <3>2, <3>3 DEF l
  <2>4. b \in Stores /\ b.journal = j /\ b.counter = t /\ b.gen = store.gen /\ b.floor = store.floor
        /\ b.sel = store.sel /\ b.last = store.last /\ j # None
    BY <2>2, <2>3, <1>1, <1>2, Limits DEF Stores
  <2>5. j.phase = old.phase /\ j.highest = old.highest /\ j.reserved = old.reserved /\ j.previous = old.previous
        /\ j.candidate = old.candidate /\ j.origin = old.origin
    BY <2>1 DEF Journals
  <2>6. Descends(store, old) /\ Explains(store, old)
    BY <2>1 DEF Sound
  <2>7. Descends(b, j)
    <3>0. old.lineage \in Seq(Nat) /\ old.lineage # <<>> /\ t \in Nat /\ j.lineage = Append(old.lineage, t)
      BY <2>1, <2>3, <2>6, <1>2 DEF Journals, Descends
    <3> HIDE DEF old, j, t
    <3>1. old.lineage \in Seq(Nat) /\ t \in Nat /\ Len(old.lineage) \in Nat /\ Len(old.lineage) > 0
          /\ j.lineage \in Seq(Nat) /\ Len(j.lineage) = Len(old.lineage) + 1 /\ j.lineage[Len(j.lineage)] = t
          /\ \A i \in 1..Len(old.lineage) : j.lineage[i] = old.lineage[i]
      BY <3>0
    <3>2. j.lineage # <<>> /\ j.lineage[1] = old.lineage[1]
      BY <3>1
    <3>3. ASSUME NEW i \in 1..Len(j.lineage) - 1 PROVE j.lineage[i] < j.lineage[i + 1]
      <4>1. CASE i < Len(old.lineage)
        <5>1. i \in 1..Len(old.lineage) - 1 /\ i \in 1..Len(old.lineage) /\ i + 1 \in 1..Len(old.lineage)
          BY <4>1, <3>1
        <5>2. old.lineage[i] < old.lineage[i + 1]
          BY <5>1, <2>6 DEF Descends
        <5> QED
          BY <5>1, <5>2, <3>1
      <4>2. CASE i = Len(old.lineage)
        <5>1. j.lineage[i] = store.counter /\ j.lineage[i + 1] = t
          <6>1. i \in 1..Len(old.lineage) /\ i + 1 = Len(j.lineage)
            BY <4>2, <3>1
          <6>2. old.lineage[Len(old.lineage)] = store.counter
            BY <2>6 DEF Descends
          <6> QED
            BY <6>1, <6>2, <4>2, <3>1
        <5> QED
          BY <5>1, <1>2
      <4> QED
        BY <4>1, <4>2, <3>1
    <3> QED
      BY <3>1, <3>2, <3>3, <2>4, <2>5, <2>6 DEF Descends
  <2> HIDE DEF b, j
  <2>8. Explains(b, j) /\ HighestOf(b) = HighestOf(store) /\ FloorOf(b) = FloorOf(store) /\ PhaseOf(b) = PhaseOf(store)
    BY <2>1, <2>4, <2>5, <2>6 DEF Explains, HighestOf, FloorOf, PhaseOf
  <2>9. Sound(b)
    BY <2>4, <2>7, <2>8, <1>1, <1>2, Numbers DEF Sound, Bounded
  <2>10. PhaseOf(store) # "Stable"
    BY <2>1 DEF PhaseOf, Journals
  <2>11. AdmitMove(store, b)
    BY <2>4, <2>8, <2>10 DEF AdmitMove
  <2>12. IF proposal.target = "FinishCommittedCleanup" THEN old.phase = "Committed"
         ELSE old.phase = "PublishPending" /\ proposal.desired \in {old.candidate, old.previous}
    BY <1>6, <2>1 DEF Permitted, RecoveryScope
  <2> QED
    BY <2>4, <2>5, <2>8, <2>9, <2>11, <2>12, <1>3, <1>4 DEF b
<1> QED
  BY <1>5, <1>6, ProposalFacts

\* A publication blocks under a generation and a floor above all that was there.
LEMMA BlockKeeps ==
  ASSUME Sound(store), store.journal # None, proposal \in Requests, Aimed, securityFloor = FloorOf(store)
  PROVE  LET b == Blocked(store)
             f == ReservedFloor(store)
         IN  /\ Sound(b) /\ BlockMove(store, b) /\ b.journal # None /\ b.journal.phase = "PublishPending"
             /\ b.journal.highest = nextGen /\ b.journal.reserved = f /\ FloorOf(b) = f
             /\ NotBelow(proposal.desired, f)
<1> DEFINE b == Blocked(store)
           f == ReservedFloor(store)
           old == store.journal
           j == [old EXCEPT !.phase = "PublishPending", !.highest = nextGen, !.reserved = f]
<1>1. store \in Stores /\ old \in Journals /\ HighestOf(store) = old.highest /\ FloorOf(store) = Max2(store.floor, old.reserved)
      /\ store.counter <= MaxCounter /\ store.last <= store.counter /\ store.gen <= HighestOf(store)
      /\ FloorOf(store) <= MaxEpoch /\ NotBelow(store.sel, store.floor)
  BY Numbers DEF Sound, Bounded, HighestOf, FloorOf
<1>2. proposal.desired \in Selections /\ store.sel \in Selections /\ FloorOf(store) \in Nat /\ HighestOf(store) \in Nat
      /\ store.floor \in Nat /\ old.reserved \in Nat /\ old.candidate \in Selections
  BY <1>1, Numbers, ProposalFacts DEF Journals
<1>3. f \in Nat /\ f <= MaxEpoch /\ f >= FloorOf(store) /\ f >= EpochOf(store.sel) /\ f >= EpochOf(proposal.desired)
      /\ f \in {FloorOf(store), EpochOf(store.sel), EpochOf(proposal.desired)}
  BY <1>1, <1>2, Epochs DEF ReservedFloor, Max2
<1>4. FloorOf(store) >= store.floor /\ FloorOf(store) >= old.reserved
  BY <1>1, <1>2 DEF Max2
<1>5. NotBelow(proposal.desired, f)
  BY <1>2, <1>3, Epochs DEF Aimed, NotBelow
<1>6. nextGen = HighestOf(store) + 1 /\ nextGen \in Nat /\ nextGen <= MaxGen /\ nextGen > store.gen
  BY <1>1, <1>2, Numbers DEF Aimed
<1>7. j \in Journals /\ j # None
  BY <1>1, <1>3, <1>6, Limits DEF Journals
<1>8. b \in Stores /\ b.journal = j /\ b.counter = store.counter /\ b.gen = store.gen /\ b.floor = store.floor
      /\ b.sel = store.sel /\ b.last = store.last
  BY <1>1, <1>7 DEF Blocked, Stores
<1>9. j.phase = "PublishPending" /\ j.highest = nextGen /\ j.reserved = f /\ j.previous = old.previous
      /\ j.candidate = old.candidate /\ j.origin = old.origin /\ j.lineage = old.lineage
  BY <1>1 DEF Journals
<1>10. Descends(store, old) /\ Explains(store, old)
  BY DEF Sound
<1> HIDE DEF b, j, f
<1>11. HighestOf(b) = nextGen /\ FloorOf(b) = f
  BY <1>3, <1>4, <1>7, <1>8, <1>9, <1>2 DEF HighestOf, FloorOf, Max2
<1>12. old.previous = store.sel /\ NotBelow(old.candidate, f) /\ NotBelow(old.candidate, EpochOf(store.sel))
  <2>1. CASE old.phase = "Admitted"
    <3>1. old.candidate = proposal.desired /\ old.previous = store.sel
      BY <2>1, <1>10 DEF Aimed, Explains
    <3> QED
      BY <3>1, <1>5 DEF Aimed
  <2>2. CASE old.phase = "PublishPending"
    <3>1. old.previous = store.sel /\ NotBelow(old.candidate, old.reserved) /\ old.reserved >= store.floor
          /\ NotBelow(old.candidate, EpochOf(store.sel)) /\ proposal.desired \in {old.candidate, store.sel}
      BY <2>2, <1>10 DEF Aimed, Explains
    <3>2. FloorOf(store) = old.reserved
      BY <3>1, <1>1, <1>2 DEF Max2
    <3>3. ASSUME old.candidate # Null PROVE old.candidate.epoch >= f
      <4>1. old.candidate.epoch \in Nat /\ EpochOf(old.candidate) = old.candidate.epoch /\ EpochOf(store.sel) \in Nat
        BY <3>3, <1>2, Epochs
      <4>2. old.candidate.epoch >= old.reserved /\ old.candidate.epoch >= EpochOf(store.sel)
        BY <3>1, <3>3 DEF NotBelow
      <4>3. f \in {old.reserved, EpochOf(store.sel), old.candidate.epoch}
        BY <1>3, <3>1, <3>2, <4>1
      <4> QED
        BY <4>1, <4>2, <4>3, <1>2
    <3> QED
      BY <3>1, <3>3 DEF NotBelow
  <2> QED
    BY <2>1, <2>2 DEF Aimed
<1>13. Descends(b, j) /\ Explains(b, j)
  <2>1. f >= b.floor /\ nextGen > b.gen
    BY <1>2, <1>3, <1>4, <1>6, <1>8
  <2> QED
    BY <2>1, <1>8, <1>9, <1>10, <1>12 DEF Descends, Explains
<1>14. Sound(b)
  BY <1>1, <1>3, <1>6, <1>7, <1>8, <1>11, <1>13, Numbers DEF Sound, Bounded
<1>15. PhaseOf(b) = "Blocked" /\ PhaseOf(store) \in {"Admitted", "Blocked"}
  BY <1>7, <1>8, <1>9 DEF PhaseOf, Aimed
<1>16. BlockMove(store, b)
  BY <1>3, <1>6, <1>8, <1>11, <1>15 DEF BlockMove
<1> QED
  BY <1>5, <1>7, <1>8, <1>9, <1>11, <1>14, <1>16 DEF b, f

\* A commit selects what was confirmed, under the blocked generation and floor.
LEMMA CommitKeeps ==
  ASSUME Sound(store), store.journal # None, proposal \in Requests, securityFloor = FloorOf(store),
         store.journal.phase = "PublishPending", store.journal.highest = nextGen,
         store.journal.reserved = securityFloor, NotBelow(proposal.desired, securityFloor)
  PROVE  LET b == Committed(store)
         IN  /\ Sound(b) /\ CommitMove(store, b) /\ b.journal # None /\ b.journal.phase = "Committed"
             /\ b.counter = store.counter /\ b.sel = proposal.desired /\ FloorOf(b) = securityFloor
<1> DEFINE b == Committed(store)
           old == store.journal
           j == [old EXCEPT !.candidate = proposal.desired, !.phase = "Committed"]
<1>1. store \in Stores /\ old \in Journals /\ HighestOf(store) = old.highest /\ store.counter <= MaxCounter
      /\ store.last <= store.counter /\ FloorOf(store) <= MaxEpoch /\ HighestOf(store) <= MaxGen
  BY Numbers DEF Sound, Bounded, HighestOf
<1>2. proposal.desired \in Selections /\ securityFloor \in Nat /\ nextGen \in Nat
  BY <1>1, Numbers, ProposalFacts
<1>3. j \in Journals /\ j # None
  BY <1>1, <1>2, Limits DEF Journals
<1>4. b = [store EXCEPT !.sel = proposal.desired, !.gen = nextGen, !.floor = securityFloor, !.journal = j]
  BY <1>1 DEF Committed, Stores
<1>5. b \in Stores /\ b.journal = j /\ b.counter = store.counter /\ b.gen = nextGen /\ b.floor = securityFloor
      /\ b.sel = proposal.desired /\ b.last = store.last
  BY <1>1, <1>2, <1>3, <1>4 DEF Stores
<1>6. j.phase = "Committed" /\ j.highest = nextGen /\ j.reserved = securityFloor
      /\ j.candidate = proposal.desired /\ j.origin = old.origin /\ j.lineage = old.lineage
  BY <1>1 DEF Journals
<1> HIDE DEF b, j
<1>7. HighestOf(b) = nextGen /\ FloorOf(b) = securityFloor
  BY <1>2, <1>3, <1>5, <1>6 DEF HighestOf, FloorOf, Max2
<1>8. Descends(b, j) /\ Explains(b, j)
  BY <1>5, <1>6 DEF Sound, Descends, Explains
<1>9. Sound(b)
  BY <1>1, <1>2, <1>3, <1>5, <1>7, <1>8, Numbers DEF Sound, Bounded
<1>10. PhaseOf(store) = "Blocked" /\ PhaseOf(b) = "Committed"
  BY <1>3, <1>5, <1>6 DEF PhaseOf
<1>11. CommitMove(store, b)
  BY <1>1, <1>5, <1>7, <1>10 DEF CommitMove
<1> QED
  BY <1>3, <1>5, <1>6, <1>7, <1>9, <1>11 DEF b

\* Cleaning up drops the journal and nothing else.
LEMMA CompleteKeeps ==
  ASSUME Sound(store), store.journal # None, store.journal.phase = "Committed"
  PROVE  LET b == Completed(store)
         IN  Sound(b) /\ CompleteMove(store, b) /\ FloorOf(b) = FloorOf(store) /\ b.counter = store.counter
<1> DEFINE b == Completed(store)
           j == store.journal
<1>1. store \in Stores /\ j \in Journals /\ store.counter <= MaxCounter /\ HighestOf(store) <= MaxGen
      /\ FloorOf(store) <= MaxEpoch /\ NotBelow(store.sel, store.floor)
  BY Numbers DEF Sound, Bounded
<1>2. j.highest = store.gen /\ j.reserved = store.floor
  BY DEF Sound, Explains
<1>3. HighestOf(store) = store.gen /\ FloorOf(store) = store.floor
  BY <1>1, <1>2, Numbers DEF HighestOf, FloorOf, Max2
<1>4. b \in Stores /\ b.journal = None /\ b.counter = store.counter /\ b.gen = store.gen /\ b.floor = store.floor
      /\ b.sel = store.sel /\ b.last = store.counter
  BY <1>1 DEF Completed, Stores
<1> HIDE DEF b
<1>5. HighestOf(b) = store.gen /\ FloorOf(b) = store.floor
  BY <1>4 DEF HighestOf, FloorOf
<1>6. Sound(b)
  BY <1>1, <1>3, <1>4, <1>5, Numbers DEF Sound, Bounded
<1>7. CompleteMove(store, b)
  BY <1>3, <1>4, <1>5 DEF CompleteMove, PhaseOf
<1> QED
  BY <1>3, <1>4, <1>5, <1>6, <1>7 DEF b

-----------------------------------------------------------------------------
\* What is stored is as before, and the state may only say less.
LEMMA DiskFrame ==
  ASSUME DiskInv, UNCHANGED <<disk, store, floors>>, state' # "RecoveryRequired" => disk = {store},
         consent' = consent \/ disk = {store}
  PROVE  DiskInv'
BY DEF DiskInv, floors

\* One store, certainly durable, from the session's own.
LEMMA DiskMoves ==
  ASSUME Sound(store'), disk' = {store'}, securityFloor' = FloorOf(store'), store'.counter <= counterFloor'
  PROVE  DiskInv'
BY DEF DiskInv

LEMMA FailStates ==
  ASSUME NEW fatal \in BOOLEAN, Fail(fatal)
  PROVE  /\ terminal' = TRUE
         /\ state' \in {"RecoveryRequired", "Completed", "CleanupPending", "Aborted", "Rejected"}
         /\ state = "PublishPending" \/ fatal => state' = "RecoveryRequired"
<1>1. terminal' = TRUE
  BY DEF Fail
<1>2. CASE Doubtful(fatal)
  BY <1>1, <1>2 DEF Fail
<1>3. CASE ~Doubtful(fatal)
  <2>1. ~fatal /\ state # "PublishPending"
    BY <1>3 DEF Doubtful
  <2>2. state' \in {"Completed", "CleanupPending", "Aborted", "Rejected"}
    <3>1. CASE state = "Completed"
      BY <3>1, <1>3 DEF Fail
    <3>2. CASE state \in {"Committed", "CleanupPending"}
      BY <3>2, <1>3 DEF Fail
    <3>3. CASE state \notin {"Completed", "Committed", "CleanupPending"}
      BY <3>3, <1>3 DEF Fail
    <3> QED
      BY <3>1, <3>2, <3>3
  <2> QED
    BY <1>1, <2>1, <2>2
<1> QED
  BY <1>2, <1>3

\* A session that ended in one of these states has nothing left to keep but the storage.
LEMMA EndKeeps ==
  ASSUME SessionsInv, terminal' = TRUE, DiskInv', UNCHANGED <<known, replyLost, received>>,
         state' \in {"RecoveryRequired", "Completed", "CleanupPending", "Aborted", "Rejected"},
         now' \in 0..MaxTime, admission' \in {"NotConsumed", "Unknown", "ConsumedInModel"}
  PROVE  SessionsInv'
<1>1. SessionInv'
  BY DEF SessionsInv, SessionInv, Before
<1>2. ProposalInv' /\ WorkInv'
  BY DEF ProposalInv, WorkInv
<1> QED
  BY <1>1, <1>2 DEF SessionsInv

\* While a session goes on, its store is all that is stored.
LEMMA GoingOn == SessionsInv /\ ~terminal => disk = {store} /\ state # "RecoveryRequired"
BY DEF SessionsInv, SessionInv, DiskInv

LEMMA RefuseKeeps == SessionsInv /\ Refuse => SessionsInv'
<1> SUFFICES ASSUME SessionsInv, Refuse PROVE SessionsInv'
  OBVIOUS
<1>1. Fail(FALSE) /\ ~terminal /\ UNCHANGED <<disk, known, store, replyLost, now, received, counterFloor,
                                              securityFloor, consent, admission>>
  BY DEF Refuse, storage, intake, floors
<1>2. DiskInv'
  BY <1>1, GoingOn, DiskFrame DEF SessionsInv, floors
<1>3. now' \in 0..MaxTime /\ admission' \in {"NotConsumed", "Unknown", "ConsumedInModel"}
  BY <1>1 DEF SessionsInv, SessionInv
<1> QED
  BY <1>1, <1>2, <1>3, FailStates, EndKeeps

LEMMA RefuseFatallyKeeps == SessionsInv /\ RefuseFatally => SessionsInv'
<1> SUFFICES ASSUME SessionsInv, RefuseFatally PROVE SessionsInv'
  OBVIOUS
<1>1. Fail(TRUE) /\ UNCHANGED <<known, store, replyLost, now, received, counterFloor, securityFloor, consent, admission>>
  BY DEF RefuseFatally, intake, floors
<1>2. state' = "RecoveryRequired"
  BY <1>1, FailStates
<1>3. ASSUME state = "PublishPending" PROVE DiskInv'
  <2>1. disk' = {store, Committed(store)}
    BY <1>3 DEF RefuseFatally
  <2>2. Sound(store) /\ securityFloor = FloorOf(store) /\ store.counter <= counterFloor
    BY DEF SessionsInv, DiskInv
  <2>3. /\ Sound(Committed(store)) /\ CommitMove(store, Committed(store))
        /\ Committed(store).counter = store.counter /\ Committed(store).sel = proposal.desired
    BY <1>3, <2>2, CommitKeeps DEF SessionsInv, WorkInv
  <2>4. consent = [tx |-> store.counter, desired |-> proposal.desired]
    BY <1>3 DEF SessionsInv, ProposalInv, WorkInv
  <2>5. ASSUME NEW d \in disk'
        PROVE  /\ Sound(d) /\ d.counter <= counterFloor'
               /\ d = store' \/ (CommitMove(store', d) /\ consent' = [tx |-> d.counter, desired |-> d.sel])
    <3>1. CASE d = store
      BY <3>1, <1>1, <2>2
    <3>2. CASE d = Committed(store)
      <4> HIDE DEF Committed
      <4> QED
        BY <3>2, <1>1, <2>2, <2>3, <2>4
    <3> QED
      BY <3>1, <3>2, <2>1
  <2>6. Sound(store') /\ store' \in disk' /\ securityFloor' = FloorOf(store') /\ store'.counter <= counterFloor'
    BY <1>1, <2>1, <2>2
  <2> QED
    BY <1>2, <2>5, <2>6 DEF DiskInv
<1>4. ASSUME state # "PublishPending" PROVE DiskInv'
  <2>1. disk' = disk
    BY <1>4 DEF RefuseFatally
  <2>2. DiskInv
    BY DEF SessionsInv
  <2>3. UNCHANGED <<disk, store, floors>> /\ consent' = consent /\ ~(state' # "RecoveryRequired")
    BY <1>1, <1>2, <2>1 DEF floors
  <2> QED
    BY <2>2, <2>3, DiskFrame
<1>5. now' \in 0..MaxTime /\ admission' \in {"NotConsumed", "Unknown", "ConsumedInModel"}
  BY <1>1 DEF SessionsInv, SessionInv
<1> QED
  BY <1>1, <1>3, <1>4, <1>5, FailStates, EndKeeps

LEMMA NextSessionKeeps == SessionsInv /\ NextSession => SessionsInv'
<1> SUFFICES ASSUME SessionsInv, NextSession PROVE SessionsInv'
  OBVIOUS
<1>1. PICK d \in disk, k \in BOOLEAN : Start(d, k)
  BY DEF NextSession
<1>2. Sound(d)
  BY DEF SessionsInv, DiskInv
<1>3. store' = d /\ disk' = {d} /\ securityFloor' = FloorOf(d) /\ counterFloor' = d.counter
  BY <1>1 DEF Start
<1>4. d.counter \in Nat
  BY <1>2, Numbers DEF Sound, Bounded
<1>5. DiskInv'
  BY <1>2, <1>3, <1>4, DiskMoves
<1>6. state' \in {"AwaitPeer", "RecoveryRequired"} /\ terminal' = (state' = "RecoveryRequired")
      /\ known' = k /\ replyLost' = FALSE /\ admission' = "NotConsumed" /\ now' = 0 /\ received' = <<>>
  BY <1>1 DEF Start
<1>7. SessionInv'
  <2>1. now' \in 0..MaxTime /\ received' \in Seq([size : Nat, got : Nat]) /\ DOMAIN received' = {}
    BY <1>6, Limits
  <2>2. terminal' \in BOOLEAN /\ (state' = "RecoveryRequired" => terminal')
    BY <1>6
  <2> QED
    BY <1>6, <2>1, <2>2 DEF SessionInv
<1>8. ProposalInv' /\ WorkInv'
  BY <1>6 DEF ProposalInv, WorkInv
<1> QED
  BY <1>5, <1>7, <1>8 DEF SessionsInv

\* An event that only moves the state, the clock and the reply.
LEMMA EventKeeps ==
  ASSUME SessionsInv, ~terminal, now' \in 0..MaxTime, replyLost' \in BOOLEAN, state' # "RecoveryRequired",
         UNCHANGED <<storage, store, admission, terminal, received, floors, offer>>,
         ProposalInv', WorkInv', state' \in Before => state \in Before
  PROVE  SessionsInv'
<1>1. DiskInv'
  BY GoingOn, DiskFrame DEF SessionsInv, storage
<1>2. SessionInv'
  BY DEF SessionsInv, SessionInv, storage
<1> QED
  BY <1>1, <1>2 DEF SessionsInv

LEMMA Clock ==
  ASSUME SessionsInv, NEW at \in now..MaxTime
  PROVE  at \in 0..MaxTime
BY Limits DEF SessionsInv, SessionInv

\* The events in which nothing but the state, the clock and the reply moves.
LEMMA WaitKeeps ==
  ASSUME SessionsInv, NEW at \in now..MaxTime, now' = at, ~terminal, replyLost' \in BOOLEAN,
         UNCHANGED <<storage, store, admission, terminal, received, offer, floors, consent>>,
         \/ state' = state
         \/ state' \in {"AwaitHello", "AwaitBind", "Bound"} /\ state \in Before
         \/ state = "Proposed" /\ state' = "Reviewed"
         \/ state = "Reviewed" /\ state' = "Offered"
         \/ state = "Admitted" /\ state' = "PayloadVerified" /\ proposal.target # "FinishCommittedCleanup"
         \/ state' = "CleanupPending"
  PROVE  SessionsInv'
<1>1. ProposalInv'
  BY DEF SessionsInv, ProposalInv, offer, NextGeneration
<1>2. WorkInv'
  BY DEF SessionsInv, WorkInv, Aimed, offer, floors
<1>3. state' # "RecoveryRequired" /\ (state' \in Before => state \in Before)
  BY GoingOn DEF Before
<1> QED
  BY <1>1, <1>2, <1>3, Clock, EventKeeps

LEMMA PairKeeps == ASSUME SessionsInv, NEW at \in now..MaxTime, Pair(at) PROVE SessionsInv'
<1>1. ~terminal /\ ~replyLost /\ now' = at /\ UNCHANGED <<storage, store, admission, terminal, replyLost, offer, received, floors, consent>>
  BY DEF Pair, Accept, intake
<1>2. state' \in {"AwaitHello", "AwaitBind", "Bound"} /\ state \in Before
  BY DEF Pair, Pairing, Before
<1> QED
  BY <1>1, <1>2, WaitKeeps DEF SessionsInv, SessionInv

LEMMA ProposeKeeps == ASSUME SessionsInv, NEW at \in now..MaxTime, ProposeOperation(at) PROVE SessionsInv'
<1>1. ~terminal /\ now' = at /\ UNCHANGED <<disk, known, store, admission, terminal, replyLost, received, floors, consent>>
  BY DEF ProposeOperation, Accept, intake, storage
<1>2. state = "Bound" /\ state' = "Proposed" /\ txn' = store.counter + 1 /\ proposal' \in Requests
      /\ Permitted(store, proposal') /\ nextGen' = NextGeneration(proposal')
  BY DEF ProposeOperation
<1>3. DiskInv'
  BY <1>1, GoingOn, DiskFrame DEF SessionsInv
<1>4. SessionInv'
  BY <1>1, <1>2, Clock DEF SessionsInv, SessionInv, Before
<1>5. NextGeneration(proposal)' = NextGeneration(proposal')
  BY <1>1 DEF NextGeneration
<1>6. ProposalInv' /\ WorkInv'
  BY <1>1, <1>2, <1>5 DEF ProposalInv, WorkInv
<1> QED
  BY <1>3, <1>4, <1>6 DEF SessionsInv

LEMMA ReviewKeeps == ASSUME SessionsInv, NEW at \in now..MaxTime, ReviewOffer(at) \/ VerifiedOffer(at) PROVE SessionsInv'
<1>1. ~terminal /\ ~replyLost /\ now' = at /\ UNCHANGED <<storage, store, admission, terminal, replyLost, offer, received, floors, consent>>
  BY DEF ReviewOffer, VerifiedOffer, Accept, intake
<1>2. \/ state = "Proposed" /\ state' = "Reviewed"
      \/ state = "Reviewed" /\ state' = "Offered"
  BY DEF ReviewOffer, VerifiedOffer
<1> QED
  BY <1>1, <1>2, WaitKeeps DEF SessionsInv, SessionInv

LEMMA ConfirmKeeps == ASSUME SessionsInv, NEW at \in now..MaxTime, Confirm(at) PROVE SessionsInv'
<1>1. ~terminal /\ now' = at /\ UNCHANGED <<storage, store, admission, terminal, replyLost, offer, received, floors>>
  BY DEF Confirm, Accept, intake
<1>2. state = "Offered" /\ state' = "Confirmed" /\ consent' = [tx |-> txn, desired |-> proposal.desired]
  BY DEF Confirm, Approved
<1>3. ProposalInv'
  BY <1>1, <1>2 DEF SessionsInv, ProposalInv, offer, NextGeneration
<1>4. WorkInv'
  BY <1>2 DEF WorkInv
<1>5. replyLost' \in BOOLEAN /\ state' # "RecoveryRequired" /\ state \in Before
  BY <1>1, <1>2 DEF SessionsInv, SessionInv, Before
<1> QED
  BY <1>1, <1>3, <1>4, <1>5, Clock, EventKeeps

LEMMA ReserveKeeps == ASSUME SessionsInv, NEW at \in now..MaxTime, Reserve(at) PROVE SessionsInv'
<1> DEFINE b == Admitted(store)
<1>1. ~terminal /\ now' = at /\ state = "Confirmed" /\ counterFloor' = store.counter + 1
      /\ UNCHANGED <<known, replyLost, txn, proposal, nextGen, securityFloor, consent>>
  BY DEF Reserve, Accept, FloorAfter, offer
<1>2. Sound(store) /\ proposal \in Requests /\ Permitted(store, proposal) /\ nextGen = NextGeneration(proposal)
      /\ txn = store.counter + 1 /\ securityFloor = FloorOf(store) /\ admission = "NotConsumed"
      /\ consent = [tx |-> txn, desired |-> proposal.desired] /\ store.counter \in Nat
  BY <1>1, Numbers DEF SessionsInv, ProposalInv, DiskInv, SessionInv, Before, Sound, Bounded
<1>3. /\ Sound(b) /\ AdmitMove(store, b) /\ b.journal # None
      /\ IF proposal.target = "FinishCommittedCleanup" THEN b.journal.phase = "Committed"
         ELSE /\ b.journal.phase \in {"Admitted", "PublishPending"}
              /\ nextGen = HighestOf(b) + 1 /\ nextGen <= MaxGen
              /\ NotBelow(proposal.desired, FloorOf(b)) /\ NotBelow(proposal.desired, EpochOf(b.sel))
              /\ b.journal.phase = "Admitted" => b.journal.candidate = proposal.desired
              /\ b.journal.phase = "PublishPending"
                   => proposal.desired \in {b.journal.candidate, b.journal.previous}
  BY <1>2, AdmitKeeps
<1>4. b.counter = store.counter + 1 /\ FloorOf(b) = FloorOf(store)
  BY <1>3 DEF AdmitMove
<1> HIDE DEF b
<1>5. CASE /\ state' = "Admitted" /\ admission' = "ConsumedInModel" /\ UNCHANGED terminal
           /\ store' = b /\ disk' = {store'}
           /\ received' = [i \in DOMAIN proposal.members |-> [size |-> proposal.members[i], got |-> 0]]
  <2>1. DiskInv'
    BY <1>1, <1>2, <1>3, <1>4, <1>5, DiskMoves
  <2>2. ProposalInv'
    BY <1>1, <1>2, <1>5 DEF ProposalInv
  <2>3. WorkInv'
    BY <1>1, <1>2, <1>3, <1>4, <1>5 DEF WorkInv, Aimed
  <2>4. received' \in Seq([size : Nat, got : Nat]) /\ \A i \in DOMAIN received' : received'[i].got <= received'[i].size
    <3>1. proposal.members \in Seq(Nat)
      BY <1>2, ProposalFacts, Limits
    <3>2. DOMAIN proposal.members = 1..Len(proposal.members) /\ Len(proposal.members) \in Nat
          /\ \A i \in 1..Len(proposal.members) : proposal.members[i] \in Nat
      BY <3>1
    <3> DEFINE m == Len(proposal.members)
    <3>3. received' = [i \in 1..m |-> [size |-> proposal.members[i], got |-> 0]]
      BY <1>5, <3>2
    <3>4. received' \in [1..m -> [size : Nat, got : Nat]] /\ DOMAIN received' = 1..m
      BY <3>2, <3>3
    <3>5. \A i \in 1..m : received'[i].got <= received'[i].size
      BY <3>2, <3>3
    <3> HIDE DEF m
    <3>6. received' \in Seq([size : Nat, got : Nat])
      BY <3>2, <3>4, SeqDef DEF m
    <3> QED
      BY <3>4, <3>5, <3>6
  <2>5. SessionInv'
    BY <1>1, <1>5, <2>4, Clock DEF SessionsInv, SessionInv, Before
  <2> QED
    BY <2>1, <2>2, <2>3, <2>5 DEF SessionsInv
<1>6. CASE /\ admission' = "Unknown" /\ Fail(TRUE) /\ disk' = {store, b} /\ UNCHANGED <<store, intake>>
  <2>1. state' = "RecoveryRequired" /\ terminal' = TRUE
    BY <1>6, FailStates
  <2>2. DiskInv'
    BY <1>1, <1>2, <1>3, <1>4, <1>6, <2>1 DEF DiskInv
  <2> QED
    BY <1>1, <1>6, <2>1, <2>2, Clock, EndKeeps DEF intake
<1> QED
  BY <1>5, <1>6 DEF Reserve, b

LEMMA ChunkKeeps == ASSUME SessionsInv, NEW at \in now..MaxTime, PayloadChunk(at) PROVE SessionsInv'
<1>1. ~terminal /\ now' = at /\ state = "Admitted"
      /\ UNCHANGED <<disk, known, store, state, admission, terminal, replyLost, offer, floors, consent>>
  BY DEF PayloadChunk, Accept, storage
<1> DEFINE i == Min({k \in DOMAIN received : received[k].got # received[k].size})
<1>2. PICK n \in 1..ChunkSize : Expected(n, i) /\ received' = [received EXCEPT ![i].got = @ + n]
  BY DEF PayloadChunk
<1> HIDE DEF i
<1>3. received \in Seq([size : Nat, got : Nat]) /\ \A k \in DOMAIN received : received[k].got <= received[k].size
  BY DEF SessionsInv, SessionInv
<1>4. received' \in Seq([size : Nat, got : Nat]) /\ \A k \in DOMAIN received' : received'[k].got <= received'[k].size
  <2>1. CASE i \notin DOMAIN received
    <3>1. received' = received
      BY <2>1, <1>2, <1>3
    <3> QED
      BY <3>1, <1>3
  <2>2. CASE i \in DOMAIN received
    <3> DEFINE r == received[i]
               left == r.size - r.got
    <3>1. r \in [size : Nat, got : Nat] /\ r.got <= r.size
      <4>0. i \in 1..Len(received)
        BY <2>2, <1>3
      <4>1. received[i] \in [size : Nat, got : Nat]
        BY <4>0, <1>3, ElementOfSeq
      <4> QED
        BY <4>1, <2>2, <1>3
    <3>2. n <= left
      <4>1. left \in Nat /\ n \in Nat /\ ChunkSize \in Nat
        BY <3>1, <1>2, Limits
      <4> HIDE DEF left
      <4>2. n = Min({ChunkSize, left})
        BY <1>2 DEF Expected, left
      <4>3. \E x \in {ChunkSize, left} : \A y \in {ChunkSize, left} : x <= y
        BY <4>1
      <4> QED
        BY <4>1, <4>2, <4>3 DEF Min
    <3>3. r.got + n \in Nat /\ r.got + n <= r.size
      BY <3>1, <3>2, <1>2, Limits
    <3>4. received' = [received EXCEPT ![i] = [size |-> r.size, got |-> r.got + n]]
      <4> DEFINE e0 == [r EXCEPT !.got = r.got + n]
      <4>1. received' = [received EXCEPT ![i] = e0]
        BY <1>2, <2>2
      <4>2. e0 = [size |-> r.size, got |-> r.got + n]
        <5> HIDE DEF r
        <5> QED
          BY <3>1
      <4> QED
        BY <4>1, <4>2
    <3> DEFINE e == [size |-> r.size, got |-> r.got + n]
    <3>5. e \in [size : Nat, got : Nat] /\ e.got <= e.size
      BY <3>1, <3>3
    <3> HIDE DEF e, r
    <3> QED
      BY <1>3, <2>2, <3>4, <3>5 DEF e
  <2> QED
    BY <2>1, <2>2
<1>5. SessionInv'
  BY <1>1, <1>4, Clock DEF SessionsInv, SessionInv, Before
<1>6. DiskInv'
  BY <1>1, GoingOn, DiskFrame DEF SessionsInv
<1>7. ProposalInv' /\ WorkInv'
  BY <1>1 DEF SessionsInv, ProposalInv, WorkInv, Aimed, offer, floors
<1> QED
  BY <1>5, <1>6, <1>7 DEF SessionsInv

LEMMA VerifyKeeps == ASSUME SessionsInv, NEW at \in now..MaxTime, VerifyPayload(at) PROVE SessionsInv'
<1>1. ~terminal /\ ~replyLost /\ now' = at /\ UNCHANGED <<storage, store, admission, terminal, replyLost, offer, received, floors, consent>>
  BY DEF VerifyPayload, Accept, intake
<1>2. state = "Admitted" /\ state' = "PayloadVerified" /\ proposal.target # "FinishCommittedCleanup"
  BY DEF VerifyPayload
<1> QED
  BY <1>1, <1>2, WaitKeeps DEF SessionsInv, SessionInv

LEMMA ReplyKeeps ==
  ASSUME SessionsInv, NEW at \in now..MaxTime,
         AdmissionRecorded(at) \/ Result(at) \/ QueryStatus(at) \/ Progress(at)
  PROVE  SessionsInv'
<1>1. ~terminal /\ now' = at /\ UNCHANGED <<storage, store, state, admission, terminal, offer, received, floors, consent>>
  BY DEF AdmissionRecorded, Result, QueryStatus, Progress, Accept, intake
<1>2. replyLost' \in BOOLEAN
  BY DEF AdmissionRecorded, Result, QueryStatus, Progress, SessionsInv, SessionInv
<1> QED
  BY <1>1, <1>2, WaitKeeps

LEMMA BeginPublishKeeps == ASSUME SessionsInv, NEW at \in now..MaxTime, BeginPublish(at) PROVE SessionsInv'
<1>1. ~terminal /\ now' = at /\ state = "PayloadVerified" /\ state' = "PublishPending"
      /\ securityFloor' = ReservedFloor(store) /\ store' = Blocked(store) /\ disk' = {store'}
      /\ UNCHANGED <<known, admission, terminal, replyLost, txn, proposal, nextGen, received, counterFloor, consent>>
  BY DEF BeginPublish, Accept, offer, intake
<1>2. Sound(store) /\ store.journal # None /\ proposal \in Requests /\ Aimed /\ securityFloor = FloorOf(store)
      /\ txn = store.counter /\ consent = [tx |-> txn, desired |-> proposal.desired] /\ store.counter <= counterFloor
  BY <1>1 DEF SessionsInv, DiskInv, WorkInv, ProposalInv
<1>3. /\ Sound(store') /\ BlockMove(store, store') /\ store'.journal # None /\ store'.journal.phase = "PublishPending"
      /\ store'.journal.highest = nextGen /\ store'.journal.reserved = securityFloor' /\ FloorOf(store') = securityFloor'
      /\ NotBelow(proposal.desired, securityFloor')
  BY <1>1, <1>2, BlockKeeps
<1>4. store'.counter = store.counter
  BY <1>3 DEF BlockMove
<1>5. DiskInv'
  BY <1>1, <1>2, <1>3, <1>4, DiskMoves
<1>6. ProposalInv' /\ WorkInv'
  BY <1>1, <1>2, <1>3, <1>4 DEF ProposalInv, WorkInv
<1>7. SessionInv'
  BY <1>1, Clock DEF SessionsInv, SessionInv, Before
<1> QED
  BY <1>5, <1>6, <1>7 DEF SessionsInv

LEMMA CommitStepKeeps == ASSUME SessionsInv, NEW at \in now..MaxTime, Commit(at) PROVE SessionsInv'
<1>1. ~terminal /\ now' = at /\ state = "PublishPending" /\ state' = "Committed"
      /\ store' = Committed(store) /\ disk' = {store'}
      /\ UNCHANGED <<known, admission, terminal, replyLost, txn, proposal, nextGen, received, counterFloor, securityFloor, consent>>
  BY DEF Commit, Accept, offer, intake, floors
<1>2. Sound(store) /\ securityFloor = FloorOf(store) /\ store.counter <= counterFloor
  BY DEF SessionsInv, DiskInv
<1>3. /\ Sound(store') /\ store'.journal # None /\ store'.journal.phase = "Committed"
      /\ store'.counter = store.counter /\ FloorOf(store') = securityFloor
  BY <1>1, <1>2, CommitKeeps DEF SessionsInv, WorkInv
<1>4. DiskInv'
  BY <1>1, <1>2, <1>3, DiskMoves
<1>5. ProposalInv' /\ WorkInv'
  BY <1>1, <1>3 DEF ProposalInv, WorkInv
<1>6. SessionInv'
  BY <1>1, Clock DEF SessionsInv, SessionInv, Before
<1> QED
  BY <1>4, <1>5, <1>6 DEF SessionsInv

\* What is cleaned up was committed, in this session or an earlier one.
LEMMA CleanupFacts ==
  ASSUME SessionsInv, NEW at, Cleanup(at)
  PROVE  Sound(store) /\ store.journal # None /\ store.journal.phase = "Committed"
BY DEF SessionsInv, DiskInv, WorkInv, Cleanup

LEMMA CleanupKeeps == ASSUME SessionsInv, NEW at \in now..MaxTime, Cleanup(at) PROVE SessionsInv'
<1>1. ~terminal /\ ~replyLost /\ now' = at
      /\ UNCHANGED <<known, admission, terminal, replyLost, offer, received, floors, consent>>
  BY DEF Cleanup, Accept, intake
<1>2. CASE state' = "CleanupPending" /\ UNCHANGED <<store, disk>>
  BY <1>1, <1>2, WaitKeeps DEF storage, SessionsInv, SessionInv
<1>3. CASE state' = "Completed" /\ store' = Completed(store) /\ disk' = {store'}
  <2>1. Sound(store') /\ FloorOf(store') = FloorOf(store) /\ store'.counter = store.counter
    BY <1>3, CleanupFacts, CompleteKeeps
  <2>2. DiskInv'
    BY <1>1, <1>3, <2>1, DiskMoves DEF SessionsInv, DiskInv, floors
  <2>3. ProposalInv' /\ WorkInv'
    BY <1>3 DEF ProposalInv, WorkInv
  <2>4. SessionInv'
    BY <1>1, <1>3, Clock DEF SessionsInv, SessionInv, Before
  <2> QED
    BY <2>2, <2>3, <2>4 DEF SessionsInv
<1> QED
  BY <1>2, <1>3 DEF Cleanup

LEMMA SessionsStart == Init => SessionsInv
<1> SUFFICES ASSUME Init PROVE SessionsInv
  OBVIOUS
<1>1. Empty \in Stores /\ HighestOf(Empty) = 0 /\ FloorOf(Empty) = 0
  BY DEF Empty, Stores, HighestOf, FloorOf, Selections
<1>2. Sound(Empty)
  BY <1>1, Limits, TuplesAssumption DEF Sound, Bounded, Empty, NotBelow
<1>3. DiskInv
  BY <1>1, <1>2 DEF Init, DiskInv, Empty
<1>4. SessionInv
  <2>1. now \in 0..MaxTime /\ received \in Seq([size : Nat, got : Nat]) /\ DOMAIN received = {}
    BY Limits DEF Init
  <2> QED
    BY <2>1 DEF Init, SessionInv
<1>5. ProposalInv /\ WorkInv
  BY DEF Init, ProposalInv, WorkInv
<1> QED
  BY <1>3, <1>4, <1>5 DEF SessionsInv

LEMMA SessionsKeep == SessionsInv /\ Next => SessionsInv'
<1> SUFFICES ASSUME SessionsInv, Next PROVE SessionsInv'
  OBVIOUS
<1>1. CASE NextSession \/ Refuse \/ RefuseFatally
  BY <1>1, NextSessionKeeps, RefuseKeeps, RefuseFatallyKeeps
<1>2. ASSUME NEW at \in now..MaxTime,
             \/ Pair(at) \/ ProposeOperation(at) \/ ReviewOffer(at) \/ VerifiedOffer(at) \/ Confirm(at)
             \/ Reserve(at) \/ AdmissionRecorded(at) \/ PayloadChunk(at) \/ VerifyPayload(at)
             \/ BeginPublish(at) \/ Commit(at) \/ Cleanup(at) \/ Result(at) \/ QueryStatus(at) \/ Progress(at)
      PROVE  SessionsInv'
  BY <1>2, PairKeeps, ProposeKeeps, ReviewKeeps, ConfirmKeeps, ReserveKeeps, ReplyKeeps, ChunkKeeps, VerifyKeeps,
     BeginPublishKeeps, CommitStepKeeps, CleanupKeeps
<1> QED
  BY <1>1, <1>2 DEF Next

-----------------------------------------------------------------------------
\* The order of the stages.
LEMMA Stages ==
  /\ D!After("Requested") = "Prepared" /\ D!After("Prepared") = "Staged" /\ D!After("Staged") = "Verified"
  /\ D!After("Verified") = "PublishPending" /\ D!After("PublishPending") = "Committed"
  /\ D!After("Committed") = "CleanupPending" /\ D!After("CleanupPending") = "Completed"
<1> DEFINE S == D!Stages
<1>1. S[1] = "Requested" /\ S[2] = "Prepared" /\ S[3] = "Staged" /\ S[4] = "Verified" /\ S[5] = "PublishPending"
      /\ S[6] = "Committed" /\ S[7] = "CleanupPending" /\ S[8] = "Completed"
  BY DEF D!Stages
<1> HIDE DEF S
<1>2. ASSUME NEW k \in 1..7 PROVE D!After(S[k]) = S[k + 1]
  <2>1. (CHOOSE i \in 1..7 : S[i] = S[k]) = k
    <3>1. \A i \in 1..7 : S[i] = S[k] => i = k
      BY <1>1
    <3> QED
      BY <3>1
  <2>2. D!After(S[k]) = S[1 + (CHOOSE i \in 1..7 : S[i] = S[k])]
    BY DEF D!After, S
  <2> DEFINE c == CHOOSE i \in 1..7 : S[i] = S[k]
  <2>3. c = k /\ D!After(S[k]) = S[1 + c]
    BY <2>1, <2>2
  <2> HIDE DEF c
  <2> QED
    BY <2>3
<1>3. D!After(S[1]) = S[2] /\ D!After(S[2]) = S[3] /\ D!After(S[3]) = S[4] /\ D!After(S[4]) = S[5]
      /\ D!After(S[5]) = S[6] /\ D!After(S[6]) = S[7] /\ D!After(S[7]) = S[8]
  BY <1>2
<1> QED
  BY <1>1, <1>3

LEMMA ScenariosStart == D!Init => ScenariosInv
<1> SUFFICES ASSUME D!Init PROVE ScenariosInv
  OBVIOUS
<1>1. Null \in Selections /\ "Repair" \in Operations /\ 0 \in 0..MaxEpoch /\ 0 \in 0..MaxGen
  BY Limits, TuplesAssumption DEF Selections, Operations
<1>2. IsFiniteSet({})
  BY FS_EmptySet
<1>3. SnapshotInv
  BY <1>1, <1>2 DEF D!Init, SnapshotInv, NotBelow
<1>4. StageInv /\ ReceiptInv
  BY DEF D!Init, StageInv, ReceiptInv, Unpublished
<1> QED
  BY <1>3, <1>4 DEF ScenariosInv

\* What the invariant says of the values.
LEMMA Values ==
  ASSUME SnapshotInv
  PROVE  /\ snapshot.gen \in 0..MaxGen /\ snapshot.floor \in 0..MaxEpoch /\ snapshot.sel \in Selections
         /\ intent.next \in Nat /\ intent.desired \in Selections
         /\ EpochOf(snapshot.sel) \in 0..MaxEpoch /\ EpochOf(intent.desired) \in 0..MaxEpoch
         /\ snapshot = [gen |-> snapshot.gen, floor |-> snapshot.floor, sel |-> snapshot.sel]
BY Epochs DEF SnapshotInv

LEMMA RequestKeeps == ScenariosInv /\ D!Request => ScenariosInv'
<1> SUFFICES ASSUME ScenariosInv, D!Request PROVE ScenariosInv'
  OBVIOUS
<1>1. PICK op \in Operations, d \in Selections, n \in {snapshot.gen, snapshot.gen + 1} :
        LET i == [op |-> op, next |-> n, desired |-> d] IN
        /\ D!Admissible(snapshot, i) /\ intent' = i
        /\ \E r \in D!Receipts(i), t \in 0..MaxScenarioTime : D!Confirmed(snapshot, i, r, t) /\ receipt' = r
  BY DEF D!Request, D!Selections, D!Operations, Selections, Operations, D!Tuples, Tuples
<1> DEFINE i == [op |-> op, next |-> n, desired |-> d]
<1>2. D!Admissible(snapshot, i) /\ intent' = i /\ i.op = op /\ i.next = n /\ i.desired = d
  BY <1>1
<1>3. PICK r \in D!Receipts(i), t \in 0..MaxScenarioTime : D!Confirmed(snapshot, i, r, t) /\ receipt' = r
  BY <1>1
<1> HIDE DEF i
<1>4. stage' = "Requested" /\ ended' = "None" /\ minFloor' = snapshot.floor /\ consumed' = FALSE
      /\ snapshot' = snapshot /\ used' = used
  BY DEF D!Request
<1>5. /\ receipt'.approved /\ receipt'.binding = [snapshot |-> snapshot, intent |-> i]
      /\ receipt'.expires - receipt'.issued <= ConfirmationSeconds /\ receipt'.nonce \notin used /\ receipt' # None
  BY <1>3 DEF D!Confirmed, D!Fresh, D!Binding
<1>6. receipt'.nonce \in Nonces
  <2>1. r = receipt' /\ r # None
    BY <1>3, <1>5
  <2>2. \/ r = None
        \/ r = receipt
        \/ r \in [approved : BOOLEAN, binding : {D!Binding(snapshot, i), Foreign},
                 nonce : Nonces, issued : 0..1, expires : 1..MaxScenarioTime]
    BY <1>3 DEF D!Receipts
  <2>3. receipt # None => receipt.nonce \in Nonces
    BY DEF ScenariosInv, ReceiptInv
  <2> QED
    BY <2>1, <2>2, <2>3
<1>7. snapshot.gen < MaxGen /\ n = snapshot.gen + 1
      /\ (d # Null => d.epoch >= Max2(snapshot.floor, EpochOf(snapshot.sel)))
  BY <1>2 DEF D!Admissible, D!EpochAccepted, D!Max2, Max2, D!EpochOf, EpochOf
<1>8. NotBelow(d, snapshot.floor) /\ NotBelow(d, EpochOf(snapshot.sel)) /\ n \in Nat /\ n <= MaxGen
  <2>1. snapshot.gen \in Nat /\ snapshot.floor \in Nat /\ EpochOf(snapshot.sel) \in Nat /\ MaxGen \in Nat
    BY Values, Limits DEF ScenariosInv
  <2>2. d # Null => d.epoch \in Nat
    BY Epochs
  <2> QED
    BY <1>7, <2>1, <2>2 DEF NotBelow, Max2
<1>9. SnapshotInv'
  <2>1. i \in [op : Operations, next : Nat, desired : Selections]
    BY <1>8 DEF i
  <2> QED
    BY <2>1, <1>2, <1>4, Values DEF ScenariosInv, SnapshotInv
<1>10. StageInv'
  BY <1>2, <1>4, <1>7, <1>8 DEF StageInv, Unpublished
<1>11. ReceiptInv'
  BY <1>2, <1>4, <1>5, <1>6 DEF ReceiptInv
<1> QED
  BY <1>9, <1>10, <1>11 DEF ScenariosInv

LEMMA RejectKeeps == ScenariosInv /\ D!Reject => ScenariosInv'
<1> SUFFICES ASSUME ScenariosInv, D!Reject PROVE ScenariosInv'
  OBVIOUS
<1>1. stage' = "Requested" /\ minFloor' = snapshot.floor /\ consumed' = FALSE
      /\ ended' \in {"RecoveryRequired", "Rejected"} /\ UNCHANGED <<snapshot, intent, receipt, used>>
  BY DEF D!Reject
<1>2. SnapshotInv'
  BY <1>1, Values DEF ScenariosInv, SnapshotInv
<1>3. StageInv' /\ ReceiptInv'
  BY <1>1 DEF ScenariosInv, StageInv, ReceiptInv, Unpublished
<1> QED
  BY <1>2, <1>3 DEF ScenariosInv

LEMMA FailKeeps == ASSUME ScenariosInv, NEW e \in D!Failures, D!FailWith(e) PROVE ScenariosInv'
<1>1. UNCHANGED <<snapshot, intent, receipt, used, stage, minFloor, consumed>>
      /\ ended' \in {"RecoveryRequired", "CleanupIncomplete", "Cancelled", "Deferred", "Rejected"}
      /\ (stage = "PublishPending" => ended' = "RecoveryRequired")
  <2>1. CASE D!Uncertain(e)
    BY <2>1 DEF D!FailWith
  <2>2. CASE ~D!Uncertain(e) /\ stage \in D!Published
    BY <2>2 DEF D!FailWith, D!Uncertain
  <2>3. CASE ~D!Uncertain(e) /\ stage \notin D!Published
    <3>1. stage # "PublishPending"
      BY <2>3 DEF D!Uncertain
    <3>2. ended' = CASE e = "Cancel"                     -> "Cancelled"
                     [] e \in {"Busy", "RebootRequired"} -> "Deferred"
                     [] OTHER                            -> "Rejected"
      BY <2>3 DEF D!FailWith
    <3>3. ended' \in {"Cancelled", "Deferred", "Rejected"}
      BY <3>2
    <3> QED
      BY <3>1, <3>3 DEF D!FailWith
  <2> QED
    BY <2>1, <2>2, <2>3
<1>2. SnapshotInv' /\ StageInv' /\ ReceiptInv'
  BY <1>1 DEF ScenariosInv, SnapshotInv, StageInv, ReceiptInv, Unpublished
<1> QED
  BY <1>2 DEF ScenariosInv

\* The floor an uncertain publication raises.
LEMMA RaisedIs ==
  ASSUME SnapshotInv, minFloor = snapshot.floor,
         NotBelow(intent.desired, snapshot.floor), NotBelow(intent.desired, EpochOf(snapshot.sel))
  PROVE  /\ D!RaisedFloor \in 0..MaxEpoch /\ D!RaisedFloor >= snapshot.floor
         /\ D!RaisedFloor >= EpochOf(snapshot.sel) /\ NotBelow(intent.desired, D!RaisedFloor)
<1>1. D!RaisedFloor = Max2(minFloor, Max2(EpochOf(snapshot.sel), EpochOf(intent.desired)))
  BY DEF D!RaisedFloor, D!Max2, Max2, D!EpochOf, EpochOf
<1>2. D!RaisedFloor \in 0..MaxEpoch /\ D!RaisedFloor >= snapshot.floor /\ D!RaisedFloor >= EpochOf(snapshot.sel)
      /\ D!RaisedFloor \in {snapshot.floor, EpochOf(snapshot.sel), EpochOf(intent.desired)}
  BY <1>1, Values DEF Max2
<1>3. intent.desired # Null => intent.desired.epoch \in Nat /\ EpochOf(intent.desired) = intent.desired.epoch
  BY Values, Epochs
<1> QED
  BY <1>2, <1>3 DEF NotBelow

\* Which stage an event ends, and what it leaves.
LEMMA AdvanceFacts ==
  ASSUME ScenariosInv, D!Advance
  PROVE  /\ ended = "None" /\ ended' = "None" /\ intent' = intent /\ receipt' = receipt
         /\ stage # "PublishPending" => snapshot' = snapshot
         /\ stage # "Requested" => used' = used
         /\ stage # "Verified" => minFloor' = minFloor
         /\ consumed' = (consumed \/ stage = "Requested")
         /\ \/ stage = "Requested" /\ stage' = "Prepared" /\ used' = used \cup {receipt.nonce}
            \/ stage = "Prepared" /\ stage' = "Staged"
            \/ stage = "Staged" /\ stage' = "Verified"
            \/ stage = "Verified" /\ stage' = "PublishPending" /\ minFloor' = D!RaisedFloor
            \/ /\ stage = "PublishPending" /\ stage' = "Committed"
               /\ snapshot' = [gen |-> intent.next, floor |-> minFloor, sel |-> intent.desired]
            \/ stage = "Committed" /\ stage' = "CleanupPending"
            \/ stage = "CleanupPending" /\ stage' = "Completed"
<1>1. stage' = D!After(stage) /\ consumed' = (consumed \/ stage = "Requested")
      /\ used' = (IF stage = "Requested" THEN used \cup {receipt.nonce} ELSE used)
      /\ minFloor' = (IF stage = "Verified" THEN D!RaisedFloor ELSE minFloor)
      /\ snapshot' = (IF stage = "PublishPending"
                      THEN [gen |-> intent.next, floor |-> minFloor, sel |-> intent.desired] ELSE snapshot)
      /\ intent' = intent /\ receipt' = receipt /\ ended' = ended
  BY DEF D!Advance
<1>2. ended = "None" /\ stage # "Completed"
  BY DEF D!Advance, D!Over
<1>3. stage \in {"Requested", "Prepared", "Staged", "Verified", "PublishPending", "Committed", "CleanupPending"}
  BY <1>2 DEF ScenariosInv, StageInv, Unpublished
<1> QED
  BY <1>1, <1>2, <1>3, Stages

LEMMA AdvanceKeeps == ScenariosInv /\ D!Advance => ScenariosInv'
<1> SUFFICES ASSUME ScenariosInv, D!Advance PROVE ScenariosInv'
  OBVIOUS
<1>0. SnapshotInv /\ StageInv /\ ReceiptInv
  BY DEF ScenariosInv
<1>1. ended = "None" /\ ended' = "None" /\ intent' = intent /\ receipt' = receipt
  BY AdvanceFacts
<1>2. consumed' \in BOOLEAN
  BY AdvanceFacts
<1>3. CASE stage = "Requested"
  <2>1. stage' = "Prepared" /\ snapshot' = snapshot /\ minFloor' = minFloor /\ used' = used \cup {receipt.nonce}
    BY <1>3, AdvanceFacts
  <2>2. receipt.nonce \in Nonces
    BY <1>0, <1>1, <1>3 DEF ReceiptInv
  <2>3. used' \in SUBSET Nonces /\ IsFiniteSet(used')
    BY <2>1, <2>2, <1>0, FS_AddElement DEF SnapshotInv
  <2>4. SnapshotInv'
    BY <1>0, <1>1, <1>2, <2>1, <2>3 DEF SnapshotInv
  <2>5. StageInv' /\ ReceiptInv'
    BY <1>0, <1>1, <1>3, <2>1 DEF StageInv, ReceiptInv, Unpublished
  <2> QED
    BY <2>4, <2>5 DEF ScenariosInv
<1>4. CASE stage = "Verified"
  <2>1. stage' = "PublishPending" /\ snapshot' = snapshot /\ minFloor' = D!RaisedFloor /\ used' = used
    BY <1>4, AdvanceFacts
  <2>2. minFloor = snapshot.floor /\ intent.next = snapshot.gen + 1
        /\ NotBelow(intent.desired, snapshot.floor) /\ NotBelow(intent.desired, EpochOf(snapshot.sel))
    BY <1>0, <1>1, <1>4 DEF StageInv, Unpublished
  <2>3. /\ D!RaisedFloor \in 0..MaxEpoch /\ D!RaisedFloor >= snapshot.floor
        /\ D!RaisedFloor >= EpochOf(snapshot.sel) /\ NotBelow(intent.desired, D!RaisedFloor)
    BY <1>0, <2>2, RaisedIs
  <2>4. SnapshotInv'
    BY <1>0, <1>1, <1>2, <2>1, <2>3 DEF SnapshotInv
  <2>5. StageInv'
    BY <1>0, <1>1, <1>4, <2>1, <2>2, <2>3 DEF StageInv, Unpublished
  <2>6. ReceiptInv'
    BY <1>0, <1>1, <2>1 DEF ReceiptInv
  <2> QED
    BY <2>4, <2>5, <2>6 DEF ScenariosInv
<1>5. CASE stage = "PublishPending"
  <2>1. stage' = "Committed" /\ minFloor' = minFloor /\ used' = used
        /\ snapshot' = [gen |-> intent.next, floor |-> minFloor, sel |-> intent.desired]
    BY <1>5, AdvanceFacts
  <2>2. intent.next = snapshot.gen + 1 /\ intent.next <= MaxGen /\ NotBelow(intent.desired, minFloor)
    BY <1>0, <1>1, <1>5 DEF StageInv, Unpublished
  <2>3. snapshot'.gen = intent.next /\ snapshot'.floor = minFloor /\ snapshot'.sel = intent.desired
        /\ snapshot' \in [gen : 0..MaxGen, floor : 0..MaxEpoch, sel : Selections]
    BY <2>1, <2>2, <1>0, Values, Limits DEF SnapshotInv
  <2>4. SnapshotInv'
    BY <1>0, <1>1, <1>2, <2>1, <2>2, <2>3 DEF SnapshotInv
  <2>5. StageInv' /\ ReceiptInv'
    BY <1>0, <1>1, <2>1, <2>3 DEF StageInv, ReceiptInv, Unpublished
  <2> QED
    BY <2>4, <2>5 DEF ScenariosInv
<1>6. CASE stage \notin {"Requested", "Verified", "PublishPending"}
  <2>1. UNCHANGED <<snapshot, minFloor, used>> /\ stage' \in {"Staged", "Verified", "CleanupPending", "Completed"}
        /\ (stage' \in {"Staged", "Verified"} => stage \in {"Prepared", "Staged"})
        /\ stage # "PublishPending"
    BY <1>6, AdvanceFacts
  <2>2. SnapshotInv' /\ StageInv' /\ ReceiptInv'
    BY <1>0, <1>1, <1>2, <2>1 DEF SnapshotInv, StageInv, ReceiptInv, Unpublished
  <2> QED
    BY <2>2 DEF ScenariosInv
<1> QED
  BY <1>3, <1>4, <1>5, <1>6

LEMMA ScenariosKeep == ScenariosInv /\ D!Next => ScenariosInv'
BY RequestKeeps, RejectKeeps, AdvanceKeeps, FailKeeps DEF D!Next
-----------------------------------------------------------------------------
(* What holds of both, and of every step                                   *)

allVars == <<part, vars, scenarioVars>>

LEMMA SessionsRest == SessionsInv /\ UNCHANGED vars => SessionsInv'
<1> SUFFICES ASSUME SessionsInv, UNCHANGED vars PROVE SessionsInv'
  OBVIOUS
<1>1. UNCHANGED <<disk, known, store, state, admission, terminal, replyLost, txn, proposal, nextGen, now, received,
                  counterFloor, securityFloor, consent>>
  BY DEF vars, storage, offer, floors, intake
<1>2. SessionInv' /\ DiskInv'
  BY <1>1 DEF SessionsInv, SessionInv, DiskInv
<1>3. ProposalInv' /\ WorkInv'
  BY <1>1 DEF SessionsInv, ProposalInv, NextGeneration, WorkInv, Aimed
<1> QED
  BY <1>2, <1>3 DEF SessionsInv

LEMMA ScenariosRest == ScenariosInv /\ UNCHANGED scenarioVars => ScenariosInv'
BY DEF scenarioVars, ScenariosInv, SnapshotInv, StageInv, ReceiptInv

\* The stores and floors of both models stay sound, over sessions and scenarios that end
\* anywhere, uncertain writes and recoveries included.
THEOREM MaintenanceInvariance == MCSpec => []BothInv
<1>1. MCInit => BothInv
  BY SessionsStart, ScenariosStart DEF MCInit, BothInv
<1>2. BothInv /\ [MCNext]_<<part, vars, scenarioVars>> => BothInv'
  <2> SUFFICES ASSUME BothInv, [MCNext]_<<part, vars, scenarioVars>> PROVE BothInv'
    OBVIOUS
  <2>1. part' = part
    BY DEF MCNext
  <2>2. SessionsInv'
    BY SessionsKeep, SessionsRest DEF MCNext, BothInv
  <2>3. ScenariosInv'
    BY ScenariosKeep, ScenariosRest DEF MCNext, BothInv
  <2> QED
    BY <2>1, <2>2, <2>3 DEF BothInv
<1> QED
  BY <1>1, <1>2, PTL DEF MCSpec

\* Every step of the project is a step of each model, or leaves it alone.
LEMMA EachSteps == [MCNext]_<<part, vars, scenarioVars>> => [Next]_vars /\ [D!Next]_scenarioVars
BY DEF MCNext

LEMMA SameVars == D!vars = scenarioVars
BY DEF D!vars, scenarioVars

-----------------------------------------------------------------------------
\* An open publication leaves its original candidate permitted.
LEMMA CandidateIsPermitted ==
  ASSUME NEW d, Sound(d), d.journal # None, d.journal.phase = "PublishPending",
         d.counter < MaxCounter, Len(d.journal.lineage) < MaxLineage, d.journal.highest < MaxGen
  PROVE  Permitted(d, [kind |-> "Recovery", op |-> "none", target |-> "FinalizeCandidate",
                       desired |-> d.journal.candidate, members |-> <<>>])
<1> DEFINE j == d.journal
           p == [kind |-> "Recovery", op |-> "none", target |-> "FinalizeCandidate",
                 desired |-> j.candidate, members |-> <<>>]
<1>1. d \in Stores /\ j \in Journals /\ j.candidate \in Selections /\ j.reserved \in Nat /\ d.floor \in Nat
      /\ d.sel \in Selections
  BY Numbers DEF Sound, Bounded, Journals
<1>2. j.reserved >= d.floor /\ NotBelow(j.candidate, j.reserved) /\ NotBelow(j.candidate, EpochOf(d.sel))
  BY DEF Sound, Explains
<1>3. FloorOf(d) = j.reserved /\ HighestOf(d) = j.highest
  BY <1>1, <1>2 DEF FloorOf, HighestOf, Max2
<1>4. p.kind = "Recovery" /\ p.target = "FinalizeCandidate" /\ p.desired = j.candidate /\ p.members = <<>>
  OBVIOUS
<1> HIDE DEF p
<1>5. RecoveryScope(d, p)
  BY <1>4 DEF RecoveryScope
<1>6. ASSUME p.desired # Null PROVE EpochAllowed(d, p.desired.epoch)
  <2>1. j.candidate.epoch >= j.reserved /\ j.candidate.epoch >= EpochOf(d.sel)
    BY <1>2, <1>4, <1>6 DEF NotBelow
  <2> QED
    BY <2>1, <1>3, <1>4 DEF EpochAllowed, Max2
<1>7. Permitted(d, p)
  BY <1>3, <1>4, <1>5, <1>6 DEF Permitted
<1> QED
  BY <1>7 DEF p

\* What a session leaves, whatever ended it, is valid, covered by the reported floors, and
\* no publication it leaves is beyond recovery.
THEOREM SessionsLeaveValidStores == MCSpec => []StoresCanGoOn
<1>1. BothInv => StoresCanGoOn
  <2> SUFFICES ASSUME BothInv PROVE StoresCanGoOn
    OBVIOUS
  <2>1. SessionInv /\ DiskInv
    BY DEF BothInv, SessionsInv
  <2>2. Sound(store) /\ store \in Stores /\ store.counter <= MaxCounter /\ store.gen <= HighestOf(store)
        /\ HighestOf(store) <= MaxGen /\ FloorOf(store) <= MaxEpoch
    BY <2>1 DEF DiskInv, Sound, Bounded
  <2>3. store.counter \in 0..MaxCounter /\ store.gen \in 0..MaxGen /\ store.floor \in 0..MaxEpoch
    <3>1. store.counter \in Nat /\ store.gen \in Nat /\ store.floor \in Nat /\ HighestOf(store) \in Nat
          /\ FloorOf(store) \in Nat /\ MaxEpoch \in Nat
      BY <2>2, Numbers, TuplesAssumption
    <3>2. FloorOf(store) >= store.floor
      BY <3>1, <2>2, Numbers DEF FloorOf, Max2, Journals
    <3> QED
      BY <3>1, <3>2, <2>2, Limits
  <2>4. ASSUME NEW i \in DOMAIN received PROVE received[i].got \in 0..received[i].size
    <3>1. received \in Seq([size : Nat, got : Nat]) /\ received[i].got <= received[i].size
      BY <2>1 DEF SessionInv
    <3>2. received[i] \in [size : Nat, got : Nat]
      BY <3>1, ElementOfSeq, LenProperties
    <3> QED
      BY <3>1, <3>2
  <2>5. TypeOK
    BY <2>1, <2>2, <2>3, <2>4, Numbers DEF TypeOK, SessionInv
  <2>6. StoreStaysValid
    BY <2>1, SoundIsValid DEF DiskInv, StoreStaysValid
  <2>7. FloorsAreSafe
    <3>1. ASSUME NEW d \in disk PROVE d.counter <= counterFloor /\ FloorOf(d) <= securityFloor
      <4>1. FloorOf(d) = FloorOf(store)
        BY <2>1 DEF DiskInv, AdmitMove, CommitMove
      <4>2. FloorOf(store) \in Nat
        BY <2>2, Numbers
      <4> QED
        BY <2>1, <4>1, <4>2 DEF DiskInv
    <3> QED
      BY <3>1 DEF FloorsAreSafe
  <2>8. PublicationCanFinish
    BY <2>1, CandidateIsPermitted DEF DiskInv, PublicationCanFinish
  <2> QED
    BY <2>5, <2>6, <2>7, <2>8 DEF StoresCanGoOn
<1> QED
  BY <1>1, MaintenanceInvariance, PTL

\* Neither model projects a selection that an open publication may have replaced.
THEOREM OnlyCertainIsShown == MCSpec => []OnlyCertainShown
<1>1. BothInv => OnlyCertainShown
  <2> SUFFICES ASSUME BothInv PROVE OnlyCertainShown
    OBVIOUS
  <2>1. ShownIsCertain
    BY DEF BothInv, SessionsInv, DiskInv, ShownIsCertain, Projected
  <2>2. SnapshotInv /\ StageInv
    BY DEF BothInv, ScenariosInv
  <2>3. D!TypeOK
    <3>1. stage \in {D!Stages[i] : i \in 1..8}
      <4>1. {D!Stages[i] : i \in 1..8} = Unpublished \cup {"Committed", "CleanupPending", "Completed"}
        BY DEF D!Stages, Unpublished
      <4> QED
        BY <4>1, <2>2 DEF StageInv
    <3>2. ended \in D!Endings
      BY <2>2 DEF StageInv, D!Endings
    <3>3. snapshot.sel \in D!Selections
      BY <2>2 DEF SnapshotInv, D!Selections, Selections, D!Tuples, Tuples
    <3> QED
      BY <2>2, <3>1, <3>2, <3>3 DEF SnapshotInv, D!TypeOK
  <2>4. D!ShownIsCertain
    <3> SUFFICES ASSUME D!Projected # None
                 PROVE  stage # "PublishPending" /\ ~D!BelowFloor(D!Projected) /\ D!Projected.floor = minFloor
      BY DEF D!ShownIsCertain
    <3>1. D!Projected = snapshot /\ ended # "RecoveryRequired" /\ ~(stage = "PublishPending" /\ ended = "None")
      BY DEF D!Projected
    <3>2. stage # "PublishPending"
      BY <3>1, <2>2 DEF StageInv
    <3>3. minFloor = snapshot.floor /\ NotBelow(snapshot.sel, snapshot.floor)
      BY <3>2, <2>2 DEF StageInv, SnapshotInv
    <3>4. ~D!BelowFloor(snapshot)
      <4>1. snapshot.floor \in Nat /\ (snapshot.sel # Null => snapshot.sel.epoch \in Nat)
        BY <2>2, Values, Epochs
      <4> QED
        BY <4>1, <3>3 DEF D!BelowFloor, NotBelow
    <3> QED
      BY <3>1, <3>2, <3>3, <3>4
  <2> QED
    BY <2>1, <2>3, <2>4 DEF OnlyCertainShown
<1> QED
  BY <1>1, MaintenanceInvariance, PTL
-----------------------------------------------------------------------------
(* What a step may do                                                      *)

\* A session changes its store by one step of the ledger, or continues on what an earlier
\* one left, which is at most one such step ahead.
LEMMA SessionMoves ==
  ASSUME SessionsInv, [Next]_vars
  PROVE  /\ Sound(store) /\ Sound(store')
         /\ \/ store' = store
            \/ AdmitMove(store, store')
            \/ BlockMove(store, store')
            \/ CommitMove(store, store') /\ consent = [tx |-> store'.counter, desired |-> store'.sel]
            \/ CompleteMove(store, store')
<1> DEFINE Moved == \/ store' = store
                    \/ AdmitMove(store, store')
                    \/ BlockMove(store, store')
                    \/ CommitMove(store, store') /\ consent = [tx |-> store'.counter, desired |-> store'.sel]
                    \/ CompleteMove(store, store')
<1>1. Sound(store)
  BY DEF SessionsInv, DiskInv
<1>2. Sound(store')
  <2>1. DiskInv'
    BY SessionsKeep, SessionsRest DEF SessionsInv
  <2> QED
    BY <2>1 DEF DiskInv
<1>3. CASE UNCHANGED vars
  BY <1>1, <1>3 DEF vars
<1>4. CASE NextSession
  <2>1. PICK d \in disk : store' = d
    BY <1>4 DEF NextSession, Start
  <2>2. Moved
    BY <2>1 DEF SessionsInv, DiskInv
  <2> QED
    BY <2>2, <1>1, <1>2
<1>5. CASE Refuse \/ RefuseFatally
  BY <1>1, <1>5 DEF Refuse, RefuseFatally
<1>6. ASSUME NEW at \in now..MaxTime,
             \/ Pair(at) \/ ProposeOperation(at) \/ ReviewOffer(at) \/ VerifiedOffer(at) \/ Confirm(at)
             \/ AdmissionRecorded(at) \/ PayloadChunk(at) \/ VerifyPayload(at)
             \/ Result(at) \/ QueryStatus(at) \/ Progress(at)
      PROVE  store' = store
  BY <1>6 DEF Pair, ProposeOperation, ReviewOffer, VerifiedOffer, Confirm, AdmissionRecorded, PayloadChunk,
              VerifyPayload, Result, QueryStatus, Progress
<1>7. ASSUME NEW at \in now..MaxTime, Reserve(at) PROVE Moved
  <2>1. state = "Confirmed" /\ (store' = Admitted(store) \/ store' = store)
    BY <1>7 DEF Reserve
  <2>2. AdmitMove(store, Admitted(store))
    BY <1>1, <2>1, AdmitKeeps DEF SessionsInv, ProposalInv
  <2> QED
    BY <2>1, <2>2
<1>8. ASSUME NEW at \in now..MaxTime, BeginPublish(at) PROVE Moved
  <2>1. state = "PayloadVerified" /\ store' = Blocked(store)
    BY <1>8 DEF BeginPublish
  <2>2. BlockMove(store, Blocked(store))
    BY <1>1, <2>1, BlockKeeps DEF SessionsInv, DiskInv, WorkInv
  <2> QED
    BY <2>1, <2>2
<1>9. ASSUME NEW at \in now..MaxTime, Commit(at) PROVE Moved
  <2>1. state = "PublishPending" /\ store' = Committed(store)
    BY <1>9 DEF Commit
  <2>2. /\ CommitMove(store, Committed(store)) /\ Committed(store).counter = store.counter
        /\ Committed(store).sel = proposal.desired
    BY <1>1, <2>1, CommitKeeps DEF SessionsInv, DiskInv, WorkInv
  <2>3. consent = [tx |-> store.counter, desired |-> proposal.desired]
    BY <2>1 DEF SessionsInv, ProposalInv, WorkInv
  <2> HIDE DEF Committed
  <2> QED
    BY <2>1, <2>2, <2>3
<1>10. ASSUME NEW at \in now..MaxTime, Cleanup(at) PROVE Moved
  <2>1. store' = store \/ store' = Completed(store)
    BY <1>10 DEF Cleanup
  <2>2. CompleteMove(store, Completed(store))
    BY <1>10, CleanupFacts, CompleteKeeps
  <2> QED
    BY <2>1, <2>2
<1> HIDE DEF Moved
<1>11. store' = store => Moved
  BY DEF Moved
<1>12. Moved
  <2>1. CASE NextSession \/ UNCHANGED vars
    BY <1>3, <1>4, <2>1 DEF Moved
  <2>2. CASE Refuse \/ RefuseFatally
    BY <2>2, <1>11 DEF Refuse, RefuseFatally
  <2> QED
    BY <2>1, <2>2, <1>6, <1>7, <1>8, <1>9, <1>10, <1>11 DEF Next
<1> QED
  BY <1>1, <1>2, <1>12 DEF Moved

\* The selection moves only to what was confirmed for this transaction, and a scenario
\* consumes only a confirmation that was bound to it and never used.
THEOREM ConsentIsUsedOnce == MCSpec => ConfirmedOnce
<1>1. BothInv /\ [MCNext]_<<part, vars, scenarioVars>> =>
        [store'.sel # store.sel => consent = [tx |-> store'.counter, desired |-> store'.sel]]_vars
  <2> SUFFICES ASSUME BothInv, [MCNext]_<<part, vars, scenarioVars>>, store'.sel # store.sel
               PROVE  consent = [tx |-> store'.counter, desired |-> store'.sel]
    OBVIOUS
  <2> QED
    BY EachSteps, SessionMoves DEF BothInv, AdmitMove, BlockMove, CompleteMove
<1>2. BothInv /\ [MCNext]_<<part, vars, scenarioVars>> =>
        [~consumed /\ consumed' =>
           /\ receipt.nonce \notin used /\ receipt.approved
           /\ receipt.binding = D!Binding(snapshot, intent)
           /\ receipt.expires - receipt.issued <= ConfirmationSeconds]_D!vars
  <2> SUFFICES ASSUME BothInv, [MCNext]_<<part, vars, scenarioVars>>, ~consumed /\ consumed'
               PROVE  /\ receipt.nonce \notin used /\ receipt.approved
                      /\ receipt.binding = D!Binding(snapshot, intent)
                      /\ receipt.expires - receipt.issued <= ConfirmationSeconds
    OBVIOUS
  <2>1. ScenariosInv
    BY DEF BothInv
  <2>2. D!Advance
    <3>1. consumed' # consumed
      OBVIOUS
    <3>2. D!Next
      BY <3>1, EachSteps DEF scenarioVars
    <3>3. ~D!Request /\ ~D!Reject
      BY DEF D!Request, D!Reject
    <3>4. \A e \in D!Failures : ~D!FailWith(e)
      BY <3>1 DEF D!FailWith
    <3> QED
      BY <3>2, <3>3, <3>4 DEF D!Next
  <2>3. stage = "Requested" /\ ended = "None"
    BY <2>1, <2>2, AdvanceFacts
  <2> QED
    BY <2>1, <2>3 DEF ScenariosInv, ReceiptInv, D!Binding
<1> QED
  BY <1>1, <1>2, MaintenanceInvariance, PTL DEF MCSpec, ConfirmedOnce, OnlyConfirmed, D!ConsumedOnce

-----------------------------------------------------------------------------
\* An event that is accepted is in time, and no reply is awaited.
LEMMA Accepted ==
  ASSUME NEW at, Accept(at)
  PROVE  ~replyLost /\ Timely(at) /\ now' = at
BY DEF Accept

\* After a deadline nothing is consumed, verified or taken in, and after a lost reply
\* nothing of the operation moves before its own status was asked for.
THEOREM LateMovesNothing == MCSpec => LateIsRefused
<1>1. BothInv /\ [MCNext]_<<part, vars, scenarioVars>> =>
        [/\ admission' # admission /\ admission' # "NotConsumed" => now' < expires
         /\ state' = "PayloadVerified" /\ state = "Admitted" => now' - intakeAt <= IntakeMs
         /\ received' # received /\ received # <<>> /\ received' # <<>> => now' - payloadAt <= IdleMs]_vars
  <2> SUFFICES ASSUME BothInv, Next
               PROVE  /\ admission' # admission /\ admission' # "NotConsumed" => now' < expires
                      /\ state' = "PayloadVerified" /\ state = "Admitted" => now' - intakeAt <= IntakeMs
                      /\ received' # received /\ received # <<>> /\ received' # <<>> => now' - payloadAt <= IdleMs
    BY EachSteps
  <2>0. SessionInv
    BY DEF BothInv, SessionsInv
  <2>1. CASE NextSession
    BY <2>1 DEF NextSession, Start
  <2>2. CASE Refuse \/ RefuseFatally
    <3>1. admission' = admission /\ received' = received /\ state' # "PayloadVerified"
      <4>1. Fail(TRUE) \/ Fail(FALSE)
        BY <2>2 DEF Refuse, RefuseFatally
      <4>2. state' # "PayloadVerified"
        BY <4>1, FailStates
      <4> QED
        BY <2>2, <4>2 DEF Refuse, RefuseFatally, intake
    <3> QED
      BY <3>1
  <2>3. ASSUME NEW at \in now..MaxTime,
               \/ Pair(at) \/ ProposeOperation(at) \/ ReviewOffer(at) \/ VerifiedOffer(at) \/ Confirm(at)
               \/ AdmissionRecorded(at) \/ BeginPublish(at) \/ Commit(at) \/ Cleanup(at)
               \/ Result(at) \/ QueryStatus(at) \/ Progress(at)
        PROVE  admission' = admission /\ received' = received /\ ~(state' = "PayloadVerified" /\ state = "Admitted")
    BY <2>3 DEF Pair, Pairing, ProposeOperation, ReviewOffer, VerifiedOffer, Confirm, Approved, AdmissionRecorded, BeginPublish,
                Commit, Cleanup, Result, QueryStatus, Progress, intake
  <2>4. ASSUME NEW at \in now..MaxTime, Reserve(at)
        PROVE  now' < expires /\ received = <<>> /\ state = "Confirmed"
    <3>1. Accept(at) /\ state = "Confirmed"
      BY <2>4 DEF Reserve
    <3>2. at < expires /\ now' = at
      BY <3>1, Accepted DEF Timely
    <3> QED
      BY <3>1, <3>2, <2>0 DEF SessionInv, Before
  <2>5. ASSUME NEW at \in now..MaxTime, PayloadChunk(at)
        PROVE  now' - payloadAt <= IdleMs /\ admission' = admission /\ state' = state
    <3>1. Accept(at) /\ state = "Admitted" /\ ~PayloadDone /\ UNCHANGED <<admission, state>>
      BY <2>5 DEF PayloadChunk
    <3> QED
      BY <3>1, Accepted DEF Timely
  <2>6. ASSUME NEW at \in now..MaxTime, VerifyPayload(at)
        PROVE  now' - intakeAt <= IntakeMs /\ admission' = admission /\ received' = received
    <3>1. Accept(at) /\ state = "Admitted" /\ UNCHANGED <<admission, received>>
      BY <2>6 DEF VerifyPayload, intake
    <3> QED
      BY <3>1, Accepted DEF Timely
  <2> QED
    BY <2>1, <2>2, <2>3, <2>4, <2>5, <2>6 DEF Next
<1>2. BothInv /\ [MCNext]_<<part, vars, scenarioVars>> =>
        [replyLost /\ txn' # 0 => UNCHANGED <<store, received, consent>>]_vars
  <2> SUFFICES ASSUME Next, replyLost, txn' # 0 PROVE UNCHANGED <<store, received, consent>>
    BY EachSteps
  <2>1. CASE NextSession
    BY <2>1 DEF NextSession, Start
  <2>2. CASE Refuse \/ RefuseFatally
    BY <2>2 DEF Refuse, RefuseFatally, intake
  <2>3. ASSUME NEW at \in now..MaxTime PROVE ~Accept(at)
    BY DEF Accept
  <2>4. ASSUME NEW at \in now..MaxTime, QueryStatus(at) PROVE UNCHANGED <<store, received, consent>>
    BY <2>4 DEF QueryStatus, intake
  <2> QED
    BY <2>1, <2>2, <2>3, <2>4 DEF Next, Pair, ProposeOperation, ReviewOffer, VerifiedOffer, Confirm, Reserve,
       AdmissionRecorded, PayloadChunk, VerifyPayload, BeginPublish, Commit, Cleanup, Result, Progress
<1> QED
  BY <1>1, <1>2, MaintenanceInvariance, PTL DEF MCSpec, LateIsRefused, DeadlinesHold, LostReplyFreezes
-----------------------------------------------------------------------------
(* Both models implement the ledger                                        *)

\* A session's moves are steps of the ledger.
LEMMA SessionLedger == SessionsInv /\ [Next]_vars => [L!LedgerNext]_(L!ledger)
<1> SUFFICES ASSUME SessionsInv, [Next]_vars PROVE [L!LedgerNext]_(L!ledger)
  OBVIOUS
<1>1. FloorOf(store) \in Nat /\ FloorOf(store') \in Nat
  BY SessionMoves, Numbers DEF Sound, Bounded
<1>2. PhaseOf(store) = (IF store.journal = None THEN "Stable"
                        ELSE IF store.journal.phase = "PublishPending" THEN "Blocked" ELSE store.journal.phase)
      /\ PhaseOf(store') = (IF store'.journal = None THEN "Stable"
                           ELSE IF store'.journal.phase = "PublishPending" THEN "Blocked" ELSE store'.journal.phase)
  BY DEF PhaseOf
<1>3. CASE store' = store
  BY <1>3 DEF L!ledger, HighestOf, FloorOf
<1>4. CASE AdmitMove(store, store')
  <2>1. L!Admit
    BY <1>2, <1>4 DEF L!Admit, AdmitMove
  <2> QED
    BY <2>1 DEF L!LedgerNext
<1>5. CASE BlockMove(store, store')
  <2>1. L!Block
    BY <1>1, <1>2, <1>5 DEF L!Block, L!EpochOf, EpochOf, BlockMove
  <2> QED
    BY <2>1 DEF L!LedgerNext
<1>6. CASE CommitMove(store, store')
  <2>1. L!Commit
    BY <1>2, <1>6 DEF L!Commit, L!AtFloor, NotBelow, CommitMove
  <2> QED
    BY <2>1 DEF L!LedgerNext
<1>7. CASE CompleteMove(store, store')
  <2>1. L!Complete
    BY <1>2, <1>7 DEF L!Complete, CompleteMove
  <2> QED
    BY <2>1 DEF L!LedgerNext
<1> QED
  BY <1>3, <1>4, <1>5, <1>6, <1>7, SessionMoves

\* The phase of a scenario, as the ledger names it.
ScenarioPhase(st, en) ==
  CASE st = "PublishPending" -> "Blocked"
    [] st \in D!Published /\ en = "None" -> "Committed"
    [] st \in {"Prepared", "Staged", "Verified"} /\ en = "None" -> "Admitted"
    [] OTHER -> "Stable"

LEMMA Phases ==
  /\ \A en : ScenarioPhase("PublishPending", en) = "Blocked"
  /\ \A st \in {"Committed", "CleanupPending"} : ScenarioPhase(st, "None") = "Committed"
  /\ \A st \in {"Prepared", "Staged", "Verified"} : ScenarioPhase(st, "None") = "Admitted"
  /\ \A st \in {"Requested", "Completed"} : \A en : ScenarioPhase(st, en) = "Stable"
  /\ \A st, en : st # "PublishPending" /\ en # "None" => ScenarioPhase(st, en) = "Stable"
BY DEF ScenarioPhase, D!Published

LEMMA Mapped ==
  /\ D!Cardinality(used) = Cardinality(used) /\ D!Cardinality(used)' = Cardinality(used')
BY DEF D!Cardinality, Cardinality

\* A scenario's steps are steps of the ledger; the end of an operation that published
\* nothing, or whose cleanup failed, is one too.
LEMMA ScenarioLedger == ScenariosInv /\ [D!Next]_scenarioVars => [D!L!LedgerNext]_(D!L!ledger)
<1> SUFFICES ASSUME ScenariosInv, [D!Next]_scenarioVars PROVE [D!L!LedgerNext]_(D!L!ledger)
  OBVIOUS
<1> DEFINE top == IF stage = "PublishPending" THEN intent.next ELSE snapshot.gen
           phase == ScenarioPhase(stage, ended)
           Same == /\ Cardinality(used') = Cardinality(used) /\ snapshot' = snapshot
                   /\ top' = top /\ minFloor' = minFloor
<1>0. SnapshotInv /\ StageInv /\ ReceiptInv
  BY DEF ScenariosInv
<1>1. ASSUME Same, phase' = phase PROVE UNCHANGED D!L!ledger
  BY <1>1, Mapped DEF D!L!ledger, ScenarioPhase
<1>2. ASSUME Same, phase = "Committed", phase' = "Stable" PROVE D!L!LedgerNext
  <2>1. D!L!Complete
    BY <1>2, Mapped DEF D!L!Complete, ScenarioPhase
  <2> QED
    BY <2>1 DEF D!L!LedgerNext
<1>3. ASSUME Same, phase = "Admitted", phase' = "Stable" PROVE D!L!LedgerNext
  <2>1. D!L!Retire
    BY <1>3, Mapped DEF D!L!Retire, ScenarioPhase
  <2> QED
    BY <2>1 DEF D!L!LedgerNext
<1>4. CASE UNCHANGED scenarioVars
  BY <1>1, <1>4 DEF scenarioVars
<1>5. CASE D!Request \/ D!Reject
  <2>1. D!Over /\ D!Projected # None /\ stage' = "Requested" /\ minFloor' = snapshot.floor
        /\ snapshot' = snapshot /\ used' = used
    BY <1>5 DEF D!Request, D!Reject
  <2>2. stage # "PublishPending" /\ minFloor' = minFloor
    BY <2>1, <1>0 DEF StageInv, D!Projected
  <2>3. phase = "Stable" /\ phase' = "Stable"
    BY <2>1, <2>2, Phases DEF D!Over
  <2> QED
    BY <1>1, <2>1, <2>2, <2>3
<1>6. ASSUME NEW e \in D!Failures, D!FailWith(e) PROVE [D!L!LedgerNext]_(D!L!ledger)
  <2>1. ended = "None" /\ stage # "Completed" /\ ended' # "None" /\ UNCHANGED <<snapshot, intent, used, stage, minFloor>>
    <3>1. ended = "None" /\ stage # "Completed"
      BY <1>6 DEF D!FailWith, D!Over
    <3>2. ended' # "None"
      <4>1. CASE D!Uncertain(e)
        BY <4>1, <1>6 DEF D!FailWith
      <4>2. CASE ~D!Uncertain(e) /\ stage \in D!Published
        BY <4>2, <1>6 DEF D!FailWith
      <4>3. CASE ~D!Uncertain(e) /\ stage \notin D!Published
        BY <4>3, <1>6 DEF D!FailWith
      <4> QED
        BY <4>1, <4>2, <4>3
    <3> QED
      BY <3>1, <3>2, <1>6 DEF D!FailWith
  <2>2. Same
    BY <2>1
  <2>3. CASE stage \in {"PublishPending", "Requested"}
    <3>1. phase' = phase
      BY <2>1, <2>3, Phases
    <3> QED
      BY <1>1, <2>2, <3>1
  <2>4. CASE stage \in {"Prepared", "Staged", "Verified"}
    <3>1. phase = "Admitted" /\ phase' = "Stable"
      BY <2>1, <2>4, Phases
    <3> QED
      BY <1>3, <2>2, <3>1
  <2>5. CASE stage \in {"Committed", "CleanupPending"}
    <3>1. phase = "Committed" /\ phase' = "Stable"
      BY <2>1, <2>5, Phases
    <3> QED
      BY <1>2, <2>2, <3>1
  <2> QED
    BY <2>1, <2>3, <2>4, <2>5, <1>0 DEF StageInv, Unpublished
<1>7. CASE D!Advance
  <2>1. ended = "None" /\ ended' = "None" /\ intent' = intent
    BY <1>7, AdvanceFacts
  <2>2. CASE stage = "Requested"
    <3>1. stage' = "Prepared" /\ snapshot' = snapshot /\ minFloor' = minFloor /\ used' = used \cup {receipt.nonce}
      BY <1>7, <2>2, AdvanceFacts
    <3>2. Cardinality(used') = Cardinality(used) + 1
      BY <3>1, <2>1, <2>2, <1>0, FS_AddElement DEF SnapshotInv, ReceiptInv
    <3>3. top' = top /\ phase = "Stable" /\ phase' = "Admitted"
      BY <3>1, <2>1, <2>2, Phases
    <3>4. D!L!Admit
      BY <3>1, <3>2, <3>3, Mapped DEF D!L!Admit, ScenarioPhase
    <3> QED
      BY <3>4 DEF D!L!LedgerNext
  <2>3. CASE stage \in {"Prepared", "Staged"}
    <3>1. stage' \in {"Staged", "Verified"} /\ snapshot' = snapshot /\ minFloor' = minFloor /\ used' = used
      BY <1>7, <2>3, AdvanceFacts
    <3>2. Same /\ phase' = phase
      BY <3>1, <2>1, <2>3, Phases
    <3> QED
      BY <1>1, <3>2
  <2>4. CASE stage = "Verified"
    <3>1. stage' = "PublishPending" /\ snapshot' = snapshot /\ minFloor' = D!RaisedFloor /\ used' = used
      BY <1>7, <2>4, AdvanceFacts
    <3>2. minFloor = snapshot.floor /\ intent.next = snapshot.gen + 1
          /\ NotBelow(intent.desired, snapshot.floor) /\ NotBelow(intent.desired, EpochOf(snapshot.sel))
      BY <1>0, <2>1, <2>4 DEF StageInv, Unpublished
    <3>3. D!RaisedFloor \in Nat /\ D!RaisedFloor >= minFloor /\ D!RaisedFloor >= EpochOf(snapshot.sel)
      BY <1>0, <3>2, RaisedIs
    <3>4. top' = top + 1 /\ phase = "Admitted" /\ phase' = "Blocked"
      BY <3>1, <3>2, <2>1, <2>4, Phases
    <3>5. D!L!Block
      BY <3>1, <3>3, <3>4, Mapped DEF D!L!Block, D!L!EpochOf, EpochOf, ScenarioPhase
    <3> QED
      BY <3>5 DEF D!L!LedgerNext
  <2>5. CASE stage = "PublishPending"
    <3>1. stage' = "Committed" /\ minFloor' = minFloor /\ used' = used
          /\ snapshot' = [gen |-> intent.next, floor |-> minFloor, sel |-> intent.desired]
      BY <1>7, <2>5, AdvanceFacts
    <3>2. snapshot'.gen = intent.next /\ snapshot'.sel = intent.desired
      BY <3>1
    <3>3. top = intent.next /\ top' = intent.next /\ phase = "Blocked" /\ phase' = "Committed"
      BY <3>1, <3>2, <2>1, <2>5, Phases
    <3>4. NotBelow(intent.desired, minFloor)
      BY <1>0, <2>5 DEF StageInv
    <3>5. D!L!Commit
      BY <3>1, <3>2, <3>3, <3>4, Mapped DEF D!L!Commit, D!L!AtFloor, NotBelow, ScenarioPhase
    <3> QED
      BY <3>5 DEF D!L!LedgerNext
  <2>6. CASE stage = "Committed"
    <3>1. stage' = "CleanupPending" /\ snapshot' = snapshot /\ minFloor' = minFloor /\ used' = used
      BY <1>7, <2>6, AdvanceFacts
    <3>2. Same /\ phase' = phase
      BY <3>1, <2>1, <2>6, Phases
    <3> QED
      BY <1>1, <3>2
  <2>7. CASE stage = "CleanupPending"
    <3>1. stage' = "Completed" /\ snapshot' = snapshot /\ minFloor' = minFloor /\ used' = used
      BY <1>7, <2>7, AdvanceFacts
    <3>2. Same /\ phase = "Committed" /\ phase' = "Stable"
      BY <3>1, <2>1, <2>7, Phases
    <3> QED
      BY <1>2, <3>2
  <2> QED
    BY <1>7, <2>2, <2>3, <2>4, <2>5, <2>6, <2>7, AdvanceFacts
<1> QED
  BY <1>4, <1>5, <1>6, <1>7 DEF D!Next

\* Sessions and scenarios, with their failures, uncertain writes, recoveries and restarts,
\* implement the ledger all maintenance models share.
THEOREM BothModelsImplementLedger == MCSpec => BothImplementLedger
<1>1. MCInit => L!LedgerInit
  <2> SUFFICES ASSUME MCInit PROVE L!LedgerInit
    OBVIOUS
  <2>1. store = Empty
    BY DEF MCInit, Init
  <2> QED
    BY <2>1 DEF L!LedgerInit, L!AtFloor, Empty, HighestOf, FloorOf
<1>2. MCInit => D!L!LedgerInit
  <2> SUFFICES ASSUME MCInit PROVE D!L!LedgerInit
    OBVIOUS
  <2>1. snapshot = [gen |-> 0, floor |-> 0, sel |-> Null] /\ stage = "Requested" /\ minFloor = 0 /\ used = {}
    BY DEF MCInit, D!Init
  <2>2. Cardinality(used) = 0
    BY <2>1, FS_EmptySet
  <2> QED
    BY <2>1, <2>2, Mapped DEF D!L!LedgerInit, D!L!AtFloor, D!Published
<1>3. BothInv /\ [MCNext]_<<part, vars, scenarioVars>> => [L!LedgerNext]_(L!ledger)
  BY EachSteps, SessionLedger DEF BothInv
<1>4. BothInv /\ [MCNext]_<<part, vars, scenarioVars>> => [D!L!LedgerNext]_(D!L!ledger)
  BY EachSteps, ScenarioLedger DEF BothInv
<1> QED
  BY <1>1, <1>2, <1>3, <1>4, MaintenanceInvariance,
     PTL DEF MCSpec, BothImplementLedger, ImplementsLedger, D!ImplementsLedger, L!Ledger, D!L!Ledger
=============================================================================
