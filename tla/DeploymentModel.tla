--------------------------- MODULE DeploymentModel ---------------------------
(***************************************************************************)
(* The deployment reference model (src/tools/lib/deployment-model.mjs):    *)
(* one confirmed operation on an installation, from the request to its     *)
(* cleanup, with a failure possible in every stage.                        *)
(*                                                                         *)
(* simulateDeployment runs one scenario.  Here Request starts a scenario   *)
(* on the last projected snapshot, with the nonces consumed so far, and    *)
(* with a confirmation that may be fresh, old, foreign or missing.         *)
(***************************************************************************)
EXTENDS MaintenanceTuples, FiniteSets

CONSTANTS
  MaxGen,                      \* Number.MAX_SAFE_INTEGER
  Nonces, ConfirmationSeconds, \* MODEL_LIMITS.confirmation_seconds
  MaxTime,                     \* bound on simulated times
  None, Foreign                \* no confirmation; a binding to something else

VARIABLES
  snapshot, intent, receipt, used,   \* the scenario
  stage, ended,                      \* state: its working stage, or how it ended
  minFloor, consumed

vars == <<snapshot, intent, receipt, used, stage, ended, minFloor, consumed>>

Stages    == <<"Requested", "Prepared", "Staged", "Verified", "PublishPending",
               "Committed", "CleanupPending", "Completed">>
Endings   == {"None", "Rejected", "Cancelled", "Deferred", "RecoveryRequired", "CleanupIncomplete"}
After(st) == Stages[1 + (CHOOSE i \in 1..7 : Stages[i] = st)]
Published == {"Committed", "CleanupPending"}

Binding(s, i) == [snapshot |-> s, intent |-> i]
-----------------------------------------------------------------------------
\* Plausible faults, used only to show that the properties can fail.
AnyNonce(r, now)    == r.issued <= now /\ now < r.expires /\ r.expires - r.issued <= ConfirmationSeconds
-----------------------------------------------------------------------------
(* Admission                                                               *)

EpochAccepted(s, i) == i.desired # Null => i.desired.epoch >= Max2(s.floor, EpochOf(s.sel))

Fresh(r, now) ==
  /\ r.issued <= now /\ now < r.expires /\ r.expires - r.issued <= ConfirmationSeconds
  /\ r.nonce \notin used

\* The negation of admissionReason(): of what is asked, and of its confirmation.
Admissible(s, i) ==
  /\ s.gen < MaxGen /\ i.next = s.gen + 1
  /\ Scoped(i.op, s.sel, i.desired) /\ EpochAccepted(s, i)

Confirmed(s, i, r, now) ==
  /\ r # None /\ r.approved /\ r.binding = Binding(s, i) /\ Fresh(r, now)

BelowFloor(s) == s.sel # Null /\ s.sel.epoch < s.floor

Over == stage = "Completed" \/ ended # "None"

\* What the projection shows as the installation's snapshot: nothing while it is uncertain.
Projected ==
  IF ended = "RecoveryRequired" \/ (stage = "PublishPending" /\ ended = "None") THEN None ELSE snapshot

Init ==
  /\ snapshot = [gen |-> 0, floor |-> 0, sel |-> Null]
  /\ intent = [op |-> "Repair", next |-> 0, desired |-> Null] /\ receipt = None /\ used = {}
  /\ stage = "Requested" /\ ended = "Rejected" /\ minFloor = 0 /\ consumed = FALSE

\* What a request may present: a confirmation of it or of something else, an old one, none.
Receipts(i) ==
  {None, receipt} \cup [approved : BOOLEAN, binding : {Binding(snapshot, i), Foreign},
                        nonce : Nonces, issued : 0..1, expires : 1..MaxTime]

\* The next scenario, once the last one has ended with a snapshot to build on.
Request ==
  /\ Over /\ Projected # None /\ ~BelowFloor(snapshot)
  /\ \E op \in Operations, d \in Selections, n \in {snapshot.gen, snapshot.gen + 1} :
       LET i == [op |-> op, next |-> n, desired |-> d] IN
       /\ Admissible(snapshot, i) /\ intent' = i
       /\ \E r \in Receipts(i), now \in 0..MaxTime :
            Confirmed(snapshot, i, r, now) /\ receipt' = r
  /\ stage' = "Requested" /\ ended' = "None" /\ minFloor' = snapshot.floor /\ consumed' = FALSE
  /\ UNCHANGED <<snapshot, used>>

\* A request that is not admissible, or on a snapshot below its floor, changes nothing.
Reject ==
  /\ Over /\ Projected # None
  /\ stage' = "Requested" /\ minFloor' = snapshot.floor /\ consumed' = FALSE
  /\ ended' = IF BelowFloor(snapshot) THEN "RecoveryRequired" ELSE "Rejected"
  /\ UNCHANGED <<snapshot, intent, receipt, used>>

-----------------------------------------------------------------------------
(* Events                                                                  *)

\* An uncertain publish may have persisted the advanced floor.
RaisedFloor == Max2(minFloor, Max2(EpochOf(snapshot.sel), EpochOf(intent.desired)))

\* The expected event of the stage; the caller keeps the nonce of a consumed confirmation.
Advance ==
  /\ ~Over /\ stage' = After(stage)
  /\ consumed' = (consumed \/ stage = "Requested")
  /\ used' = IF stage = "Requested" THEN used \cup {receipt.nonce} ELSE used
  /\ minFloor' = IF stage = "Verified" THEN RaisedFloor ELSE minFloor
  /\ snapshot' = IF stage = "PublishPending"
                 THEN [gen |-> intent.next, floor |-> minFloor, sel |-> intent.desired] ELSE snapshot
  /\ UNCHANGED <<intent, receipt, ended>>

Failures == {"Cancel", "Fail", "Crash", "Busy", "TrustUnavailable", "RebootRequired",
             "RollbackUnavailable", "InconsistentState", "CleanupFailed"}

Uncertain(e) ==
  \/ e = "InconsistentState" \/ stage = "PublishPending"
  \/ e = "TrustUnavailable" /\ stage \in Published

\* A failure ends the scenario according to its stage.
FailWith(e) ==
  /\ ~Over /\ (e = "CleanupFailed" => stage \in Published)
  /\ ended' = IF Uncertain(e) THEN "RecoveryRequired"
              ELSE IF stage \in Published THEN "CleanupIncomplete"
              ELSE CASE e = "Cancel"                     -> "Cancelled"
                     [] e \in {"Busy", "RebootRequired"} -> "Deferred"
                     [] OTHER                            -> "Rejected"
  /\ UNCHANGED <<snapshot, intent, receipt, used, stage, minFloor, consumed>>

Next == Request \/ Reject \/ Advance \/ \E e \in Failures : FailWith(e)
Spec == Init /\ [][Next]_vars

-----------------------------------------------------------------------------
(* Properties                                                              *)

TypeOK ==
  /\ snapshot.gen \in 0..MaxGen /\ snapshot.floor \in 0..MaxEpoch /\ snapshot.sel \in Selections
  /\ minFloor \in 0..MaxEpoch /\ used \subseteq Nonces /\ consumed \in BOOLEAN
  /\ stage \in {Stages[i] : i \in 1..8} /\ ended \in Endings

\* A snapshot is only shown when no publication is ambiguous, whatever failed in which
\* stage; it is above its floor, and its floor is the highest any stage has reserved.
ShownIsCertain ==
  Projected # None => stage # "PublishPending" /\ ~BelowFloor(Projected) /\ Projected.floor = minFloor

\* One confirmation admits one operation: the one it was bound to, once, while it is valid.
ConsumedOnce ==
  [][~consumed /\ consumed' =>
       /\ receipt.nonce \notin used /\ receipt.approved
       /\ receipt.binding = Binding(snapshot, intent)
       /\ receipt.expires - receipt.issued <= ConfirmationSeconds]_vars

\* A sequence of scenarios is a behaviour of the ledger the maintenance models share. An
\* abandoned operation of this model ends with its scenario.
L == INSTANCE MaintenanceLedger WITH
       counter  <- Cardinality(used), gen      <- snapshot.gen,
       genFloor <- IF stage = "PublishPending" THEN intent.next ELSE snapshot.gen,
       secFloor <- minFloor, sel <- snapshot.sel,
       phase    <- CASE stage = "PublishPending" -> "Blocked"
                     [] stage \in Published /\ ended = "None" -> "Committed"
                     [] stage \in {"Prepared", "Staged", "Verified"} /\ ended = "None" -> "Admitted"
                     [] OTHER -> "Stable"
ImplementsLedger == L!Ledger
=============================================================================
