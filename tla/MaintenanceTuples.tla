-------------------------- MODULE MaintenanceTuples --------------------------
(* Selections of the maintenance models: what is installed, or Null.  A tuple *)
(* keeps the fields that decide an operation: whether a backend is enrolled,  *)
(* the manifest digest and the security epoch.                                *)
EXTENDS Naturals

CONSTANTS Manifests, MaxEpoch, Null

ASSUME TuplesAssumption == MaxEpoch \in Nat /\ Null \notin [backend : BOOLEAN, manifest : Manifests, epoch : 0..MaxEpoch]

Tuples     == [backend : BOOLEAN, manifest : Manifests, epoch : 0..MaxEpoch]
Selections == Tuples \cup {Null}
Operations == {"Install", "Update", "EnrollBackend", "Repair", "Uninstall"}

EpochOf(s) == IF s = Null THEN 0 ELSE s.epoch
Max2(a, b) == IF a > b THEN a ELSE b

\* Whether the operation may turn the selection before into the selection after.
Scoped(op, before, after) ==
  CASE op = "Install"   -> before = Null /\ after # Null /\ ~after.backend
    [] op = "Uninstall" -> before # Null /\ after = Null
    [] op = "Repair"    -> before # Null /\ before = after
    [] op = "Update"    -> /\ Null \notin {before, after}
                           /\ before.backend = after.backend /\ before.manifest # after.manifest
    [] op = "EnrollBackend" -> /\ Null \notin {before, after}
                               /\ ~before.backend /\ after.backend
                               /\ before.manifest # after.manifest /\ before.epoch = after.epoch
=============================================================================
