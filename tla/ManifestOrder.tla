------------------------------ MODULE ManifestOrder ------------------------------
(***************************************************************************)
(* What the digests of manifests and profiles do with their lists before   *)
(* the canonical text (normalizeAuditManifest, normalizeExportManifest,    *)
(* normalizeRedactionProfile of src/tools/lib/jcs.mjs): duplicates are     *)
(* refused and rows sorted, so that a list may be stored in any order.     *)
(*                                                                         *)
(* A row is the two fields its list is sorted by, and the rest of it.      *)
(***************************************************************************)
EXTENDS Naturals, FiniteSets, Sequences

CONSTANTS FieldValues, Rests, MaxRows
VARIABLES list, rows
vars == <<list, rows>>

Rows == [first : FieldValues, second : FieldValues, rest : Rests]

\* The keys of a row that no other row of the list may share.
Unique(l, r) ==
  CASE l \in {"AuditEntries", "ExportEntries"} -> <<r.first, r.second>>
    [] l \in {"Omissions", "FieldRules"}       -> <<r.first>>
    [] l = "Warnings"                          -> <<<<r.first, r.second>>>>

\* compareUtf8Bytes of the first field, then of the second; field rules have one field.
Before(l, r, s) == r.first < s.first \/ (l # "FieldRules" /\ r.first = s.first /\ r.second < s.second)

RejectDuplicates(l, t) ==
  \A i, j \in DOMAIN t : \A k \in DOMAIN Unique(l, t[i]) : Unique(l, t[i])[k] = Unique(l, t[j])[k] => i = j

\* Array.prototype.sort: the k-th row is the one that k rows, itself among them, are not
\* after.  The sort leaves equals as they are, but two accepted rows never tie.
NotAfter(l, t, i, j) == Before(l, t[i], t[j]) \/ (~Before(l, t[j], t[i]) /\ i <= j)
UpTo(l, t, j) == {i \in DOMAIN t : NotAfter(l, t, i, j)}
Sorted(l, t)  == [k \in DOMAIN t |-> t[CHOOSE j \in DOMAIN t : Cardinality(UpTo(l, t, j)) = k]]

Normalize(l, t) == IF RejectDuplicates(l, t) THEN Sorted(l, t) ELSE <<"Rejected">>

Lists == {"AuditEntries", "ExportEntries", "Omissions", "Warnings", "FieldRules"}
Init == list \in Lists /\ rows = <<>>
Add  == \E r \in Rows : Len(rows) < MaxRows /\ rows' = Append(rows, r) /\ UNCHANGED list
Next == Add
Spec == Init /\ [][Next]_vars

\* docs/integrity-model.md:61: permutations of the input that hold the same unique members
\* have the same digest.  Where a list may repeat a field, the second one has to decide.
PermutationsAgree ==
  \A i, j \in DOMAIN rows :
    Normalize(list, [rows EXCEPT ![i] = rows[j], ![j] = rows[i]]) = Normalize(list, rows)
=============================================================================
