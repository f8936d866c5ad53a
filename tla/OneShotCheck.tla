----------------------------- MODULE OneShotCheck -----------------------------
(***************************************************************************)
(* What one Microsoft Defender check promises its user, whatever processes *)
(* fail or are killed: nothing elevated before consent and at most one     *)
(* elevation after it; the prepared data are withdrawn only before consent *)
(* and cleaned up only after the elevation; a cancellation or a report is  *)
(* announced only when the data are really gone, and then nothing follows. *)
(***************************************************************************)
VARIABLES
  consent,   \* the user confirmed the offer
  elevated,  \* elevation was requested
  data,      \* "none", "present" or "removed"
  verdict    \* "open", "cancelled", "reported" or "failed"

vars == <<consent, elevated, data, verdict>>

Init == consent = FALSE /\ elevated = FALSE /\ data = "none" /\ verdict = "open"

Prepare == data = "none" /\ ~consent /\ data' = "present" /\ UNCHANGED <<consent, elevated, verdict>>

Consent ==
  /\ verdict = "open" /\ data = "present" /\ ~consent
  /\ consent' = TRUE /\ UNCHANGED <<elevated, data>>
  /\ verdict' \in {"open", "failed"}

\* The verdict may already be "failed": nobody waits for this controller any more.
Elevate ==
  /\ consent /\ ~elevated /\ data = "present" /\ verdict \in {"open", "failed"}
  /\ elevated' = TRUE /\ UNCHANGED <<consent, data, verdict>>

Remove == data = "present" /\ consent = elevated /\ data' = "removed" /\ UNCHANGED <<consent, elevated, verdict>>

Cancel == ~consent /\ data = "removed" /\ verdict' = "cancelled"
Report == elevated /\ data = "removed" /\ verdict' = "reported"
Fail   == verdict' = "failed"

Decide == verdict = "open" /\ (Cancel \/ Report \/ Fail) /\ UNCHANGED <<consent, elevated, data>>

Next == Prepare \/ Consent \/ Elevate \/ Remove \/ Decide
Spec == Init /\ [][Next]_vars
=============================================================================
