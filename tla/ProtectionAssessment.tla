-------------------------- MODULE ProtectionAssessment --------------------------
(***************************************************************************)
(* What is said of a protection snapshot: the assessment of an import      *)
(* (assessWindowsProtection in src/src/assessment/windows-protection.mjs)  *)
(* and the preview of one backend output (createDefenderPreview in         *)
(* src/src/backend/direct-defender-output.mjs).  Both evaluate the rules   *)
(* of one profile, each in its own words.                                  *)
(*                                                                         *)
(* The objects of the import are observations with the executions they     *)
(* name; they start as a complete snapshot and are changed field by field. *)
(***************************************************************************)
EXTENDS Naturals, SequencesExt

CONSTANTS MaxChanges

Areas == {"Defender", "Firewall"}
OnOff == {"Enabled", "Disabled"}
\* PROFILE.rules: the states a check knows and the one it expects.
Check(known, expected) == [known |-> known, expected |-> expected]
Rules ==
  [realtime |-> [area |-> "Defender", checks |-> [mode |-> Check({"Active"}, "Active"), realtime |-> Check(OnOff, "Enabled")]],
   domain   |-> [area |-> "Firewall", checks |-> [domain |-> Check(OnOff, "Enabled")]],
   private  |-> [area |-> "Firewall", checks |-> [private |-> Check(OnOff, "Enabled")]]]

States == [mode : {"Active", "Passive", "Unknown"}, realtime : OnOff \cup {"Unknown"},
           domain : OnOff \cup {"Unknown"}, private : {"Enabled", "Unknown"}]
\* The execution an observation names: whether the import has it, of which run, whether
\* it lists the observation and whether it succeeded.
Executions == [present : BOOLEAN, run : {1, 2}, lists : BOOLEAN, succeeded : BOOLEAN]
Observation ==
  [area : Areas \cup {"other"}, schema : Areas \cup {"other"}, run : {1, 2}, subject : BOOLEAN,
   valid : BOOLEAN, intact : BOOLEAN, execution : Executions, data : States]

VARIABLES
  package,       \* package_kind
  observations,  \* the Observation objects of the import, in their order
  changes
vars == <<package, observations, changes>>

-----------------------------------------------------------------------------
\* A plausible fault, used only to show that a property can fail.
AnyPresent(o)         == o.execution.present /\ ~o.execution.succeeded
-----------------------------------------------------------------------------
(* The rules over reported states                                          *)

Known(data, r)   == \A f \in DOMAIN Rules[r].checks : data[f] \in Rules[r].checks[f].known
Differs(data, r) == \E f \in DOMAIN Rules[r].checks : data[f] # Rules[r].checks[f].expected
Outcome(known, differs) == IF ~known THEN "NotTested" ELSE IF differs THEN "Concern" ELSE "NoConcernReported"

-----------------------------------------------------------------------------
(* assessWindowsProtection                                                 *)

Mismatch(o)  == o.schema \in Areas /\ o.schema # o.area
Duplicate(s, n) == \E m \in 1..(n - 1) : s[m].area = s[n].area
\* An execution of the same run that lists the observation, if the import has it.
Bound(o)     == o.execution.present => o.execution.run = o.run /\ o.execution.lists
Supported(o) == o.area \in Areas /\ o.schema = o.area
Rejects(s, n) ==
  \/ Mismatch(s[n])
  \/ s[n].area \in Areas /\ Duplicate(s, n)
  \/ Supported(s[n]) /\ ~(s[n].subject /\ s[n].valid /\ s[n].intact /\ Bound(s[n]))

NotCollected(o) == (o.execution.present /\ ~o.execution.succeeded) \/ (package = "AuditPackageZip" /\ ~o.execution.present)
Reason(o) ==
  IF ~Supported(o) THEN "UnsupportedSchema" ELSE IF NotCollected(o) THEN "CollectionNotSucceeded" ELSE "none"

\* The observation byArea holds for the rule at the end: the last of its area.
Of(s, r)    == {n \in DOMAIN s : s[n].area = Rules[r].area}
Selected(s, r) == s[CHOOSE n \in Of(s, r) : \A m \in Of(s, r) : m <= n]
Row(s, r) ==
  IF Of(s, r) = {} THEN [outcome |-> "NotTested", reason |-> "MissingObservation"]
  ELSE LET o     == Selected(s, r)
           known == Reason(o) = "none" /\ Known(o.data, r)
       IN  [outcome |-> Outcome(known, Differs(o.data, r)),
            reason  |-> IF known THEN "ReportedState" ELSE IF Reason(o) # "none" THEN Reason(o) ELSE "MissingOrUnsupportedState"]

OneRun(s) == \A m, n \in DOMAIN s : s[m].run = s[n].run
Accepted(s) == (\A n \in DOMAIN s : ~Rejects(s, n)) /\ OneRun(s)
Assess(s) == IF Accepted(s) THEN [r \in DOMAIN Rules |-> Row(s, r)] ELSE <<>>

-----------------------------------------------------------------------------
(* createDefenderPreview                                                   *)

RawModes == {"Normal", "Passive", "other", "null"}
RawRealtime == {"true", "false", "null"}
ModeOf(m) == CASE m = "Normal" -> "Active" [] m = "Passive" -> "Passive" [] OTHER -> "Unknown"
RealtimeOf(t) == CASE t = "true" -> "Enabled" [] t = "false" -> "Disabled" [] OTHER -> "Unknown"
Normalized(m, t) == [mode |-> ModeOf(m), realtime |-> RealtimeOf(t), domain |-> "Unknown", private |-> "Unknown"]
\* Only the Defender rule is selected.
Preview(data) == [r \in DOMAIN Rules |-> Outcome(r = "realtime" /\ Known(data, r), Differs(data, r))]

-----------------------------------------------------------------------------
Complete == [mode |-> "Active", realtime |-> "Enabled", domain |-> "Enabled", private |-> "Enabled"]
Base(area) ==
  [area |-> area, schema |-> area, run |-> 1, subject |-> TRUE, valid |-> TRUE, intact |-> TRUE, data |-> Complete,
   execution |-> [present |-> TRUE, run |-> 1, lists |-> TRUE, succeeded |-> TRUE]]
Init ==
  /\ package \in {"JsonObject", "JsonLines", "AuditPackageZip"} /\ changes = 0
  /\ observations = IF package = "JsonObject" THEN <<Base("Defender")>> ELSE <<Base("Defender"), Base("Firewall"), Base("other")>>

ChangeField(n) ==
  \/ \E a \in Areas \cup {"other"} : observations' = [observations EXCEPT ![n].area = a]
  \/ \E a \in Areas \cup {"other"} : observations' = [observations EXCEPT ![n].schema = a]
  \/ \E f \in {"subject", "valid", "intact"} : observations' = [observations EXCEPT ![n][f] = FALSE]
  \/ observations' = [observations EXCEPT ![n].run = 2]
  \/ observations' = [observations EXCEPT ![n].execution.run = 2]
  \/ \E f \in {"present", "lists", "succeeded"} : observations' = [observations EXCEPT ![n].execution[f] = FALSE]
  \/ \E f \in DOMAIN Complete : \E v \in {"Disabled", "Unknown", "Passive"} :
       observations' = [observations EXCEPT ![n].data[f] = v] /\ observations'[n] \in Observation
Change ==
  /\ changes < MaxChanges /\ changes' = changes + 1 /\ UNCHANGED package
  /\ \E n \in DOMAIN observations : ChangeField(n) /\ observations' # observations
Next == Change
Spec == Init /\ [][Next]_vars

-----------------------------------------------------------------------------
(* Properties                                                              *)

\* The assessment does not depend on the order in which the import lists its objects:
\* neither its rows nor whether there are any.
OrderIsIrrelevant == Assess(observations) = Assess(Reverse(observations))

\* No concern is reported only where the one observation of the area says so, in the
\* schema the profile interprets, valid, unchanged and collected by a successful
\* execution of the same run; a state no check knows is never taken for a good one.
NothingIsMadeUp ==
  Accepted(observations) => \A r \in DOMAIN Rules :
    Row(observations, r).outcome = "NoConcernReported" =>
      \E o \in ToSet(observations) :
        /\ \A p \in ToSet(observations) : p.area = o.area => p = o
        /\ o.area = Rules[r].area /\ o.schema = o.area /\ o.valid /\ o.intact /\ o.run = observations[1].run
        /\ o.execution.present => o.execution.succeeded /\ o.execution.run = o.run /\ o.execution.lists
        /\ package = "AuditPackageZip" => o.execution.present
        /\ \A f \in DOMAIN Rules[r].checks : o.data[f] = Rules[r].checks[f].expected

\* What is reported as a concern is never lost: of an accepted import, every supported
\* and collected observation whose states are known and not expected shows in its rows.
ConcernIsShown ==
  Accepted(observations) => \A o \in ToSet(observations), r \in DOMAIN Rules :
    /\ o.area = Rules[r].area /\ o.schema = o.area /\ Reason(o) = "none"
    /\ \A f \in DOMAIN Rules[r].checks : o.data[f] \in Rules[r].checks[f].known
    /\ \E f \in DOMAIN Rules[r].checks : o.data[f] # Rules[r].checks[f].expected
    => Row(observations, r).outcome = "Concern"

\* The preview of a backend output and the assessment of an observation with the same
\* states say the same of Defender, and the preview says nothing of anything else.
PreviewAgrees ==
  \A m \in RawModes, t \in RawRealtime :
    LET data == Normalized(m, t)
        o    == [observations[1] EXCEPT !.data = data]
    IN  /\ Supported(o) /\ o.area = "Defender" /\ Reason(o) = "none" => Preview(data).realtime = Row(<<o>>, "realtime").outcome
        /\ m # "Normal" \/ t = "null" => Preview(data).realtime = "NotTested"
        /\ \A r \in DOMAIN Rules \ {"realtime"} : Preview(data)[r] = "NotTested"
=============================================================================
