------------------------------ MODULE AuditImport ------------------------------
(***************************************************************************)
(* The import command (runImportCommand in src/tools/lib/import-command.mjs) *)
(* and the pipeline it calls (importAuditPackage in                        *)
(* src/src/import/audit-package-importer.mjs, reference-validation.mjs,    *)
(* import-result.mjs): arguments, the two validators, the source, its      *)
(* kind, its records, their validation and integrity, the assessment, and  *)
(* what is printed under which exit code.                                  *)
(*                                                                         *)
(* Reading the bytes is SourceRead, the archive ImportZip, its members     *)
(* ImportPackage, texts JsonScan and StructuredFraming; here each of them  *)
(* succeeds or fails.  Validators and assessment are functions handed to   *)
(* the command: they may throw, answer anything, and change what they were *)
(* given.  A value is "own", as it stands in the source, or "altered".     *)
(***************************************************************************)
EXTENDS Integers, Sequences

CONSTANTS MaxRecords, Ids

Kinds   == {"JsonObject", "JsonLines", "AuditPackageZip"}
Options == {"source", "kind", "limits", "json", "assess", "html", "help"}
Valued  == {"source", "kind", "limits", "assess"}
Record  == [kind : {"Observation", "other"}, id : Ids, clean : BOOLEAN, seal : {"good", "bad", "none"}]
Answers == {"true", "valid", "invalid", "truthy", "throws", "import error"}
None    == [status |-> "none", kind |-> "none", objects |-> <<>>, claim |-> FALSE]

VARIABLES
  command,    \* the options given, those given twice and those with a wrong value
  pc,         \* where the command stands
  kind,       \* packageKind
  records,    \* what the source holds
  values,     \* subject.value of each record
  judged,     \* the values the validator called valid, in their order
  cause,      \* history: why the import or the assessment threw
  result,     \* what importAuditPackage resolved to
  exit,       \* exitCode
  shown       \* output
vars == <<command, pc, kind, records, values, judged, cause, result, exit, shown>>
import == <<kind, records, values, judged>>

Given(o)   == o \in command.names
Standalone == kind # "AuditPackageZip"
Identity(r) == <<r.kind, r.id>>

-----------------------------------------------------------------------------
\* Plausible faults, used only to show that the properties can fail.
AskedOnly(r) == Given("assess")
-----------------------------------------------------------------------------
Privacy == IF Given("assess") THEN "Private" ELSE "SummaryOnly"

Init ==
  /\ command = [names |-> {}, twice |-> FALSE, wrong |-> {}] /\ pc = "arguments"
  /\ kind = "none" /\ records = <<>> /\ values = <<>> /\ judged = <<>> /\ cause = "none"
  /\ result = None /\ exit = -1 /\ shown = "none"

Exit(code, output) == pc' = "done" /\ exit' = code /\ shown' = output

\* parseCommand; whatever it throws is one failure.
Accepts(c) ==
  /\ ~c.twice
  /\ IF "help" \in c.names THEN c.names = {"help"}
     ELSE /\ "source" \in c.names /\ c.wrong = {}
          /\ "html" \in c.names => "assess" \in c.names /\ "json" \notin c.names
Arguments ==
  /\ pc = "arguments"
  /\ \E names \in SUBSET Options, twice \in BOOLEAN : \E wrong \in SUBSET (names \cap Valued) :
       LET c == [names |-> names, twice |-> twice, wrong |-> wrong] IN
       /\ command' = c
       /\ CASE ~Accepts(c)                      -> Exit(64, "failure")
            [] Accepts(c) /\ "help" \in c.names -> Exit(0, "help")
            [] OTHER                            -> pc' = "validator" /\ UNCHANGED <<exit, shown>>
  /\ UNCHANGED <<import, cause, result>>

LoadValidator ==
  /\ pc = "validator"
  /\ \/ pc' = (IF Given("assess") THEN "assessment" ELSE "read") /\ UNCHANGED <<exit, shown>>
     \/ Exit(1, "failure")
  /\ UNCHANGED <<command, import, cause, result>>

LoadAssessment ==
  /\ pc = "assessment"
  /\ (pc' = "read" /\ UNCHANGED <<exit, shown>>) \/ Exit(1, "failure")
  /\ UNCHANGED <<command, import, cause, result>>

-----------------------------------------------------------------------------
(* importAuditPackage                                                      *)

\* Every exception ends it: an import error, or one nobody expected.
Stop(k, why) ==
  /\ pc' = "imported" /\ cause' = why
  /\ result' = [status |-> "Rejected", kind |-> k, objects |-> <<>>, claim |-> FALSE]
  /\ UNCHANGED <<command, values, judged, exit, shown>>

\* At any of its steps the pipeline may throw what is not an import error.
Throws ==
  /\ pc \in {"read", "detect", "parse", "normalize", "validate", "finalize"}
  /\ Stop(kind, "internal") /\ UNCHANGED <<kind, records>>

ReadSource ==
  /\ pc = "read"
  /\ \/ pc' = "detect" /\ UNCHANGED <<command, import, cause, result, exit, shown>>
     \/ Stop(kind, "source") /\ UNCHANGED <<kind, records>>

\* The extension names a kind, the one expected if any; an archive, and nothing else,
\* begins with the signature of one.
Detect ==
  /\ pc = "detect"
  /\ \E extension \in Kinds \cup {"none"}, expected \in Kinds, signature \in BOOLEAN :
       IF /\ extension # "none" /\ (Given("kind") => extension = expected)
          /\ (extension = "AuditPackageZip") = signature
       THEN kind' = extension /\ pc' = "parse" /\ UNCHANGED <<command, values, judged, cause, result, exit, shown>>
       ELSE Stop("none", "format") /\ UNCHANGED kind
  /\ UNCHANGED records

\* Records and, in an archive, members; each value is what the source holds.
Parse ==
  /\ pc = "parse"
  /\ \/ \E n \in 1..MaxRecords : \E recs \in [1..n -> Record] :
          /\ kind = "JsonObject" => n = 1
          /\ records' = recs /\ values' = [i \in 1..n |-> "own"] /\ pc' = "normalize"
          /\ UNCHANGED <<command, kind, judged, cause, result, exit, shown>>
     \/ Stop(kind, "text") /\ UNCHANGED <<kind, records>>

Unique == \A i, j \in DOMAIN records : Identity(records[i]) = Identity(records[j]) => i = j
Normalized == (Standalone => Unique) /\ \A i \in DOMAIN records : records[i].clean
Normalize ==
  /\ pc = "normalize"
  /\ IF Normalized THEN pc' = "validate" /\ UNCHANGED <<command, values, judged, cause, result, exit, shown>>
     ELSE Stop(kind, "normalize")
  /\ UNCHANGED <<kind, records>>

\* The validator is given a copy: what it leaves behind is not the subject's value.
After(value, left) == value
Valid(answer) == answer \in {"true", "valid"}
Validate ==
  /\ pc = "validate"
  /\ LET n == Len(judged) + 1 IN
     IF n > Len(records) THEN pc' = "finalize" /\ UNCHANGED <<command, values, judged, cause, result, exit, shown>>
     ELSE \E answer \in Answers, left \in {"own", "altered"} :
       IF Valid(answer)
       THEN /\ judged' = Append(judged, values[n]) /\ values' = [values EXCEPT ![n] = After(@, left)]
            /\ UNCHANGED <<command, pc, cause, result, exit, shown>>
       ELSE Stop(kind, "schema")
  /\ UNCHANGED <<kind, records>>

\* verifyContractIntegrity of each value, where it carries a digest, and the references of an archive (ImportPackage).
Intact(n) == records[n].seal = "none" \/ (records[n].seal = "good" /\ values[n] = "own")
Verified  == \A n \in DOMAIN records : Intact(n)
Finalize ==
  /\ pc = "finalize"
  /\ \/ /\ Verified /\ pc' = "imported"
        /\ result' = [status |-> "Accepted", kind |-> kind, claim |-> TRUE,
                      objects |-> IF Privacy = "Private" THEN values ELSE <<>>]
        /\ UNCHANGED <<command, values, judged, cause, exit, shown>>
     \/ (~Verified \/ ~Standalone) /\ Stop(kind, "integrity")
  /\ UNCHANGED <<kind, records>>

-----------------------------------------------------------------------------
(* The end of the command                                                  *)

\* Only what is accepted is assessed.
Assessed(r) == r.status = "Accepted" /\ Given("assess")
Assess ==
  /\ pc = "imported" /\ Assessed(result)
  /\ \/ Exit(0, "report") /\ UNCHANGED cause
     \/ cause' = "assessment" /\ Exit(2, "failure")
     \/ cause' = "internal" /\ Exit(1, "failure")
  /\ UNCHANGED <<command, import, result>>

\* render copies the whole result into JSON: its objects too, if it has any.
Rendered(r)  == IF Given("json") /\ r.objects # <<>> THEN "objects" ELSE IF r.claim THEN "summary" ELSE "failure"
ExitOf(r)    == IF r.status = "Accepted" THEN 0 ELSE 2
Show ==
  /\ pc = "imported" /\ ~Assessed(result)
  /\ Exit(ExitOf(result), Rendered(result))
  /\ UNCHANGED <<command, import, cause, result>>

Next == \/ Arguments \/ LoadValidator \/ LoadAssessment \/ ReadSource \/ Detect \/ Parse \/ Normalize
        \/ Validate \/ Finalize \/ Throws \/ Assess \/ Show
Spec == Init /\ [][Next]_vars

-----------------------------------------------------------------------------
(* Properties                                                              *)

\* What is accepted was wholly judged, as it stands in the source: each value was called
\* valid in the form the result carries, whatever the validator did to what it was given,
\* its integrity was verified on that form, and no two records on their own share an
\* identity.
AcceptedIsJudged ==
  result.status = "Accepted" =>
    /\ Len(judged) = Len(records)
    /\ \A n \in DOMAIN records : values[n] = judged[n] /\ judged[n] = "own" /\ records[n].seal # "bad"
    /\ kind # "AuditPackageZip" => \A i, j \in DOMAIN records : Identity(records[i]) = Identity(records[j]) => i = j
    /\ result.objects # <<>> => result.objects = judged

\* Values leave the command only as the report of an assessment that was asked for and
\* succeeded: not in a summary, not with a failure, whatever failed after the import.
ValuesStayPrivate ==
  /\ shown # "objects"
  /\ shown = "report" => "assess" \in command.names /\ result.status = "Accepted" /\ cause = "none"

\* The exit code can be acted upon: zero means all that was asked for succeeded, two that
\* something was examined and rejected, one and sixty-four that nothing was.
ExitIsTrue ==
  /\ exit = 0 /\ shown # "help" => result.status = "Accepted" /\ ("assess" \in command.names => shown = "report")
  /\ exit = 2 => cause # "none" /\ shown = "failure"
  /\ exit = 64 => ~Accepts(command) /\ result = None
  /\ exit = 1 => result.status # "Rejected" /\ shown = "failure"

\* import-command.mjs:26, the text of --help: "1 unavailable validation infrastructure or
\* internal error".  An internal error of the import exits like a rejection.
InternalErrorExits1 == pc = "done" /\ cause = "internal" => exit = 1
=============================================================================
