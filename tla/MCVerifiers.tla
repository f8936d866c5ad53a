------------------------------ MODULE MCVerifiers ------------------------------
(* The reference verifiers of a finished package: the graph of its objects in    *)
(* several scenarios, its action log, its canonical texts and its sorted lists.  *)
(* Each is handed its own value: part says which of them moves.                  *)
EXTENDS MCGraphs, TLC

CONSTANTS Logs, Millis, Nodes, PropertyNames, Kinds, MaxProps, FieldValues, Rests, MaxRows
VARIABLES part, log, verified, accepted, heap, spoiled, list, rows

logVars  == <<log, verified, accepted>>
textVars == <<heap, spoiled>>
listVars == <<list, rows>>

Log  == INSTANCE ActionLog
Text == INSTANCE CanonicalText
List == INSTANCE ManifestOrder

Interchangeable == Permutations(Nodes)

-----------------------------------------------------------------------------
(* The logs                                                                *)

Stamps == [sec : {0}, frac : {<<>>, <<5>>, <<0>>, <<5, 0>>}] \cup {[sec |-> 1, frac |-> <<>>]}
AtStart == [sec |-> 0, frac |-> <<>>]

LogEntry(n, prev, action, run, time, stated, auth, parameters) ==
  [n |-> n, prev |-> prev, action |-> action, run |-> run, time |-> time, stated |-> stated,
   type |-> "Export", auth |-> auth, parameters |-> parameters]

GoodEntry(n, prev, action, time) == LogEntry(n, prev, action, "r", time, TRUE, {"Export"}, {})

\* Every numbering, linking and naming of up to three entries.
Cells == {GoodEntry(n, p, a, AtStart) : n \in 0..2, p \in 0..3, a \in {"a", "b", "c"}}
ChainLogs == UNION {[1..len -> Cells] : len \in 0..3}

\* Two linked entries, in either order, at any times.
TimedLogs == {<<GoodEntry(0, 0, "a", t), GoodEntry(1, 1, "b", u)>> : t \in Stamps, u \in Stamps}
         \cup {<<GoodEntry(1, 2, "a", t), GoodEntry(0, 0, "b", u)>> : t \in Stamps, u \in Stamps}

\* One entry with anything else wrong.
LogParameters == [original : BOOLEAN, private : BOOLEAN, included : BOOLEAN]
SingleLogs == {<<LogEntry(0, 0, "a", r, AtStart, s, auth, ps)>> :
             r \in {"r", "s"}, s \in BOOLEAN, auth \in SUBSET {"Export", "Reboot"},
             ps \in {{}} \cup {{p} : p \in LogParameters}}

MCLogs == [run : {"r"}, sealed : {TRUE}, entries : TimedLogs \cup SingleLogs]
          \cup [run : {"r"}, sealed : {TRUE}, entries : ChainLogs]
          \cup [run : {"r"}, sealed : {FALSE}, entries : TimedLogs]

-----------------------------------------------------------------------------
MCInit ==
  /\ part \in {"graph", "log", "text", "list"}
  /\ IF part = "graph" THEN Init
     ELSE scenario = "none" /\ graph = <<>> /\ mutations = 0 /\ verdict = Unknown
  /\ IF part = "log" THEN Log!Init ELSE log = <<>> /\ verified = FALSE /\ accepted = {}
  /\ IF part = "text" THEN Text!Init ELSE heap = <<>> /\ spoiled = FALSE
  /\ IF part = "list" THEN List!Init ELSE list = "none" /\ rows = <<>>

MCNext ==
  /\ UNCHANGED part
  /\ IF part = "graph" THEN Next      ELSE UNCHANGED vars
  /\ IF part = "log"   THEN Log!Next  ELSE UNCHANGED logVars
  /\ IF part = "text"  THEN Text!Next ELSE UNCHANGED textVars
  /\ IF part = "list"  THEN List!Next ELSE UNCHANGED listVars

MCSpec == MCInit /\ [][MCNext]_<<part, vars, logVars, textVars, listVars>>

\* The fields that lists are sorted by have an order.
ASSUME ListAssumption == FieldValues \subseteq Nat

\* The logs are what the schema lets through.
ASSUME LogAssumption == Logs \subseteq Log!ActionLogs /\ Millis \in Nat

\* What the import does not judge is in order in the scenarios that compare it with the
\* rules: the run asked for is the one given, and the objects it does not read keep their
\* own identities and name that run.
Unread == {"audit_manifests", "export_manifests", "redaction_profiles", "reboot_continuation_states"}
ASSUME UnreadAssumption ==
  \A s \in Scenarios \cap {"links", "passes"} :
    /\ \A run \in All(Base(s).audit_runs) : run.id = RunId
    /\ "audit_runs" \in DOMAIN Values(s) => "id" \notin DOMAIN Values(s).audit_runs
    /\ \A c \in Unread :
         /\ c \notin DOMAIN Values(s) \cup Removable(s) /\ Distinct(Fields(Base(s)[c], "id"))
         /\ c \in OfRun => \A item \in All(Base(s)[c]) : item.run = RunId

-----------------------------------------------------------------------------
\* Every accepted object hangs on one chain below the run, for the import and the rules
\* alike, and both order the passes the same.
GraphIsForest ==
  part = "graph" =>
    /\ scenario = "links"  => AcceptedIsForest /\ ImportKeepsRules
    /\ scenario = "passes" => PassVerdictsAgree

\* What the rules accept is bound together: times nest, a consent covers one action, and
\* an export shows what the package holds.
GraphIsBound ==
  part = "graph" =>
    /\ scenario = "times"    => TimesNest
    /\ scenario = "consents" => ConsentNotShared
    /\ scenario = "export"   => ExportTraces

\* An accepted log is one chain, to three verifiers, in whatever order it is stored.
LogIsOneChain ==
  part = "log" => Log!AcceptedIsOneChain /\ Log!StorageOrderIrrelevant /\ Log!VerifiersAgree

\* Digests are of values: equal for equal ones, however they are built, ordered or
\* shared, and different for all others but in the field that is left out.
DigestIsOfTheValue ==
  /\ part = "text" => Text!AcceptsExactlyJson /\ Text!TextDecides /\ Text!ExcludesOnlyNamed
  /\ part = "list" => List!PermutationsAgree
=============================================================================
