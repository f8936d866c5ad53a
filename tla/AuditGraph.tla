------------------------------- MODULE AuditGraph -------------------------------
(***************************************************************************)
(* A materialized graph (src/tools/lib/xobj-graph.mjs): a base, changed by *)
(* a bounded number of mutations, then frozen and given to the cross-      *)
(* object rules, to the pass rules and, as a package, to the import.  The  *)
(* mutations stand for whoever produces the objects: digests are not       *)
(* secrets, so a producer may state any version of anything.               *)
(***************************************************************************)
EXTENDS ImportPackage

CONSTANTS
  Scenarios,     \* each a graph and what a producer may do to it
  Base(_),       \* the graph before mutations
  Values(_),     \* the values a mutation may give a field, by collection and field
  Removable(_),  \* collections whose items may be removed or copied
  MaxMutations(_)

ASSUME AuditGraphAssumption == \A s \in Scenarios : MaxMutations(s) \in Nat

\* The fields of an object that hold a list, and those that hold a time, by collection.
Collections == Identified \cup {"actions", "entries", "membership"}
ListFields ==
  [c \in Collections |->
     CASE c = "audit_runs" -> {"passes"} [] c = "collector_executions" -> {"observations"} [] c = "observations" -> {"evidence"}
       [] OTHER -> {}]
TimeFields ==
  [c \in Collections |->
     CASE c \in {"audit_runs", "audit_passes", "collector_executions"} -> {"started", "ended"}
       [] c = "observations" -> {"observed"} [] c = "evidence_references" -> {"captured"}
       [] c \in {"audit_manifests", "export_manifests"} -> {"generated"} [] OTHER -> {}]
IsList(v) == v \in Seq(ToSet(v))
FieldFormed(c, f, v) == (f \in ListFields[c] => IsList(v)) /\ (f \in TimeFields[c] => v \in Nat)
Formed(c, item) == ListFields[c] \cup TimeFields[c] \subseteq DOMAIN item /\ \A f \in DOMAIN item : FieldFormed(c, f, item[f])

\* Parsing leaves no other graph, and no mutation makes one.
ASSUME FormAssumption ==
  \A s \in Scenarios : \A c \in Collections :
    /\ c \in DOMAIN Base(s) /\ IsList(Base(s)[c]) /\ \A item \in ToSet(Base(s)[c]) : Formed(c, item)
    /\ c \in DOMAIN Values(s) => \A f \in DOMAIN Values(s)[c] : \A v \in Values(s)[c][f] : FieldFormed(c, f, v)

VARIABLES scenario, graph, mutations, verdict
vars == <<scenario, graph, mutations, verdict>>

Unknown == [frozen |-> FALSE, through |-> 0, imported |-> FALSE, ordered |-> FALSE]
Init == scenario \in Scenarios /\ graph = Base(scenario) /\ mutations = 0 /\ verdict = Unknown

Mutable ==
  /\ ~verdict.frozen /\ mutations < MaxMutations(scenario) /\ mutations' = mutations + 1
  /\ UNCHANGED <<scenario, verdict>>

Replace ==
  \E c \in DOMAIN Values(scenario) : \E n \in DOMAIN graph[c] : \E f \in DOMAIN Values(scenario)[c] :
    \E v \in Values(scenario)[c][f] \ {graph[c][n][f]} :
      Mutable /\ graph' = [graph EXCEPT ![c][n][f] = v]

Drop   == \E c \in Removable(scenario) : \E n \in DOMAIN graph[c] : Mutable /\ graph' = [graph EXCEPT ![c] = RemoveAt(@, n)]
Copy   == \E c \in Removable(scenario) : \E n \in DOMAIN graph[c] : Mutable /\ graph' = [graph EXCEPT ![c] = Append(@, @[n])]

\* What the contract schemas say of these fields: every verifier comes after them.
SchemaValid(g) ==
  /\ \A run \in All(g.audit_runs) : run.passes # <<>>
  /\ \A p \in All(g.audit_passes) :
       /\ p.kind = "Standard" => p.privilege = "StandardUser" /\ p.prerequisites = <<>>
       /\ p.kind = "Elevated" => p.privilege = "Elevated"
       /\ (p.executions = <<>> => p.started = 0) /\ (p.started = 0 => p.ended = 0)
  /\ \A x \in All(g.collector_executions) :
       IF x.state \in Untested THEN x.started = 0 /\ x.ended = 0 ELSE x.started > 0 /\ x.ended > 0
  /\ \A r \in All(g.consent_receipts) :
       /\ r.operation \in Operations[r.type]
       /\ r.type \in CollectorTypes => r.binds = {"collector"} /\ r.pass # "none"

\* evaluateXobjThrough, finalizeAuditPackage and validatePassGraph on the frozen graph.
Evaluate ==
  /\ ~verdict.frozen /\ SchemaValid(graph)
  /\ verdict' = [frozen |-> TRUE, through |-> Through(graph), imported |-> Imported(graph),
                 ordered |-> Rule1(graph) /\ PassGraphValid(graph)]
  /\ UNCHANGED <<scenario, graph, mutations>>

Next == Replace \/ Drop \/ Copy \/ Evaluate
Spec == Init /\ [][Next]_vars

-----------------------------------------------------------------------------
(* Properties                                                              *)

Chains(e) ==
  {c \in (DOMAIN graph.audit_passes) \X (DOMAIN graph.collector_executions) \X (DOMAIN graph.observations) :
     /\ graph.collector_executions[c[2]].id \in ToSet(graph.audit_passes[c[1]].executions)
     /\ graph.observations[c[3]].id \in ToSet(graph.collector_executions[c[2]].observations)
     /\ e.id \in ToSet(graph.observations[c[3]].evidence)}

\* Whoever accepts a graph, the import or the rules through XOBJ-004: every evidence is
\* listed along exactly one chain from a pass down, and it is the chain its own upward
\* references name, with one privilege from the pass to the execution.
AcceptedIsForest ==
  verdict.imported \/ verdict.through >= 4 =>
    \A e \in All(graph.evidence_references) :
      \E c \in Chains(e) :
        /\ Chains(e) = {c}
        /\ e.observation = graph.observations[c[3]].id
        /\ graph.observations[c[3]].execution = graph.collector_executions[c[2]].id
        /\ graph.collector_executions[c[2]].pass = graph.audit_passes[c[1]].id
        /\ graph.collector_executions[c[2]].privilege = graph.audit_passes[c[1]].privilege

\* The import and the rules were written apart.  What the import accepts, the rules accept
\* up to XOBJ-004, save for the states of executions, which the import leaves to them.
ImportKeepsRules ==
  verdict.imported =>
    /\ Rule1(graph) /\ Rule2(graph) /\ Rule4(graph)
    /\ (\A x \in All(graph.collector_executions) : x.state \in {"Succeeded", "Partial"}) => verdict.through >= 4

\* The passes a pass waits for, and what is behind it after k such steps.
Waits(n) == {m \in DOMAIN graph.audit_passes : graph.audit_passes[m].id \in ToSet(graph.audit_passes[n].prerequisites)}
Behind[k \in 0..Len(graph.audit_passes)] ==
  IF k = 0 THEN [n \in DOMAIN graph.audit_passes |-> {n}]
  ELSE [n \in DOMAIN graph.audit_passes |-> UNION {Behind[k - 1][m] : m \in Waits(n)}]

\* The order of passes is decided twice, by the import over the references of a run and by
\* the rules over its passes: on an imported graph they differ only in what consents and
\* continuations add, and no accepted pass waits, directly or not, for itself.
PassVerdictsAgree ==
  /\ verdict.imported /\ Fields(graph.audit_runs[1].passes, "id") = Fields(graph.audit_passes, "id") =>
       verdict.ordered = Continued(graph)
  /\ verdict.imported \/ verdict.ordered =>
       \A n \in DOMAIN graph.audit_passes : Behind[Len(graph.audit_passes)][n] = {}

\* Through XOBJ-010 times nest along the whole chain: evidence is captured after the
\* observation, this inside its execution, that inside its pass where the pass has times,
\* and all inside the run, which ends before the manifest and any export.
TimesNest ==
  verdict.through >= 10 =>
    \A e \in All(graph.evidence_references) : \A c \in Chains(e) :
      LET p == graph.audit_passes[c[1]]
          x == graph.collector_executions[c[2]]
          o == graph.observations[c[3]]
          run == graph.audit_runs[1]
      IN  /\ run.started <= o.observed /\ o.observed <= e.captured /\ e.captured <= run.ended
          /\ p.started > 0 => p.started <= o.observed /\ o.observed <= p.ended
          /\ \A out \in All(graph.export_manifests) : e.captured <= out.generated

\* Through XOBJ-011 a consent is used once and by what it names: each execution that needs
\* one has its own, two receipts of one authorized type never share an action, and the
\* receipt, its action, its execution and its pass name the same pass.
ConsentNotShared ==
  verdict.through >= 11 =>
    /\ \A x \in All(graph.collector_executions) : \A d \in All(graph.collector_definitions) :
         d.id = x.collector => \A t \in d.consents \cap CollectorTypes :
           \E r \in All(graph.consent_receipts) :
             /\ r.type = t /\ r.id \in ToSet(x.consents) /\ r.pass = x.pass /\ r.nonce \notin graph.context[1].nonces
             /\ \A y \in All(graph.collector_executions) \ {x} : r.id \notin ToSet(y.consents)
             /\ \A p \in All(graph.audit_passes) : r.id \in ToSet(p.consents) <=> p.id = x.pass
    /\ \A r, s \in All(graph.consent_receipts) :
         r # s /\ r.type = s.type /\ r.type # "SensitiveDataCollection" => r.action # s.action

\* Through XOBJ-009 everything an export shows or omits is a member of the source manifest
\* that stands for exactly one object of the graph, and nothing is both shown and omitted.
ExportTraces ==
  verdict.through >= 9 =>
    LET e == graph.export_manifests[1]
        shown == {s.source : s \in All(e.entries)}
        omitted == {s.source : s \in All(e.omissions)}
    IN  shown \cap omitted = {}
        /\ \A s \in All(e.entries) \cup All(e.omissions) :
             \E m \in All(graph.membership) :
               m.id = s.source /\ m.path = s.source_path /\ One(graph[m.kind], "id", m.object)

\* import-manifest.mjs:90 says of what it lets through that the "AuditRun reference set"
\* matches the package members.  It compares their number and looks each reference up: one
\* reference stated twice makes up for a member no reference names.
ReferencesMatchMembers ==
  verdict.imported =>
    LET run == graph.audit_runs[1]
    IN  /\ ToSet(Fields(run.executions, "id")) = ToSet(Fields(graph.collector_executions, "id"))
        /\ ToSet(Fields(run.observations, "id")) = ToSet(Fields(graph.observations, "id"))
        /\ ToSet(Fields(run.evidence, "id")) = ToSet(Fields(graph.evidence_references, "id"))
=============================================================================
