------------------------------- MODULE MCGraphs -------------------------------
(* The graphs of the scenarios and what a producer may change in each.         *)
EXTENDS AuditGraph

Object(id) == [id |-> id, run |-> "run", path |-> id, digest |-> 1, sealed |-> TRUE]
Ref(id) == [id |-> id, digest |-> 1]
PassRef(id, kind, privilege) == [id |-> id, kind |-> kind, privilege |-> privilege, path |-> id, digest |-> 1]
LogRef == [id |-> "log", path |-> "action-log.json", digest |-> 1]
Pin(id) == [id |-> id, version |-> 1, digest |-> 1]

Pass(id, kind, privilege, x, from, to) ==
  Object(id) @@ [kind |-> kind, privilege |-> privilege, executions |-> x, prerequisites |-> <<>>, consents |-> <<>>,
                 started |-> from, ended |-> to]
Execution(id, pass, privilege, collector, o, consent) ==
  Object(id) @@ [pass |-> pass, privilege |-> privilege, collector |-> collector, collector_version |-> 1,
                 collector_digest |-> 1, observations |-> o, state |-> "Succeeded", consents |-> consent, started |-> 3, ended |-> 5]
Observed(id, x, e) == Object(id) @@ [execution |-> x, evidence |-> e, observed |-> 4]
Definition(id, consents) == Object(id) @@ [version |-> 1, consents |-> consents, capabilities |-> {"C"}]
Evidence(id, o) == Object(id) @@ [observation |-> o, captured |-> 4]
Receipt(id, type, operation, pass, action) ==
  Object(id) @@ [type |-> type, operation |-> operation, pass |-> pass, action |-> action, nonce |-> id, state |-> "Active",
    presented |-> 1, accepted |-> 1, expires |-> 9, single_use |-> TRUE, requested |-> {"C"}, approved |-> {"C"},
    purpose |-> "P", target |-> "T", binds |-> {"collector"}, collector |-> "d1", collector_digest |-> 1, export |-> "none",
    profile_digest |-> 1, remedy |-> "none", remedy_target |-> "T", finding |-> "none", workflow |-> "none", stage |-> "none"]
Action(id, n, type, operation, pass, x, consents, auth) ==
  [id |-> id, number |-> n, run |-> "run", type |-> type, operation |-> operation, purpose |-> "P", target |-> "T", pass |-> pass,
   execution |-> x, consents |-> consents, authorizes |-> auth, subject |-> "T", profile_digest |-> 1, next_stage |-> "none", at |-> 3]
NoAuth == [t \in DOMAIN Operations |-> "none"]

Objects ==
  [audit_runs |-> <<[Object("run") EXCEPT !.path = "run.json"] @@
      [passes |-> <<PassRef("p1", "Standard", "StandardUser"), PassRef("p2", "Elevated", "Elevated")>>,
       executions |-> <<Ref("x1"), Ref("x2")>>, observations |-> <<Ref("o1"), Ref("o2")>>,
       evidence |-> <<Ref("e1"), Ref("e2")>>, findings |-> <<Ref("f1")>>, consents |-> <<"r1", "r2">>,
       log |-> LogRef, manifest |-> [id |-> "m", path |-> "manifest.json"], started |-> 2, ended |-> 6]>>,
   audit_passes |-> <<[Pass("p1", "Standard", "StandardUser", <<"x1">>, 2, 6) EXCEPT !.consents = <<"r1">>],
                      [Pass("p2", "Elevated", "Elevated", <<"x2">>, 0, 0) EXCEPT !.consents = <<"r2">>]>>,
   collector_definitions |-> <<Definition("d1", {"NetworkAccess"}), Definition("d2", {"Administrative"})>>,
   collector_executions |-> <<Execution("x1", "p1", "StandardUser", "d1", <<"o1">>, <<"r1">>),
                              Execution("x2", "p2", "Elevated", "d2", <<"o2">>, <<"r2">>)>>,
   observations |-> <<Observed("o1", "x1", <<"e1">>), Observed("o2", "x2", <<"e2">>)>>,
   evidence_references |-> <<Evidence("e1", "o1"), Evidence("e2", "o2")>>,
   findings |-> <<Object("f1") @@ [kind |-> "Security", observations |-> <<"o1">>, evidence |-> <<"e1">>, covers |-> "none",
      covered_state |-> "NotTested", rule |-> "u1", rule_version |-> 1, rule_digest |-> 1, detected |-> 5]>>,
   rule_definitions |-> <<Object("u1") @@ [version |-> 1, root |-> "a", maximum_depth |-> 2,
      predicates |-> <<[id |-> "a", children |-> <<"b">>], [id |-> "b", children |-> <<>>]>>]>>,
   consent_receipts |-> <<Receipt("r1", "NetworkAccess", "UseNetwork", "p1", "a1"),
      [Receipt("r2", "Administrative", "CollectPrivilegedReadOnly", "p2", "a2") EXCEPT !.collector = "d2"]>>,
   action_logs |-> <<[Object("log") EXCEPT !.path = "action-log.json"] @@ [created |-> 2]>>,
   actions |-> <<Action("a1", 0, "NetworkUse", "UseNetwork", "p1", "x1", <<"r1">>, [NoAuth EXCEPT !.NetworkAccess = "r1"]),
                 Action("a2", 1, "Elevation", "CollectPrivilegedReadOnly", "p2", "x2", <<"r2">>, [NoAuth EXCEPT !.Administrative = "r2"])>>,
   audit_manifests |-> <<[Object("m") EXCEPT !.path = "manifest.json"] @@
                         [log |-> LogRef, generated |-> 6, observed |-> TRUE, found |-> TRUE]>>,
   export_manifests |-> <<Object("out") @@ [source_digest |-> 1, profile |-> "q", profile_version |-> 1, profile_digest |-> 1,
      policy_digest |-> 1, entries |-> <<[source |-> "e1", source_path |-> "e1", path |-> "e1"]>>,
      omissions |-> <<[source |-> "e2", source_path |-> "e2"]>>, generated |-> 7]>>,
   redaction_profiles |-> <<Object("q") @@ [version |-> 1, policy |-> "y", policy_digest |-> 1,
      actions |-> [Public |-> "Redact"], rules |-> <<[field |-> "s", class |-> "Public", action |-> "Exclude"]>>]>>,
   reboot_continuation_states |-> <<Object("s1") @@ [issued |-> 1, expires |-> 9, consumed |-> FALSE, sequence |-> 1, nonce |-> "z",
      machine |-> 1, manifest_digest |-> 1]>>,
   opaque |-> <<[id |-> "raw", path |-> "raw", digest |-> 1]>>,
   loaded_collectors |-> <<Pin("d1"), Pin("d2")>>, loaded_rules |-> <<Pin("u1")>>, loaded_manifests |-> <<Pin("m")>>,
   loaded_profiles |-> <<Pin("q")>>, loaded_policies |-> <<Pin("y")>>,
   field_registry |-> <<[id |-> "s", class |-> "Public"]>>,
   capabilities |-> <<[id |-> "d1", version |-> 1, declared |-> {"C"}, root |-> "n", nodes |-> <<[id |-> "n", capabilities |-> {"C"}, children |-> <<>>]>>],
                      [id |-> "d2", version |-> 1, declared |-> {"C"}, root |-> "n", nodes |-> <<[id |-> "n", capabilities |-> {"C"}, children |-> <<>>]>>]>>,
   sizes |-> <<[zip_entries |-> 3]>>,
   context |-> <<[now |-> 8, nonces |-> {}, verified |-> {"s1"}, reboot_nonces |-> {}, minimum_sequence |-> 0, machine |-> 1]>>]

\* manifest.json lists every object and file; the index the same objects.
MemberKinds == <<"audit_runs", "audit_passes", "collector_definitions", "collector_executions", "observations", "evidence_references", "findings",
           "rule_definitions", "consent_receipts", "action_logs", "redaction_profiles", "reboot_continuation_states", "opaque">>
Listed(g) == FlattenSeq([k \in DOMAIN MemberKinds |-> [n \in DOMAIN g[MemberKinds[k]] |-> <<MemberKinds[k], n>>]])
EntryOf(g, m) == LET item == g[m[1]][m[2]] IN [id |-> item.path, role |-> m[1], path |-> item.path, file |-> item.digest]
IndexOf(g, m) == [kind |-> m[1], object |-> g[m[1]][m[2]].id] @@ EntryOf(g, m)
WithManifest(g) ==
  LET s == Listed(g) IN
  g @@ [entries |-> [n \in DOMAIN s |-> EntryOf(g, s[n])],
        membership |-> [n \in DOMAIN s |-> IndexOf(g, s[n])]]

\* The cross-object rules know no opaque members.
GraphBase == WithManifest([Objects EXCEPT !.opaque = <<>>])
PackageBase == WithManifest(Objects)
\* Two passes of one privilege, so that an execution can move from one to the other.
LinkBase ==
  WithManifest([Objects EXCEPT !.opaque = <<>>,
    !.audit_passes[2] = [@ EXCEPT !.kind = "RebootContinuation", !.privilege = "StandardUser"],
    !.audit_runs[1].passes[2] = PassRef("p2", "RebootContinuation", "StandardUser"),
    !.collector_executions[2].privilege = "StandardUser"])
\* Three passes, the third consented to and waiting for the second.
PassBase ==
  WithManifest([Objects EXCEPT !.opaque = <<>>,
    !.audit_passes = <<@[1], [@[2] EXCEPT !.prerequisites = <<"p1">>],
      [Pass("p3", "RebootContinuation", "Elevated", <<>>, 0, 0) EXCEPT !.prerequisites = <<"p2">>]>>,
    !.audit_runs[1].passes = Append(@, PassRef("p3", "RebootContinuation", "Elevated")),
    !.audit_runs[1].consents = Append(@, "r3"),
    !.consent_receipts = Append(@, [Receipt("r3", "Reboot", "PerformRebootContinuation", "p3", "a3") EXCEPT !.binds = {"reboot"}])])

Paths == {"run.json", "action-log.json", "manifest.json", "raw", "p1", "p2", "p3", "d1", "d2", "x1", "x2", "o1", "o2", "e1", "e2", "f1", "u1",
          "r1", "r2", "r3", "q", "s1"}
SizeLimits == [zip_entries |-> 4]

Lists(a, b) == {<<>>, <<a>>, <<b>>, <<a, b>>}
LinkValues ==
  [audit_passes |-> [executions |-> Lists("x1", "x2")],
   collector_executions |-> [id |-> {"x1"}, pass |-> {"p1", "p2"}, privilege |-> {"StandardUser", "Elevated"},
                             observations |-> Lists("o1", "o2")],
   observations |-> [execution |-> {"x1", "x2"}, evidence |-> Lists("e1", "e2"), run |-> {"other"}],
   evidence_references |-> [observation |-> {"o1", "o2"}, path |-> {"raw"}]]

Orders == {f \in [1..3 -> {"p1", "p2", "p3"}] : IsInjective(f)}
PassValues ==
  [audit_runs |-> [passes |-> {[n \in 1..3 |-> PassRef(o[n], k[n], IF o[n] = "p1" THEN "StandardUser" ELSE "Elevated")] :
     o \in Orders, k \in {"Standard"} \X {"Standard", "Elevated", "RebootContinuation", "PostReboot"}
                                  \X {"Elevated", "RebootContinuation", "PostReboot"}}],
   audit_passes |-> [kind |-> {"Elevated", "RebootContinuation", "PostReboot"},
                     prerequisites |-> {<<>>, <<"p1">>, <<"p2">>, <<"p3">>, <<"p1", "p2">>}],
   consent_receipts |-> [pass |-> {"p1", "p2", "p3"}]]

TimeValues ==
  [audit_runs |-> [started |-> {0, 4}, ended |-> {4, 8}],
   audit_passes |-> [started |-> {0, 3, 4}, ended |-> {4, 5}],
   collector_executions |-> [started |-> {2, 4}, ended |-> {4, 8}],
   observations |-> [observed |-> {3, 5, 8}],
   evidence_references |-> [captured |-> {3, 6, 7}],
   findings |-> [detected |-> {7}],
   actions |-> [at |-> {2, 7}],
   audit_manifests |-> [generated |-> {5, 8}],
   export_manifests |-> [generated |-> {5, 8}]]

Auth(r1, r2) == [NoAuth EXCEPT !.NetworkAccess = r1, !.Administrative = r2]
ConsentValues ==
  [consent_receipts |-> [type |-> {"NetworkAccess", "Administrative"}, operation |-> {"UseNetwork", "CollectPrivilegedReadOnly"},
                         pass |-> {"p1", "p2"}, action |-> {"a1", "a2"}, collector |-> {"d1", "d2"}, nonce |-> {"r1"}],
   collector_executions |-> [consents |-> {<<>>, <<"r1">>, <<"r2">>, <<"r1", "r2">>}, collector |-> {"d1", "d2"}],
   audit_passes |-> [consents |-> {<<>>, <<"r1">>, <<"r2">>, <<"r1", "r2">>}],
   actions |-> [consents |-> {<<"r1">>, <<"r2">>, <<"r1", "r2">>}, authorizes |-> {Auth("r1", "r2")}, pass |-> {"p1", "p2"},
                execution |-> {"none", "x1", "x2"}, operation |-> {"UseNetwork", "CollectPrivilegedReadOnly"}],
   context |-> [nonces |-> {{"r1"}}]]

Shown(id, path) == [source |-> id, source_path |-> path, path |-> id]
ExportValues ==
  [export_manifests |-> [entries |-> {<<Shown("e1", "e1"), Shown("o1", "o1")>>, <<Shown("e1", "o1")>>, <<Shown("raw", "raw")>>},
                         omissions |-> {<<[source |-> "e1", source_path |-> "e1"]>>, <<[source |-> "e2", source_path |-> "e1"]>>},
                         source_digest |-> {2}, policy_digest |-> {2}],
   audit_manifests |-> [digest |-> {2}],
   entries |-> [id |-> {"e1", "raw"}, path |-> {"e1", "raw"}],
   membership |-> [id |-> {"e1", "raw"}, path |-> {"e1", "raw"}, object |-> {"e1"}, kind |-> {"observations"}],
   loaded_manifests |-> [digest |-> {2}]]

PackageValues ==
  [audit_runs |-> [executions |-> {<<Ref("x1"), Ref("x1")>>, <<Ref("x1")>>}, observations |-> {<<Ref("o1"), Ref("o1")>>}],
   collector_executions |-> [digest |-> {2}],
   entries |-> [path |-> {"raw", "x1"}, file |-> {2}, role |-> {"opaque", "observations"}]]

-----------------------------------------------------------------------------
BaseOf(s) == CASE s = "links" -> LinkBase [] s = "passes" -> PassBase [] s = "package" -> PackageBase [] OTHER -> GraphBase
ValuesOf(s) ==
  CASE s = "links" -> LinkValues [] s = "passes" -> PassValues [] s = "times" -> TimeValues
    [] s = "consents" -> ConsentValues [] s = "export" -> ExportValues [] s = "package" -> PackageValues
RemovableOf(s) ==
  CASE s = "links" -> {"evidence_references"} [] s = "consents" -> {"consent_receipts"}
    [] s = "export" -> {"membership"} [] OTHER -> {}
MutationsOf(s) == IF s \in {"links", "times", "consents"} THEN 3 ELSE IF s = "package" THEN 1 ELSE 2
=============================================================================
