------------------------------ MODULE CrossObject ------------------------------
(***************************************************************************)
(* The cross-object rules XOBJ-001 .. XOBJ-018 of                          *)
(* src/tools/lib/xobj-rules.mjs over one materialized graph.               *)
(*                                                                         *)
(* A graph is a record of collections, each a sequence of records; an      *)
(* object's identity is its field id and the run it names its field run,   *)
(* whatever the contract calls them.  A digest is a number, the version of *)
(* what it is the digest of; a time is a number and 0 is an absent one;    *)
(* "none" is an absent reference.  The entries of the one action log are   *)
(* the collection actions.  XOBJ-012 is modelled in ActionLog.  A receipt  *)
(* has one collector field for its collector, related or planning binding, *)
(* and one set for capabilities and privacy classes; an action has one     *)
(* subject for what its authorization refers to; the three digests a       *)
(* continuation state expects are one, machine.                            *)
(***************************************************************************)
EXTENDS Naturals, FiniteSets, SequencesExt

CONSTANTS RunId, CanonicalPaths, Limits, MaxPredicates, MaxChildren, MaxDepth

Identified == {"audit_runs", "audit_passes", "collector_definitions", "collector_executions", "observations",
  "evidence_references", "findings", "consent_receipts", "action_logs", "audit_manifests", "export_manifests",
  "redaction_profiles", "reboot_continuation_states", "rule_definitions"}
OfRun == Identified \ {"audit_runs", "collector_definitions", "redaction_profiles", "rule_definitions"}

All(items) == ToSet(items)
Having(items, field, value) == {n \in DOMAIN items : items[n][field] = value}
One(items, field, value)    == Cardinality(Having(items, field, value)) = 1
The(items, field, value)    == items[CHOOSE n \in Having(items, field, value) : TRUE]
Once(ids, id)               == Cardinality({n \in DOMAIN ids : ids[n] = id}) = 1
Fields(items, field)        == [n \in DOMAIN items |-> items[n][field]]
Distinct(s)                 == IsInjective(s)
Pinned(items, id, version, digest) ==
  \E n \in DOMAIN items :
    /\ items[n].id = id /\ items[n].version = version /\ items[n].digest = digest
    /\ \A m \in 1..(n - 1) : ~(items[m].id = id /\ items[m].version = version)
Interval(first, last) == 0 < first /\ first <= last

-----------------------------------------------------------------------------
\* Plausible faults, used only to show that the properties can fail.
OneSided(g) ==
  \A o \in All(g.observations) :
    /\ One(g.collector_executions, "id", o.execution)
    /\ The(g.collector_executions, "id", o.execution).state \in {"Succeeded", "Partial"}
    /\ Once(The(g.collector_executions, "id", o.execution).observations, o.id)
AnyExecution(g, r, a, d) ==
  LET used == {x \in All(g.collector_executions) : r.id \in ToSet(x.consents)}
  IN  used # {} /\ \A x \in used : x.collector = d.id /\ x.collector_digest = d.digest
-----------------------------------------------------------------------------
(* XOBJ-001 .. XOBJ-007: identities, ownership, reciprocity and pins       *)

Rule1(g) ==
  /\ Len(g.audit_runs) = 1 /\ g.audit_runs[1].id = RunId
  /\ \A c \in OfRun : \A item \in All(g[c]) : item.run = RunId

Rule2(g) ==
  /\ \A c \in Identified : Distinct(Fields(g[c], "id"))
  /\ \A x \in All(g.collector_executions) :
       \E p \in All(g.audit_passes) :
         /\ {q \in All(g.audit_passes) : x.id \in ToSet(q.executions)} = {p}
         /\ p.id = x.pass /\ p.privilege = x.privilege

Reciprocal(g) ==
  /\ OneSided(g)
  /\ \A x \in All(g.collector_executions) : \A id \in ToSet(x.observations) :
       One(g.observations, "id", id) /\ The(g.observations, "id", id).execution = x.id
Rule3(g) == Reciprocal(g)

Rule4(g) ==
  /\ \A e \in All(g.evidence_references) :
       One(g.observations, "id", e.observation) /\ Once(The(g.observations, "id", e.observation).evidence, e.id)
  /\ \A o \in All(g.observations) : \A id \in ToSet(o.evidence) :
       One(g.evidence_references, "id", id) /\ The(g.evidence_references, "id", id).observation = o.id

Untested == {"NotTested", "BackendNotFound", "ConsentDenied", "PolicyRejected"}
Rule5(g) ==
  \A f \in All(g.findings) :
    \/ /\ f.kind = "Security" /\ f.observations # <<>> /\ f.covers = "none"
       /\ \A id \in ToSet(f.observations) : One(g.observations, "id", id)
       /\ \A id \in ToSet(f.evidence) :
            One(g.evidence_references, "id", id)
            /\ The(g.evidence_references, "id", id).observation \in ToSet(f.observations)
    \/ /\ f.kind = "Coverage" /\ f.observations = <<>> /\ f.evidence = <<>>
       /\ One(g.collector_executions, "id", f.covers)
       /\ The(g.collector_executions, "id", f.covers).state = f.covered_state /\ f.covered_state \in Untested

Rule6(g) ==
  \A x \in All(g.collector_executions) :
    /\ Pinned(g.collector_definitions, x.collector, x.collector_version, x.collector_digest)
    /\ Pinned(g.loaded_collectors, x.collector, x.collector_version, x.collector_digest)
Rule7(g) ==
  \A f \in All(g.findings) :
    /\ Pinned(g.rule_definitions, f.rule, f.rule_version, f.rule_digest)
    /\ Pinned(g.loaded_rules, f.rule, f.rule_version, f.rule_digest)

-----------------------------------------------------------------------------
(* XOBJ-008 and XOBJ-009: what the manifest lists, what an export shows    *)

\* What the run refers to, by the collection it must be found in.
Referenced(run) ==
  {<<"audit_runs", run.id>>, <<"action_logs", run.log.id>>}
  \cup {<<"audit_passes", r.id>> : r \in All(run.passes)}
  \cup {<<"collector_executions", r.id>> : r \in All(run.executions)}
  \cup {<<"observations", r.id>> : r \in All(run.observations)}
  \cup {<<"evidence_references", r.id>> : r \in All(run.evidence)}
  \cup {<<"findings", r.id>> : r \in All(run.findings)}
  \cup {<<"consent_receipts", id>> : id \in ToSet(run.consents)}

Key(item) == <<item.role, item.id, item.path>>
Keys(items) == [k \in {Key(item) : item \in All(items)} |-> Cardinality({n \in DOMAIN items : Key(items[n]) = k})]
Rule8(g) ==
  /\ Len(g.audit_manifests) = 1 /\ Len(g.action_logs) = 1
  /\ Keys(g.entries) = Keys(g.membership) /\ Distinct(Fields(g.entries, "id"))
  /\ \A m \in All(g.membership) : m.kind \in Identified \ {"audit_manifests", "export_manifests"} /\ m.role = m.kind /\ One(g[m.kind], "id", m.object)
  /\ \A r \in Referenced(g.audit_runs[1]) : \E m \in All(g.membership) : <<m.kind, m.object>> = r
  /\ LET log == g.action_logs[1]
         ref == g.audit_manifests[1].log
     IN  ref = [id |-> log.id, path |-> g.audit_runs[1].log.path, digest |-> log.digest]

Sources(g, e) ==
  \A s \in All(e.entries) \cup All(e.omissions) :
    \E m \in All(g.entries) : m.id = s.source /\ m.path = s.source_path
Rule9(g) ==
  /\ Len(g.export_manifests) = 1 /\ Len(g.audit_manifests) = 1 /\ Len(g.redaction_profiles) = 1
  /\ LET e == g.export_manifests[1]
         source == g.audit_manifests[1]
         profile == g.redaction_profiles[1]
     IN  /\ e.source_digest = source.digest
         /\ Pinned(g.loaded_manifests, source.id, 1, source.digest)
         /\ <<e.profile, e.profile_version, e.profile_digest>> = <<profile.id, profile.version, profile.digest>>
         /\ Pinned(g.loaded_profiles, profile.id, profile.version, profile.digest)
         /\ e.policy_digest = profile.policy_digest
         /\ Pinned(g.loaded_policies, profile.policy, 1, profile.policy_digest)
         /\ Sources(g, e)
         /\ {s.source : s \in All(e.entries)} \cap {s.source : s \in All(e.omissions)} = {}

-----------------------------------------------------------------------------
(* XOBJ-010: containment of times                                          *)

ExecutionTimes(g, x) ==
  LET run == g.audit_runs[1]
  IN  x.started > 0 =>
        /\ Interval(x.started, x.ended) /\ run.started <= x.started /\ x.ended <= run.ended
        /\ One(g.audit_passes, "id", x.pass) =>
             LET p == The(g.audit_passes, "id", x.pass)
             IN  p.started > 0 => p.started <= x.started /\ x.ended <= p.ended

Rule10(g) ==
  LET run == g.audit_runs[1]
      during(t) == run.started <= t /\ t <= run.ended
  IN  /\ Interval(run.started, run.ended)
      /\ \A p \in All(g.audit_passes) : p.started > 0 => Interval(p.started, p.ended) /\ during(p.started) /\ during(p.ended)
      /\ \A x \in All(g.collector_executions) : ExecutionTimes(g, x)
      /\ \A o \in All(g.observations) :
           /\ o.observed > 0 /\ during(o.observed) /\ One(g.collector_executions, "id", o.execution)
           /\ LET x == The(g.collector_executions, "id", o.execution)
              IN  0 < x.started /\ x.started <= o.observed /\ (x.ended > 0 => o.observed <= x.ended)
      /\ \A e \in All(g.evidence_references) :
           /\ One(g.observations, "id", e.observation)
           /\ The(g.observations, "id", e.observation).observed <= e.captured /\ e.captured <= run.ended
      /\ \A f \in All(g.findings) : during(f.detected)
      /\ \A r \in All(g.consent_receipts) : Interval(r.presented, r.accepted) /\ r.accepted <= r.expires
      /\ \A a \in All(g.actions) : during(a.at) /\ g.action_logs[1].created <= a.at
      /\ \A n, m \in DOMAIN g.actions :
           LET a == g.actions[n]
               b == g.actions[m]
           IN  a.number < b.number \/ (a.number = b.number /\ n < m) => a.at <= b.at
      /\ g.audit_manifests # <<>> /\ run.ended <= g.audit_manifests[1].generated
      /\ \A e \in All(g.export_manifests) : g.audit_manifests[1].generated <= e.generated
      /\ \A s \in All(g.reboot_continuation_states) : Interval(s.issued, s.expires)

-----------------------------------------------------------------------------
(* XOBJ-011: the scope of a consent receipt                                *)

CollectorTypes == {"Administrative", "NetworkAccess", "DefenderScan", "DefenderOffline", "MemoryAcquisition",
                   "SensitiveDataCollection"}
Operations ==
  [Administrative |-> {"CollectPrivilegedReadOnly"}, NetworkAccess |-> {"UseNetwork", "OnlineLookup"},
   DefenderScan |-> {"RunDefenderScan"}, DefenderOffline |-> {"ScheduleDefenderOffline", "PerformDefenderOffline"},
   MemoryAcquisition |-> {"AcquireMemory"}, SensitiveDataCollection |-> {"CollectSensitiveData"},
   Export |-> {"Export"}, Remediation |-> {"Remediate"},
   Reboot |-> {"ScheduleRebootContinuation", "PerformRebootContinuation"}]

\* SensitiveDataCollection alone has no authorization field in the log, and two types share one.
AuthorizationField(type) == IF type = "DefenderOffline" THEN "Reboot" ELSE type
Authorized(a, r) == r.type = "SensitiveDataCollection" \/ a.authorizes[AuthorizationField(r.type)] = r.id

LoadedCollector(g, id, digest, d) ==
  /\ d \in All(g.collector_definitions) /\ d.id = id /\ d.digest = digest
  /\ \E l \in All(g.loaded_collectors) : l.id = id /\ l.digest = digest

\* The pass a receipt is bound to; "none" when it is bound to none and no pass refers to it.
BoundPass(g, r, a, pass) ==
  LET referring == {p.id : p \in {q \in All(g.audit_passes) : r.id \in ToSet(q.consents)}}
  IN  /\ (r.pass = "none") = (a.pass = "none")
      /\ IF r.pass = "none" THEN referring = {} /\ pass = "none"
         ELSE One(g.audit_passes, "id", r.pass) /\ a.pass = r.pass /\ referring = {r.pass} /\ pass = r.pass

BoundExecution(g, r, a, d) ==
  LET used == {x \in All(g.collector_executions) : r.id \in ToSet(x.consents)}
  IN  \E x \in used :
        /\ used = {x} /\ x.collector = d.id /\ x.collector_digest = d.digest /\ BoundPass(g, r, a, x.pass)
        /\ a.execution \in {"none", x.id}

Unused(g, r) == \A x \in All(g.collector_executions) : r.id \notin ToSet(x.consents)

FindingUses(g, f, d) ==
  LET by == (IF f.kind = "Coverage" THEN {f.covers} ELSE {})
            \cup {o.execution : o \in {p \in All(g.observations) : p.id \in ToSet(f.observations) /\ One(g.observations, "id", p.id)}}
  IN  \E x \in All(g.collector_executions) : x.id \in by /\ x.collector = d.id /\ x.collector_digest = d.digest

CollectorConsent(g, r, a) ==
  \E d \in All(g.collector_definitions) :
    /\ LoadedCollector(g, r.collector, r.collector_digest, d) /\ r.binds = {"collector"}
    /\ r.pass # "none" /\ BoundExecution(g, r, a, d)
    /\ r.type \in d.consents /\ d.capabilities \subseteq r.approved

ExportConsent(g, r, a) ==
  /\ r.binds = {"export"} /\ r.pass = "none" /\ a.type = "Export" /\ Unused(g, r)
  /\ \A p \in All(g.audit_passes) : r.id \notin ToSet(p.consents)
  /\ One(g.export_manifests, "id", r.export)
  /\ LET e == The(g.export_manifests, "id", r.export)
     IN  /\ e.run = RunId /\ r.profile_digest = e.profile_digest
         /\ Pinned(g.redaction_profiles, e.profile, e.profile_version, r.profile_digest)
         /\ Pinned(g.loaded_profiles, e.profile, e.profile_version, r.profile_digest)
         /\ a.profile_digest = r.profile_digest /\ a.subject = r.target

RemediationConsent(g, r, a) ==
  /\ r.binds = {"action"} /\ a.type = "Remediation" /\ r.remedy = r.action /\ r.remedy = a.id
  /\ r.remedy_target = r.target /\ a.subject = r.target /\ Unused(g, r)
  /\ \E p \in {"none"} \cup {q.id : q \in All(g.audit_passes)} : BoundPass(g, r, a, p)
  /\ r.finding # "none" =>
       /\ One(g.findings, "id", r.finding)
       /\ r.collector # "none" => \E d \in All(g.collector_definitions) :
            LoadedCollector(g, r.collector, r.collector_digest, d) /\ FindingUses(g, The(g.findings, "id", r.finding), d)

RebootConsent(g, r, a) ==
  /\ r.binds = {"reboot"} /\ a.type = "Reboot" /\ r.workflow = r.target /\ a.subject = r.target /\ Unused(g, r)
  /\ \E p \in {"none"} \cup {q.id : q \in All(g.audit_passes)} : BoundPass(g, r, a, p)
  /\ r.stage \in (IF r.operation = "ScheduleRebootContinuation" THEN {"Schedule"} ELSE {"Perform", "Continue"})
  /\ r.stage = "Schedule" => a.next_stage = "RebootContinuation"
  /\ r.collector # "none" => \E d \in All(g.collector_definitions), x \in All(g.collector_executions) :
       /\ LoadedCollector(g, r.collector, r.collector_digest, d)
       /\ x.collector = d.id /\ x.collector_digest = d.digest /\ x.pass = r.pass

InScope(g, r) ==
  LET c == g.context[1]
      using == {a \in All(g.actions) : r.id \in ToSet(a.consents)}
  IN  /\ r.operation \in Operations[r.type] /\ r.run = RunId /\ r.state = "Active" /\ c.now < r.expires
      /\ r.nonce \notin c.nonces /\ r.single_use /\ r.approved \subseteq r.requested
      /\ Once(g.audit_runs[1].consents, r.id) /\ One(g.actions, "id", r.action)
      /\ LET a == The(g.actions, "id", r.action)
         IN  /\ using = {a} /\ Once(a.consents, r.id) /\ a.run = RunId
             /\ <<a.purpose, a.operation, a.target>> = <<r.purpose, r.operation, r.target>> /\ Authorized(a, r)
             /\ CASE r.type \in CollectorTypes -> CollectorConsent(g, r, a)
                  [] r.type = "Export" -> ExportConsent(g, r, a)
                  [] r.type = "Remediation" -> RemediationConsent(g, r, a)
                  [] r.type = "Reboot" -> RebootConsent(g, r, a)

Rule11(g) ==
  /\ Distinct(Fields(g.consent_receipts, "id")) /\ Distinct(Fields(g.consent_receipts, "nonce"))
  /\ \A r \in All(g.consent_receipts) : InScope(g, r)
  /\ \A x \in All(g.collector_executions) :
       \E d \in All(g.collector_definitions) :
         /\ d.id = x.collector /\ d.version = x.collector_version
         /\ \A type \in d.consents \cap CollectorTypes :
              \E r \in All(g.consent_receipts) : r.id \in ToSet(x.consents) /\ r.type = type

Rule12(g) == \A log \in All(g.action_logs) : log.sealed

Rule13(g) ==
  \A s \in All(g.reboot_continuation_states) :
    LET c == g.context[1] IN
    /\ s.id \in c.verified /\ s.run = RunId /\ ~s.consumed /\ c.now < s.expires
    /\ c.minimum_sequence < s.sequence /\ s.nonce \notin c.reboot_nonces
    /\ s.machine = c.machine /\ s.manifest_digest = g.audit_manifests[1].digest

-----------------------------------------------------------------------------
(* XOBJ-014 .. XOBJ-018: bounded expressions, redaction, paths and sizes   *)

Children(nodes, id) == ToSet(The(nodes, "id", id).children)
Within(nodes, root) ==
  LET level[k \in 0..Len(nodes)] == IF k = 0 THEN {root} ELSE UNION {Children(nodes, id) : id \in level[k - 1]}
  IN  level

\* What the memoized search finds: all nodes reached, no cycle, no path of more than depth nodes.
BoundedTree(nodes, root, depth) ==
  /\ Distinct(Fields(nodes, "id")) /\ root \in ToSet(Fields(nodes, "id"))
  /\ \A n \in All(nodes) : ToSet(n.children) \subseteq ToSet(Fields(nodes, "id"))
  /\ LET level == Within(nodes, root)
     IN  /\ level[IF depth < Len(nodes) THEN depth ELSE Len(nodes)] = {}
         /\ UNION {level[k] : k \in 0..Len(nodes)} = ToSet(Fields(nodes, "id"))

Rule14(g) ==
  \A r \in All(g.rule_definitions) :
    /\ Len(r.predicates) \in 1..MaxPredicates /\ \A p \in All(r.predicates) : Len(p.children) <= MaxChildren
    /\ BoundedTree(r.predicates, r.root, IF r.maximum_depth < MaxDepth THEN r.maximum_depth ELSE MaxDepth)

Allowed == [Include |-> {"Include", "Redact", "Hash", "Exclude"}, Redact |-> {"Redact", "Exclude"},
            Hash |-> {"Hash", "Exclude"}, Exclude |-> {"Exclude"}]
Rule15(g) ==
  /\ Distinct(Fields(g.field_registry, "id"))
  /\ \A p \in All(g.redaction_profiles) :
       /\ Distinct(Fields(p.rules, "field"))
       /\ \A r \in All(p.rules) :
            /\ \E f \in All(g.field_registry) : f.id = r.field /\ f.class = r.class
            /\ r.action \in Allowed[p.actions[r.class]]

PathSet(paths) == Distinct(paths) /\ ToSet(paths) \subseteq CanonicalPaths
Rule16(g) ==
  /\ PathSet(Fields(g.entries, "path")) /\ PathSet(Fields(g.membership, "path"))
  /\ \A e \in All(g.export_manifests) : PathSet(Fields(e.entries, "path"))
  /\ \A run \in All(g.audit_runs) : {r.path : r \in All(run.passes)} \cup {run.log.path, run.manifest.path} \subseteq CanonicalPaths
  /\ \A e \in All(g.evidence_references) : e.path \in CanonicalPaths

Rule17(g) == \A k \in DOMAIN Limits : g.sizes[1][k] \in 0..Limits[k]

Rule18(g) ==
  \A d \in All(g.collector_definitions) :
    \E c \in All(g.capabilities) :
      /\ c.id = d.id /\ c.version = d.version /\ c.declared = d.capabilities /\ Len(c.nodes) <= MaxPredicates
      /\ \A n \in All(c.nodes) : n.capabilities \subseteq d.capabilities
      /\ BoundedTree(c.nodes, c.root, MaxDepth)

Rule(k, g) ==
  CASE k = 1 -> Rule1(g) [] k = 2 -> Rule2(g) [] k = 3 -> Rule3(g) [] k = 4 -> Rule4(g) [] k = 5 -> Rule5(g)
    [] k = 6 -> Rule6(g) [] k = 7 -> Rule7(g) [] k = 8 -> Rule8(g) [] k = 9 -> Rule9(g) [] k = 10 -> Rule10(g)
    [] k = 11 -> Rule11(g) [] k = 12 -> Rule12(g) [] k = 13 -> Rule13(g) [] k = 14 -> Rule14(g)
    [] k = 15 -> Rule15(g) [] k = 16 -> Rule16(g) [] k = 17 -> Rule17(g) [] k = 18 -> Rule18(g)

\* The rules passed in numeric order before the first that fails.
Through(g) == CHOOSE k \in 0..18 : (k = 18 \/ ~Rule(k + 1, g)) /\ \A j \in 1..k : Rule(j, g)
=============================================================================
