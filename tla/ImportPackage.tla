----------------------------- MODULE ImportPackage -----------------------------
(***************************************************************************)
(* What the import accepts as an audit package (prepareAuditPackage and    *)
(* finalizeAuditPackage in src/src/import/import-manifest.mjs) and what the *)
(* application rules say of the passes of a run (validatePassGraph in      *)
(* src/tools/lib/application-rules.mjs), over the graphs of CrossObject.   *)
(*                                                                         *)
(* The members of the archive are the objects of the graph, each stored at *)
(* its field path, and the opaque files; "entries" is what manifest.json   *)
(* lists.  The canonical path of an object is written as its identity.     *)
(* The directory of the archive is modelled in ImportZip.                  *)
(***************************************************************************)
EXTENDS CrossObject

\* An export is made from a package and is not a member of it.
Contracts == Identified \ {"audit_manifests", "export_manifests"}
Members(g) == UNION {{c} \X (DOMAIN g[c]) : c \in Contracts \cup {"opaque"}}
Member(g, m) == g[m[1]][m[2]]

Rank == [Standard |-> 0, Elevated |-> 1, RebootContinuation |-> 2, PostReboot |-> 3]

-----------------------------------------------------------------------------
(* prepareAuditPackage: manifest.json lists exactly the other members      *)

Described(g) ==
  /\ \A e \in All(g.entries) : \E m \in Members(g) :
       /\ Member(g, m).path = e.path /\ e.file = Member(g, m).digest
       /\ e.role = m[1]
  /\ \A m \in Members(g) : Member(g, m).path \in ToSet(Fields(g.entries, "path"))

Prepared(g) ==
  /\ \A m1, m2 \in Members(g) : Member(g, m1).path = Member(g, m2).path => m1 = m2
  /\ Distinct(Fields(g.entries, "id")) /\ Distinct(Fields(g.entries, "path"))
  /\ \A e \in All(g.entries) : e.path \in CanonicalPaths \ {"manifest.json"}
  /\ Described(g)

-----------------------------------------------------------------------------
(* finalizeAuditPackage                                                    *)

\* exactIds: as many references as objects, each to one of them.
ExactIds(items, ids) ==
  /\ Distinct(Fields(items, "id"))
  /\ Len(ids) = Len(items) /\ ToSet(ids) \subseteq ToSet(Fields(items, "id"))

ObjectReferences(items, references) ==
  /\ ExactIds(items, Fields(references, "id"))
  /\ \A r \in All(references) : The(items, "id", r.id).digest = r.digest

RolePaths(g) ==
  /\ \A c \in {"audit_passes", "collector_executions", "observations", "evidence_references", "findings"} :
       \A item \in All(g[c]) : item.path = item.id
  /\ \A item \in All(g.audit_runs) : item.path = "run.json"
  /\ \A item \in All(g.action_logs) : item.path = "action-log.json"

NotBefore(passes) == \A n \in DOMAIN passes : n > 1 => Rank[passes[n - 1].kind] <= Rank[passes[n].kind]
KindOrder(passes) ==
  /\ passes[1].kind = "Standard" /\ \A n \in 2..Len(passes) : passes[n].kind # "Standard"
  /\ Distinct(Fields(passes, "kind"))
  /\ NotBefore(passes)

Prerequisites(passes, n) ==
  \A id \in ToSet(passes[n].prerequisites) : \E m \in 1..(n - 1) : passes[m].id = id

\* The passes of a run in the order of its references.
Passes(g) == LET refs == g.audit_runs[1].passes IN [n \in DOMAIN refs |-> The(g.audit_passes, "id", refs[n].id)]
PassesValid(g) ==
  LET refs == g.audit_runs[1].passes IN
  /\ ExactIds(g.audit_passes, Fields(refs, "id"))
  /\ KindOrder(Passes(g))
  /\ \A n \in DOMAIN refs :
       LET p == Passes(g)[n]
       IN  <<p.kind, p.privilege, p.path, p.digest>> = <<refs[n].kind, refs[n].privilege, refs[n].path, refs[n].digest>>
           /\ Prerequisites(Passes(g), n)

\* Both directions of every link.
LinksDown(g) ==
  /\ \A x \in All(g.collector_executions) : \A id \in ToSet(x.observations) :
       One(g.observations, "id", id) /\ The(g.observations, "id", id).execution = x.id
  /\ \A o \in All(g.observations) : \A id \in ToSet(o.evidence) :
       One(g.evidence_references, "id", id) /\ The(g.evidence_references, "id", id).observation = o.id
Linked(g) ==
  /\ LinksDown(g)
  /\ \A o \in All(g.observations) :
       /\ o.execution \in ToSet(Fields(g.collector_executions, "id"))
       /\ Once(The(g.collector_executions, "id", o.execution).observations, o.id)
  /\ \A e \in All(g.evidence_references) :
       /\ e.observation \in ToSet(Fields(g.observations, "id"))
       /\ Once(The(g.observations, "id", e.observation).evidence, e.id)

Owned(g) ==
  /\ \A p, q \in All(g.audit_passes) : p # q => ToSet(p.executions) \cap ToSet(q.executions) = {}
  /\ \A p \in All(g.audit_passes) :
       Distinct(p.executions) /\ ToSet(p.executions) \subseteq ToSet(Fields(g.collector_executions, "id"))
  /\ \A x \in All(g.collector_executions) : \E p \in All(g.audit_passes) :
       /\ x.id \in ToSet(p.executions) /\ p.id = x.pass /\ p.privilege = x.privilege
       /\ Pinned(g.collector_definitions, x.collector, x.collector_version, x.collector_digest)

GraphLinks(g) ==
  /\ \A c \in {"collector_executions", "observations", "evidence_references", "findings",
               "collector_definitions", "rule_definitions"} : Distinct(Fields(g[c], "id"))
  /\ Owned(g) /\ Linked(g)
  /\ \A f \in All(g.findings) :
       /\ Pinned(g.rule_definitions, f.rule, f.rule_version, f.rule_digest)
       /\ ToSet(f.observations) \subseteq ToSet(Fields(g.observations, "id"))
       /\ ToSet(f.evidence) \subseteq ToSet(Fields(g.evidence_references, "id"))
  /\ LET run == g.audit_runs[1]
     IN  /\ ObjectReferences(g.collector_executions, run.executions)
         /\ ObjectReferences(g.observations, run.observations)
         /\ ObjectReferences(g.evidence_references, run.evidence)
         /\ ObjectReferences(g.findings, run.findings)

Finalized(g) ==
  /\ \A c \in Contracts : \A item \in All(g[c]) : item.sealed
  /\ RolePaths(g) /\ Len(g.audit_runs) = 1 /\ Len(g.action_logs) = 1
  /\ LET run == g.audit_runs[1]
         log == g.action_logs[1]
         manifest == g.audit_manifests[1]
     IN  /\ manifest.run = run.id /\ log.run = run.id
         /\ \A c \in OfRun \cap Contracts : \A item \in All(g[c]) : item.run = run.id
         /\ run.manifest = [id |-> manifest.id, path |-> "manifest.json"]
         /\ run.log = [id |-> log.id, path |-> log.path, digest |-> log.digest] /\ manifest.log = run.log
         /\ manifest.observed = manifest.found
         /\ PassesValid(g) /\ GraphLinks(g)
         /\ ExactIds(g.consent_receipts, run.consents)
         /\ \A a \in All(g.actions) : a.run = run.id

Imported(g) == Prepared(g) /\ Finalized(g)

-----------------------------------------------------------------------------
(* validatePassGraph of the application rules                              *)

HasConsent(g, p, type) == \E r \in All(g.consent_receipts) : r.type = type /\ r.run = RunId /\ r.pass = p.id
Continued(g) ==
  \A p \in All(g.audit_passes) :
    /\ p.kind = "Elevated" => HasConsent(g, p, "Administrative")
    /\ p.kind = "RebootContinuation" => HasConsent(g, p, "Reboot")
    /\ p.kind = "PostReboot" => \E q \in All(g.audit_passes) : q.id \in ToSet(p.prerequisites) /\ q.kind = "RebootContinuation"

PassGraphValid(g) ==
  LET passes == g.audit_passes
      order == Fields(g.audit_runs[1].passes, "id")
  IN  /\ Cardinality(Having(passes, "kind", "Standard")) = 1
      /\ Distinct(Fields(passes, "id")) /\ Distinct(Fields(passes, "kind"))
      /\ order = Fields(passes, "id") /\ passes[1].kind = "Standard" /\ NotBefore(passes)
      /\ \A x \in All(g.collector_executions) :
           One(passes, "id", x.pass) /\ The(passes, "id", x.pass).privilege = x.privilege
      /\ \A n \in DOMAIN passes : \A id \in ToSet(passes[n].prerequisites) : \E m \in 1..(n - 1) : order[m] = id
      /\ Continued(g)
=============================================================================
