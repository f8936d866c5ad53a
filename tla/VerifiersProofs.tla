---------------------------- MODULE VerifiersProofs ----------------------------
(***************************************************************************)
(* What the verifiers of MCVerifiers promise of graphs, action logs and    *)
(* sorted lists, proved for any scenarios, mutations, logs and rows that   *)
(* have the form the schemas let through (FormAssumption,                  *)
(* UnreadAssumption, LogAssumption, ListAssumption).  VerifierInv is the   *)
(* inductive invariant: the graph stays formed, a verdict is that of the   *)
(* graph it is kept with, and so for a log.  What is defined step by step  *)
(* (Behind, Back, the value of a fraction) is unrolled by the least        *)
(* number at which it could go wrong.                                      *)
(***************************************************************************)
EXTENDS MCVerifiers, FiniteSetTheorems, SequenceTheorems, WellFoundedInduction, TLAPS

\* Every collection is a list of objects whose lists are lists and whose times are numbers.
FormedGraph(g) ==
  \A c \in Collections :
    c \in DOMAIN g /\ IsList(g[c]) /\ \A n \in DOMAIN g[c] : Formed(c, g[c][n])

\* A list is the sequence of its own items.
LEMMA SequenceIsList ==
  ASSUME NEW S, NEW s \in Seq(S)
  PROVE  IsList(s)
BY DEF IsList, ToSet

\* A list has positions from one on, finitely many.
LEMMA ListDomain ==
  ASSUME NEW s, IsList(s)
  PROVE  /\ Len(s) \in Nat /\ DOMAIN s = 1..Len(s) /\ IsFiniteSet(DOMAIN s)
<1>1. Len(s) \in Nat /\ DOMAIN s = 1..Len(s)
  BY DEF IsList
<1>2. QED BY <1>1, FS_Interval

\* Exactly one item has the value.
LEMMA OneItem ==
  ASSUME NEW s, IsList(s), NEW f, NEW v
  PROVE  One(s, f, v) <=> \E n \in DOMAIN s : Having(s, f, v) = {n}
<1>1. Having(s, f, v) \in SUBSET DOMAIN s
  BY DEF Having
<1>2. IsFiniteSet(Having(s, f, v))
  BY <1>1, ListDomain, FS_Subset
<1>3. Cardinality(Having(s, f, v)) = 1 <=> \E n : Having(s, f, v) = {n}
  BY <1>2, FS_Singleton
<1>4. QED BY <1>1, <1>3 DEF One

\* It is the one found.
LEMMA OneIsFound ==
  ASSUME NEW s, IsList(s), NEW f, NEW v, One(s, f, v), NEW n \in DOMAIN s, s[n][f] = v
  PROVE  The(s, f, v) = s[n] /\ \A m \in DOMAIN s : s[m][f] = v => m = n
<1>1. Having(s, f, v) = {n}
  <2>1. n \in Having(s, f, v)
    BY DEF Having
  <2>2. QED BY <2>1, OneItem
<1>2. (CHOOSE m \in Having(s, f, v) : TRUE) = n
  BY <1>1
<1>3. \A m \in DOMAIN s : s[m][f] = v => m = n
  BY <1>1 DEF Having
<1>4. QED BY <1>2, <1>3 DEF The

\* What occurs once can be found.
LEMMA TheIsOne ==
  ASSUME NEW s, IsList(s), NEW f, NEW v, One(s, f, v)
  PROVE  \E n \in DOMAIN s : The(s, f, v) = s[n] /\ s[n][f] = v
<1>1. PICK n \in DOMAIN s : Having(s, f, v) = {n}
  BY OneItem
<1>2. s[n][f] = v
  BY <1>1 DEF Having
<1>3. QED BY <1>2, OneIsFound

\* Where values are distinct, a value that occurs occurs once.
LEMMA DistinctOne ==
  ASSUME NEW s, IsList(s), NEW f, Distinct(Fields(s, f)), NEW n \in DOMAIN s
  PROVE  One(s, f, s[n][f])
<1>1. Having(s, f, s[n][f]) = {n}
  BY DEF Having, Distinct, IsInjective, Fields
<1>2. QED BY <1>1, OneItem

\* What occurs once in a list is in it.
LEMMA OnceIn ==
  ASSUME NEW s, IsList(s), NEW v, Once(s, v)
  PROVE  v \in ToSet(s)
<1> DEFINE H == {n \in DOMAIN s : s[n] = v}
<1>1. H \in SUBSET DOMAIN s
  OBVIOUS
<1>2. IsFiniteSet(H)
  BY <1>1, ListDomain, FS_Subset
<1>3. \E n : H = {n}
  BY <1>2, FS_Singleton DEF Once
<1>4. QED BY <1>3 DEF ToSet

-----------------------------------------------------------------------------
\* A formed value in place of another.
LEMMA ReplaceForms ==
  ASSUME NEW g, FormedGraph(g), NEW c, NEW n \in DOMAIN g[c], NEW f, NEW v,
         c \in Collections => FieldFormed(c, f, v)
  PROVE  FormedGraph([g EXCEPT ![c][n][f] = v])
<1> DEFINE h == [g EXCEPT ![c][n][f] = v]
<1>1. SUFFICES ASSUME NEW d \in Collections
      PROVE  d \in DOMAIN h /\ IsList(h[d]) /\ \A m \in DOMAIN h[d] : Formed(d, h[d][m])
  BY DEF FormedGraph
<1>2. d \in DOMAIN g /\ IsList(g[d]) /\ \A m \in DOMAIN g[d] : Formed(d, g[d][m])
  BY DEF FormedGraph
<1>3. d \in DOMAIN h
  BY <1>2
<1>4. CASE d # c
  <2>1. h[d] = g[d]
    BY <1>2, <1>4
  <2>2. QED BY <1>2, <1>3, <2>1
<1>5. CASE d = c
  <2> DEFINE item == [g[c][n] EXCEPT ![f] = v]
             items == [g[c] EXCEPT ![n] = item]
  <2>1. h[d] = items
    BY <1>2, <1>5
  <2>2. IsList(items)
    <3>1. g[c] \in Seq(ToSet(g[c]))
      BY <1>2, <1>5 DEF IsList
    <3>2. g[c] \in Seq(ToSet(g[c]) \cup {item}) 
      BY <3>1
    <3>3. items \in Seq(ToSet(g[c]) \cup {item})
      BY <3>2
    <3>4. QED BY <3>3, SequenceIsList
  <2>3. Formed(c, item)
    <3>1. Formed(c, g[c][n]) /\ FieldFormed(c, f, v)
      BY <1>2, <1>5
    <3>2. DOMAIN item = DOMAIN g[c][n] /\ \A e \in DOMAIN item : item[e] = IF e = f THEN v ELSE g[c][n][e]
      OBVIOUS
    <3>3. QED BY <3>1, <3>2 DEF Formed
  <2>4. \A m \in DOMAIN items : items[m] = IF m = n THEN item ELSE g[c][m]
    OBVIOUS
  <2>5. \A m \in DOMAIN items : Formed(c, items[m])
    <3> HIDE DEF item
    <3>1. DOMAIN items = DOMAIN g[c]
      OBVIOUS
    <3>2. QED BY <1>2, <1>5, <2>3, <2>4, <3>1
  <2>6. QED BY <1>3, <1>5, <2>1, <2>2, <2>5
<1>6. QED BY <1>4, <1>5

\* Another list of items of one collection.
LEMMA ListForms ==
  ASSUME NEW g, FormedGraph(g), NEW c, NEW items,
         c \in Collections => IsList(items) /\ ToSet(items) \subseteq ToSet(g[c])
  PROVE  FormedGraph([g EXCEPT ![c] = items])
<1> DEFINE h == [g EXCEPT ![c] = items]
<1>1. SUFFICES ASSUME NEW d \in Collections
      PROVE  d \in DOMAIN h /\ IsList(h[d]) /\ \A m \in DOMAIN h[d] : Formed(d, h[d][m])
  BY DEF FormedGraph
<1>2. d \in DOMAIN g /\ IsList(g[d]) /\ \A m \in DOMAIN g[d] : Formed(d, g[d][m])
  BY DEF FormedGraph
<1>3. h[d] = IF d = c THEN items ELSE g[d]
  BY <1>2
<1>4. CASE d = c
  <2>1. \A m \in DOMAIN items : \E k \in DOMAIN g[c] : items[m] = g[c][k]
    BY <1>4 DEF ToSet
  <2>2. QED BY <1>2, <1>3, <1>4, <2>1
<1>5. QED BY <1>2, <1>3, <1>4

\* An item less, an item again.
LEMMA ListOps ==
  ASSUME NEW s, IsList(s), NEW n \in DOMAIN s
  PROVE  /\ IsList(RemoveAt(s, n)) /\ ToSet(RemoveAt(s, n)) \subseteq ToSet(s)
         /\ IsList(Append(s, s[n])) /\ ToSet(Append(s, s[n])) \subseteq ToSet(s)
<1> DEFINE S == ToSet(s)
<1>1. s \in Seq(S) /\ n \in 1..Len(s) /\ Len(s) \in Nat
  BY ListDomain DEF IsList
<1>2. RemoveAt(s, n) \in Seq(S)
  BY <1>1 DEF RemoveAt
<1>3. Append(s, s[n]) \in Seq(S)
  <2>1. s[n] \in S
    BY DEF ToSet
  <2>2. QED BY <1>1, <2>1
<1>4. \A t \in Seq(S) : ToSet(t) \subseteq S
  BY DEF ToSet
<1>5. QED BY <1>2, <1>3, <1>4, SequenceIsList

-----------------------------------------------------------------------------
(* The verdict is that of the graph as it was frozen                       *)

\* What the verifiers say of the graph as it stands.
Judgement ==
  [frozen |-> TRUE, through |-> Through(graph), imported |-> Imported(graph), ordered |-> Rule1(graph) /\ PassGraphValid(graph)]
VerdictInv == verdict = Unknown \/ verdict = Judgement
GraphInv == scenario \in Scenarios /\ FormedGraph(graph) /\ VerdictInv

\* Parsing leaves a formed graph, of which nothing is said yet.
LEMMA GraphStarts == Init => GraphInv
<1> SUFFICES ASSUME Init PROVE GraphInv
  OBVIOUS
<1>1. scenario \in Scenarios /\ graph = Base(scenario) /\ verdict = Unknown
  BY DEF Init
<1>2. ASSUME NEW c \in Collections
      PROVE  c \in DOMAIN graph /\ IsList(graph[c]) /\ \A n \in DOMAIN graph[c] : Formed(c, graph[c][n])
  <2>1. c \in DOMAIN graph /\ IsList(graph[c]) /\ \A item \in ToSet(graph[c]) : Formed(c, item)
    BY <1>1, FormAssumption
  <2>2. QED BY <2>1 DEF ToSet
<1>3. QED BY <1>1, <1>2 DEF GraphInv, FormedGraph, VerdictInv

\* No mutation spoils the form, and a verdict is given of the graph it is kept with.
LEMMA GraphStep == GraphInv /\ [Next]_vars => GraphInv'
<1> SUFFICES ASSUME GraphInv, [Next]_vars PROVE GraphInv'
  OBVIOUS
<1> USE DEF GraphInv
<1>1. ASSUME Mutable, FormedGraph(graph')
      PROVE  GraphInv'
  <2>1. verdict = Unknown
    BY <1>1 DEF Mutable, VerdictInv, Judgement
  <2>2. QED BY <1>1, <2>1 DEF Mutable, VerdictInv, Unknown
<1>2. CASE Replace
  <2>1. PICK c \in DOMAIN Values(scenario) : \E n \in DOMAIN graph[c] : \E f \in DOMAIN Values(scenario)[c] :
          \E v \in Values(scenario)[c][f] \ {graph[c][n][f]} : Mutable /\ graph' = [graph EXCEPT ![c][n][f] = v]
    BY <1>2 DEF Replace
  <2>2. PICK n \in DOMAIN graph[c], f \in DOMAIN Values(scenario)[c] : \E v \in Values(scenario)[c][f] \ {graph[c][n][f]} :
          Mutable /\ graph' = [graph EXCEPT ![c][n][f] = v]
    BY <2>1
  <2>5. PICK v \in Values(scenario)[c][f] :
          Mutable /\ graph' = [graph EXCEPT ![c][n][f] = v]
    BY <2>2
  <2>3. c \in Collections => FieldFormed(c, f, v)
    BY FormAssumption
  <2>4. FormedGraph(graph')
    BY <2>5, <2>3, ReplaceForms
  <2>6. QED BY <1>1, <2>5, <2>4
<1>3. CASE Drop
  <2>1. PICK c \in Removable(scenario) : \E n \in DOMAIN graph[c] : Mutable /\ graph' = [graph EXCEPT ![c] = RemoveAt(graph[c], n)]
    BY <1>3 DEF Drop
  <2>4. PICK n \in DOMAIN graph[c] : Mutable /\ graph' = [graph EXCEPT ![c] = RemoveAt(graph[c], n)]
    BY <2>1
  <2>2. c \in Collections => IsList(RemoveAt(graph[c], n)) /\ ToSet(RemoveAt(graph[c], n)) \subseteq ToSet(graph[c])
    BY ListOps DEF FormedGraph
  <2>3. FormedGraph(graph')
    BY <2>4, <2>2, ListForms
  <2>5. QED BY <1>1, <2>3, <2>4
<1>4. CASE Copy
  <2>1. PICK c \in Removable(scenario) : \E n \in DOMAIN graph[c] : Mutable /\ graph' = [graph EXCEPT ![c] = Append(graph[c], graph[c][n])]
    BY <1>4 DEF Copy
  <2>4. PICK n \in DOMAIN graph[c] : Mutable /\ graph' = [graph EXCEPT ![c] = Append(graph[c], graph[c][n])]
    BY <2>1
  <2>2. c \in Collections => IsList(Append(graph[c], graph[c][n])) /\ ToSet(Append(graph[c], graph[c][n])) \subseteq ToSet(graph[c])
    BY ListOps DEF FormedGraph
  <2>3. FormedGraph(graph')
    BY <2>4, <2>2, ListForms
  <2>5. QED BY <1>1, <2>3, <2>4
<1>5. CASE Evaluate
  BY <1>5 DEF Evaluate, VerdictInv, Judgement
<1>6. CASE UNCHANGED vars
  BY <1>6 DEF vars, VerdictInv, Judgement
<1>7. QED BY <1>2, <1>3, <1>4, <1>5, <1>6 DEF Next

\* The rules are passed in order up to the one returned; the next is not.
LEMMA ThroughIs ==
  ASSUME NEW g
  PROVE  /\ Through(g) \in 0..18 /\ \A j \in 1..Through(g) : Rule(j, g)
         /\ Through(g) = 18 \/ ~Rule(Through(g) + 1, g)
<1> DEFINE P(k) == (k = 18 \/ ~Rule(k + 1, g)) /\ \A j \in 1..k : Rule(j, g)
<1>1. \E k \in 0..18 : P(k)
  <2>1. SUFFICES ASSUME \A k \in 0..18 : ~P(k) PROVE FALSE
    OBVIOUS
  <2>2. \A k \in 0..17 : (\A j \in 1..k : Rule(j, g)) => Rule(k + 1, g)
    BY <2>1
  <2> HIDE DEF P
  <2>3. Rule(1, g) /\ Rule(2, g) /\ Rule(3, g)
    BY <2>2
  <2>4. Rule(4, g) /\ Rule(5, g) /\ Rule(6, g)
    BY <2>2, <2>3
  <2>5. Rule(7, g) /\ Rule(8, g) /\ Rule(9, g)
    BY <2>2, <2>3, <2>4
  <2>6. Rule(10, g) /\ Rule(11, g) /\ Rule(12, g)
    BY <2>2, <2>3, <2>4, <2>5
  <2>7. Rule(13, g) /\ Rule(14, g) /\ Rule(15, g)
    BY <2>2, <2>3, <2>4, <2>5, <2>6
  <2>8. Rule(16, g) /\ Rule(17, g) /\ Rule(18, g)
    BY <2>2, <2>3, <2>4, <2>5, <2>6, <2>7
  <2>9. P(18)
    BY <2>3, <2>4, <2>5, <2>6, <2>7, <2>8 DEF P
  <2>10. QED BY <2>1, <2>9
<1>2. Through(g) = CHOOSE k \in 0..18 : P(k)
  BY DEF Through
<1>3. P(Through(g)) /\ Through(g) \in 0..18
  BY <1>1, <1>2
<1>4. QED BY <1>3

\* A verdict through a rule is that rule's, and of all before it, on this graph.
LEMMA VerdictRules ==
  ASSUME GraphInv, NEW k \in 1..18, verdict.through >= k
  PROVE  \A j \in 1..k : Rule(j, graph)
<1>1. verdict.through = Through(graph)
  BY DEF GraphInv, VerdictInv, Unknown, Judgement
<1>2. QED BY <1>1, ThroughIs

\* What the graph properties use of a verdict through the fourth rule.
LEMMA FirstRules ==
  ASSUME GraphInv, verdict.through >= 4
  PROVE  Rule1(graph) /\ Rule2(graph) /\ Rule3(graph) /\ Rule4(graph)
<1>1. \A j \in 1..4 : Rule(j, graph)
  BY VerdictRules
<1>2. Rule(1, graph) /\ Rule(2, graph) /\ Rule(3, graph) /\ Rule(4, graph)
  BY <1>1
<1>3. QED BY <1>2 DEF Rule

-----------------------------------------------------------------------------
(* Times nest                                                              *)

\* What the form of a graph says of the collections the properties read.
LEMMA FormedLists ==
  ASSUME NEW g, FormedGraph(g)
  PROVE  /\ IsList(g.audit_runs) /\ IsList(g.audit_passes) /\ IsList(g.collector_executions) /\ IsList(g.observations)
         /\ IsList(g.evidence_references) /\ IsList(g.collector_definitions) /\ IsList(g.consent_receipts)
         /\ IsList(g.actions) /\ IsList(g.audit_manifests) /\ IsList(g.export_manifests)
         /\ \A n \in DOMAIN g.collector_executions : IsList(g.collector_executions[n].observations)
         /\ \A n \in DOMAIN g.observations : IsList(g.observations[n].evidence)
         /\ \A n \in DOMAIN g.audit_runs : IsList(g.audit_runs[n].passes)
<1>1. \A c \in Collections : IsList(g[c]) /\ \A n \in DOMAIN g[c] : Formed(c, g[c][n])
  BY DEF FormedGraph
<1>2. \A n \in DOMAIN g.collector_executions : Formed("collector_executions", g.collector_executions[n])
  BY <1>1 DEF Collections, Identified
<1>3. \A n \in DOMAIN g.observations : Formed("observations", g.observations[n])
  BY <1>1 DEF Collections, Identified
<1>4. \A n \in DOMAIN g.audit_runs : Formed("audit_runs", g.audit_runs[n])
  BY <1>1 DEF Collections, Identified
<1>5. \A n \in DOMAIN g.collector_executions : IsList(g.collector_executions[n].observations)
  BY <1>2 DEF Formed, FieldFormed, ListFields, Collections, Identified
<1>6. \A n \in DOMAIN g.observations : IsList(g.observations[n].evidence)
  BY <1>3 DEF Formed, FieldFormed, ListFields, Collections, Identified
<1>7. \A n \in DOMAIN g.audit_runs : IsList(g.audit_runs[n].passes)
  BY <1>4 DEF Formed, FieldFormed, ListFields, Collections, Identified
<1>8. QED BY <1>1, <1>5, <1>6, <1>7 DEF Collections, Identified

\* Times are numbers, in the collections whose times are compared.
LEMMA FormedTimes ==
  ASSUME NEW g, FormedGraph(g)
  PROVE  /\ \A n \in DOMAIN g.audit_runs : g.audit_runs[n].started \in Nat /\ g.audit_runs[n].ended \in Nat
         /\ \A n \in DOMAIN g.audit_passes : g.audit_passes[n].started \in Nat /\ g.audit_passes[n].ended \in Nat
         /\ \A n \in DOMAIN g.collector_executions :
              g.collector_executions[n].started \in Nat /\ g.collector_executions[n].ended \in Nat
         /\ \A n \in DOMAIN g.observations : g.observations[n].observed \in Nat
         /\ \A n \in DOMAIN g.evidence_references : g.evidence_references[n].captured \in Nat
         /\ \A n \in DOMAIN g.audit_manifests : g.audit_manifests[n].generated \in Nat
         /\ \A n \in DOMAIN g.export_manifests : g.export_manifests[n].generated \in Nat
<1>1. ASSUME NEW c \in Collections, NEW n \in DOMAIN g[c], NEW f \in TimeFields[c]
      PROVE  g[c][n][f] \in Nat
  <2>1. Formed(c, g[c][n])
    BY <1>1 DEF FormedGraph
  <2>2. QED BY <1>1, <2>1 DEF Formed, FieldFormed
<1>2. /\ TimeFields["audit_runs"] = {"started", "ended"} /\ TimeFields["audit_passes"] = {"started", "ended"}
      /\ TimeFields["collector_executions"] = {"started", "ended"}
  BY DEF TimeFields, Collections, Identified
<1>3. TimeFields["observations"] = {"observed"} /\ TimeFields["evidence_references"] = {"captured"}
  BY DEF TimeFields, Collections, Identified
<1>4. TimeFields["audit_manifests"] = {"generated"} /\ TimeFields["export_manifests"] = {"generated"}
  BY DEF TimeFields, Collections, Identified
<1>5. {"audit_runs", "audit_passes", "collector_executions", "observations", "evidence_references",
       "audit_manifests", "export_manifests"} \subseteq Collections
  BY DEF Collections, Identified
<1>6. QED BY <1>1, <1>2, <1>3, <1>4, <1>5

\* The rules through the tenth put the times of what is contained inside those of its container.
LEMMA NestStep == GraphInv => TimesNest
<1> SUFFICES ASSUME GraphInv, verdict.through >= 10,
                    NEW e \in All(graph.evidence_references), NEW c \in Chains(e)
             PROVE  LET p == graph.audit_passes[c[1]]
                        x == graph.collector_executions[c[2]]
                        o == graph.observations[c[3]]
                        run == graph.audit_runs[1]
                    IN  /\ run.started <= o.observed /\ o.observed <= e.captured /\ e.captured <= run.ended
                        /\ p.started > 0 => p.started <= o.observed /\ o.observed <= p.ended
                        /\ \A out \in All(graph.export_manifests) : e.captured <= out.generated
  BY DEF TimesNest
<1> DEFINE run == graph.audit_runs[1]
           ps == graph.audit_passes
           xs == graph.collector_executions
           os == graph.observations
           es == graph.evidence_references
<1>1. FormedGraph(graph)
  BY DEF GraphInv
<1>2. Rule1(graph) /\ Rule2(graph) /\ Rule3(graph) /\ Rule4(graph) /\ Rule10(graph)
  <2>1. \A j \in 1..10 : Rule(j, graph)
    BY VerdictRules
  <2>2. Rule(1, graph) /\ Rule(2, graph) /\ Rule(3, graph) /\ Rule(4, graph) /\ Rule(10, graph)
    BY <2>1
  <2>3. QED BY <2>2 DEF Rule
<1>3. PICK n \in DOMAIN es : e = es[n]
  BY DEF All, ToSet
<1>4. PICK i \in DOMAIN ps, j \in DOMAIN xs, k \in DOMAIN os :
        /\ c = <<i, j, k>> /\ xs[j].id \in ToSet(ps[i].executions)
        /\ os[k].id \in ToSet(xs[j].observations) /\ e.id \in ToSet(os[k].evidence)
  BY DEF Chains
<1> DEFINE p == ps[i]
           x == xs[j]
           o == os[k]
<1>5. IsList(ps) /\ IsList(xs) /\ IsList(os) /\ IsList(es)
  BY <1>1, FormedLists
<1>6. e.observation = o.id /\ One(os, "id", o.id) /\ The(os, "id", o.id) = o
  <2>1. One(es, "id", e.id) /\ The(es, "id", e.id).observation = o.id
    BY <1>2, <1>4 DEF Rule4, All, ToSet
  <2>2. The(es, "id", e.id) = e
    BY <1>3, <1>5, <2>1, OneIsFound
  <2>3. One(os, "id", o.id)
    BY <1>2, <2>1, <2>2 DEF Rule4
  <2>4. QED BY <1>5, <2>1, <2>2, <2>3, OneIsFound
<1>7. o.execution = x.id
  <2>1. The(os, "id", o.id).execution = x.id
    BY <1>2, <1>4 DEF Rule3, Reciprocal, All, ToSet
  <2>2. QED BY <1>6, <2>1
<1>8. One(ps, "id", x.pass) /\ The(ps, "id", x.pass) = p
  <2>1. PICK q \in All(ps) : {r \in All(ps) : x.id \in ToSet(r.executions)} = {q} /\ q.id = x.pass
    BY <1>2 DEF Rule2, All, ToSet
  <2>2. p = q
    BY <1>4, <2>1 DEF All, ToSet
  <2>3. Distinct(Fields(ps, "id"))
    BY <1>2 DEF Rule2, Identified
  <2>4. One(ps, "id", p.id)
    BY <1>5, <2>3, DistinctOne
  <2>5. QED BY <1>5, <2>1, <2>2, <2>4, OneIsFound
<1>9. One(xs, "id", x.id) /\ The(xs, "id", x.id) = x
  <2>1. Distinct(Fields(xs, "id"))
    BY <1>2 DEF Rule2, Identified
  <2>2. One(xs, "id", x.id)
    BY <1>5, <2>1, DistinctOne
  <2>3. QED BY <1>5, <2>2, OneIsFound
<1>10. 1 \in DOMAIN graph.audit_runs
  <2>1. IsList(graph.audit_runs) /\ Len(graph.audit_runs) = 1
    BY <1>1, <1>2, FormedLists DEF Rule1
  <2>2. QED BY <2>1, ListDomain
<1>11. /\ run.started \in Nat /\ run.ended \in Nat /\ p.started \in Nat /\ p.ended \in Nat /\ x.started \in Nat /\ x.ended \in Nat
       /\ o.observed \in Nat /\ e.captured \in Nat
  BY <1>1, <1>3, <1>10, FormedTimes
<1>12. run.started <= o.observed /\ 0 < x.started /\ x.started <= o.observed /\ (x.ended > 0 => o.observed <= x.ended)
  <2>1. o \in All(os)
    BY DEF All, ToSet
  <2>2. /\ run.started <= o.observed
        /\ 0 < The(xs, "id", o.execution).started /\ The(xs, "id", o.execution).started <= o.observed
        /\ The(xs, "id", o.execution).ended > 0 => o.observed <= The(xs, "id", o.execution).ended
    BY <1>2, <2>1 DEF Rule10
  <2>3. QED BY <1>7, <1>9, <2>2
<1>13. o.observed <= e.captured /\ e.captured <= run.ended
  <2>1. The(os, "id", e.observation).observed <= e.captured /\ e.captured <= run.ended
    BY <1>2 DEF Rule10
  <2>2. QED BY <1>6, <2>1
<1>14. x.ended > 0 /\ (p.started > 0 => p.started <= x.started /\ x.ended <= p.ended)
  <2>1. x \in All(xs)
    BY DEF All, ToSet
  <2>2. ExecutionTimes(graph, x)
    BY <1>2, <2>1 DEF Rule10
  <2>3. Interval(x.started, x.ended) /\ (One(ps, "id", x.pass) =>
          (The(ps, "id", x.pass).started > 0 => The(ps, "id", x.pass).started <= x.started /\ x.ended <= The(ps, "id", x.pass).ended))
    BY <1>11, <1>12, <2>2 DEF ExecutionTimes
  <2>4. x.ended > 0
    BY <1>11, <2>3 DEF Interval
  <2>5. QED BY <1>8, <2>3, <2>4
<1>15. ASSUME NEW out \in All(graph.export_manifests)
       PROVE  e.captured <= out.generated
  <2>1. PICK m \in DOMAIN graph.export_manifests : out = graph.export_manifests[m]
    BY <1>15 DEF All, ToSet
  <2>2. graph.audit_manifests # <<>> /\ run.ended <= graph.audit_manifests[1].generated
        /\ graph.audit_manifests[1].generated <= out.generated
    BY <1>2, <1>15 DEF Rule10
  <2>3. 1 \in DOMAIN graph.audit_manifests
    <3>1. IsList(graph.audit_manifests)
      BY <1>1, FormedLists
    <3>2. Len(graph.audit_manifests) # 0
      BY <2>2, <3>1, EmptySeq DEF IsList
    <3>3. QED BY <3>1, <3>2, ListDomain
  <2>4. graph.audit_manifests[1].generated \in Nat /\ out.generated \in Nat
    BY <1>1, <2>1, <2>3, FormedTimes
  <2>5. QED BY <1>11, <1>13, <2>2, <2>4
<1>16. /\ run.started <= o.observed /\ o.observed <= e.captured /\ e.captured <= run.ended
       /\ p.started > 0 => p.started <= o.observed /\ o.observed <= p.ended
       /\ \A out \in All(graph.export_manifests) : e.captured <= out.generated
  BY <1>11, <1>12, <1>13, <1>14, <1>15
<1>17. c[1] = i /\ c[2] = j /\ c[3] = k
  BY <1>4
<1>18. QED BY <1>16, <1>17

-----------------------------------------------------------------------------
(* A consent is used once; an export shows members                         *)

\* What the properties of consents and times use of later verdicts.
LEMMA LaterRules ==
  ASSUME GraphInv
  PROVE  /\ verdict.through >= 9 => Rule8(graph) /\ Rule9(graph)
         /\ verdict.through >= 11 => Rule2(graph) /\ Rule11(graph)
<1>1. ASSUME verdict.through >= 9 PROVE Rule8(graph) /\ Rule9(graph)
  <2>1. \A j \in 1..9 : Rule(j, graph)
    BY <1>1, VerdictRules
  <2>2. Rule(8, graph) /\ Rule(9, graph)
    BY <2>1
  <2>3. QED BY <2>2 DEF Rule
<1>2. ASSUME verdict.through >= 11 PROVE Rule2(graph) /\ Rule11(graph)
  <2>1. \A j \in 1..11 : Rule(j, graph)
    BY <1>2, VerdictRules
  <2>2. Rule(2, graph) /\ Rule(11, graph)
    BY <2>1
  <2>3. QED BY <2>2 DEF Rule
<1>3. QED BY <1>1, <1>2

\* What an accepted export shows is in the package it was made from.
LEMMA TraceStep == GraphInv => ExportTraces
<1> SUFFICES ASSUME GraphInv, verdict.through >= 9
             PROVE  LET e == graph.export_manifests[1]
                        shown == {s.source : s \in All(e.entries)}
                        omitted == {s.source : s \in All(e.omissions)}
                    IN  shown \cap omitted = {}
                        /\ \A s \in All(e.entries) \cup All(e.omissions) :
                             \E m \in All(graph.membership) :
                               m.id = s.source /\ m.path = s.source_path /\ One(graph[m.kind], "id", m.object)
  BY DEF ExportTraces
<1> DEFINE e == graph.export_manifests[1]
           shown == {s.source : s \in All(e.entries)}
           omitted == {s.source : s \in All(e.omissions)}
<1>1. Rule8(graph) /\ Rule9(graph)
  BY LaterRules
<1>2. Sources(graph, e) /\ shown \cap omitted = {}
  BY <1>1 DEF Rule9
<1>3. ASSUME NEW s \in All(e.entries) \cup All(e.omissions)
      PROVE  \E m \in All(graph.membership) :
               m.id = s.source /\ m.path = s.source_path /\ One(graph[m.kind], "id", m.object)
  <2>1. PICK t \in All(graph.entries) : t.id = s.source /\ t.path = s.source_path
    BY <1>2 DEF Sources
  <2>2. Keys(graph.entries) = Keys(graph.membership)
    BY <1>1 DEF Rule8
  <2>3. DOMAIN Keys(graph.entries) = {Key(item) : item \in All(graph.entries)}
        /\ DOMAIN Keys(graph.membership) = {Key(item) : item \in All(graph.membership)}
    BY DEF Keys
  <2>4. PICK m \in All(graph.membership) : Key(m) = Key(t)
    BY <2>1, <2>2, <2>3
  <2>5. m.id = t.id /\ m.path = t.path
    BY <2>4 DEF Key
  <2>6. One(graph[m.kind], "id", m.object)
    BY <1>1 DEF Rule8
  <2>7. QED BY <2>1, <2>5, <2>6
<1>4. QED BY <1>2, <1>3

\* What the scope of a collector's receipt ties together.
LEMMA CollectorScope ==
  ASSUME NEW g, FormedGraph(g), Rule2(g), NEW r, InScope(g, r), r.type \in CollectorTypes,
         NEW x \in All(g.collector_executions), r.id \in ToSet(x.consents)
  PROVE  /\ r.pass = x.pass /\ r.nonce \notin g.context[1].nonces
         /\ \A y \in All(g.collector_executions) \ {x} : r.id \notin ToSet(y.consents)
         /\ \A p \in All(g.audit_passes) : r.id \in ToSet(p.consents) <=> p.id = x.pass
<1> DEFINE a == The(g.actions, "id", r.action)
           used == {y \in All(g.collector_executions) : r.id \in ToSet(y.consents)}
           referring == {p.id : p \in {q \in All(g.audit_passes) : r.id \in ToSet(q.consents)}}
<1>1. r.nonce \notin g.context[1].nonces
  BY DEF InScope
<1>2. CollectorConsent(g, r, a)
  <2>1. (CASE r.type \in CollectorTypes -> CollectorConsent(g, r, a)
           [] r.type = "Export" -> ExportConsent(g, r, a)
           [] r.type = "Remediation" -> RemediationConsent(g, r, a)
           [] r.type = "Reboot" -> RebootConsent(g, r, a))
    BY DEF InScope
  <2>2. r.type # "Export" /\ r.type # "Remediation" /\ r.type # "Reboot"
    BY DEF CollectorTypes
  <2>3. QED BY <2>1, <2>2
<1>3. PICK d : r.pass # "none" /\ BoundExecution(g, r, a, d)
  BY <1>2 DEF CollectorConsent
<1>4. PICK z \in used : used = {z} /\ BoundPass(g, r, a, z.pass)
  BY <1>3 DEF BoundExecution
<1>5. x = z
  BY <1>4
<1>6. One(g.audit_passes, "id", r.pass) /\ referring = {r.pass} /\ x.pass = r.pass
  BY <1>3, <1>4, <1>5 DEF BoundPass
<1>7. \A y \in All(g.collector_executions) \ {x} : r.id \notin ToSet(y.consents)
  BY <1>4, <1>5
<1>8. ASSUME NEW p \in All(g.audit_passes)
      PROVE  r.id \in ToSet(p.consents) <=> p.id = x.pass
  <2>1. ASSUME r.id \in ToSet(p.consents) PROVE p.id = x.pass
    <3>1. p.id \in referring
      BY <1>8, <2>1
    <3>2. QED BY <1>6, <3>1
  <2>2. ASSUME p.id = x.pass PROVE r.id \in ToSet(p.consents)
    <3>1. r.pass \in referring
      BY <1>6
    <3>2. PICK q \in All(g.audit_passes) : q.id = r.pass /\ r.id \in ToSet(q.consents)
      BY <3>1
    <3>3. IsList(g.audit_passes)
      BY FormedLists
    <3>4. PICK m \in DOMAIN g.audit_passes : q = g.audit_passes[m]
      BY DEF All, ToSet
    <3>5. PICK n \in DOMAIN g.audit_passes : p = g.audit_passes[n]
      BY DEF All, ToSet
    <3>6. m = n
      BY <1>6, <2>2, <3>2, <3>3, <3>4, <3>5, OneIsFound
    <3>7. QED BY <3>2, <3>4, <3>5, <3>6
  <2>3. QED BY <2>1, <2>2
<1>9. QED BY <1>1, <1>6, <1>7, <1>8

\* The scope of a receipt leaves it one execution, one pass and an action of its own.
LEMMA ConsentStep == GraphInv => ConsentNotShared
<1> SUFFICES ASSUME GraphInv, verdict.through >= 11
             PROVE  /\ \A x \in All(graph.collector_executions) : \A d \in All(graph.collector_definitions) :
                         d.id = x.collector => \A t \in d.consents \cap CollectorTypes :
                           \E r \in All(graph.consent_receipts) :
                             /\ r.type = t /\ r.id \in ToSet(x.consents) /\ r.pass = x.pass /\ r.nonce \notin graph.context[1].nonces
                             /\ \A y \in All(graph.collector_executions) \ {x} : r.id \notin ToSet(y.consents)
                             /\ \A p \in All(graph.audit_passes) : r.id \in ToSet(p.consents) <=> p.id = x.pass
                    /\ \A r, s \in All(graph.consent_receipts) :
                         r # s /\ r.type = s.type /\ r.type # "SensitiveDataCollection" => r.action # s.action
  BY DEF ConsentNotShared
<1>1. Rule2(graph) /\ Rule11(graph) /\ FormedGraph(graph)
  BY LaterRules DEF GraphInv
<1>2. \A r \in All(graph.consent_receipts) : InScope(graph, r)
  BY <1>1 DEF Rule11
<1>3. ASSUME NEW x \in All(graph.collector_executions), NEW d \in All(graph.collector_definitions), d.id = x.collector,
             NEW t \in d.consents \cap CollectorTypes
      PROVE  \E r \in All(graph.consent_receipts) :
               /\ r.type = t /\ r.id \in ToSet(x.consents) /\ r.pass = x.pass /\ r.nonce \notin graph.context[1].nonces
               /\ \A y \in All(graph.collector_executions) \ {x} : r.id \notin ToSet(y.consents)
               /\ \A p \in All(graph.audit_passes) : r.id \in ToSet(p.consents) <=> p.id = x.pass
  <2>1. PICK b \in All(graph.collector_definitions) :
          /\ b.id = x.collector
          /\ \A type \in b.consents \cap CollectorTypes :
               \E r \in All(graph.consent_receipts) : r.id \in ToSet(x.consents) /\ r.type = type
    BY <1>1 DEF Rule11
  <2>2. b = d
    <3>1. Distinct(Fields(graph.collector_definitions, "id"))
      BY <1>1 DEF Rule2, Identified
    <3>2. PICK n \in DOMAIN graph.collector_definitions : d = graph.collector_definitions[n]
      BY DEF All, ToSet
    <3>3. PICK m \in DOMAIN graph.collector_definitions : b = graph.collector_definitions[m]
      BY DEF All, ToSet
    <3>4. Fields(graph.collector_definitions, "id")[n] = d.id /\ Fields(graph.collector_definitions, "id")[m] = b.id
          /\ DOMAIN Fields(graph.collector_definitions, "id") = DOMAIN graph.collector_definitions
      BY <3>2, <3>3 DEF Fields
    <3>5. m = n
      BY <1>3, <2>1, <3>1, <3>4 DEF Distinct, IsInjective
    <3>6. QED BY <3>2, <3>3, <3>5
  <2>3. PICK r \in All(graph.consent_receipts) : r.id \in ToSet(x.consents) /\ r.type = t
    BY <2>1, <2>2
  <2>4. InScope(graph, r) /\ r.type \in CollectorTypes
    BY <1>2, <2>3
  <2>5. QED BY <1>1, <2>3, <2>4, CollectorScope
<1>4. ASSUME NEW r \in All(graph.consent_receipts), NEW s \in All(graph.consent_receipts),
             r.type = s.type, r.type # "SensitiveDataCollection", r.action = s.action
      PROVE  r = s
  <2> DEFINE a == The(graph.actions, "id", r.action)
  <2>1. Authorized(a, r) /\ Authorized(a, s)
    BY <1>2, <1>4 DEF InScope
  <2>2. r.id = s.id
    BY <1>4, <2>1 DEF Authorized
  <2>3. PICK n \in DOMAIN graph.consent_receipts : r = graph.consent_receipts[n]
    BY DEF All, ToSet
  <2>4. PICK m \in DOMAIN graph.consent_receipts : s = graph.consent_receipts[m]
    BY DEF All, ToSet
  <2>5. Distinct(Fields(graph.consent_receipts, "id"))
    BY <1>1 DEF Rule11
  <2>6. m = n
    BY <2>2, <2>3, <2>4, <2>5 DEF Distinct, IsInjective, Fields
  <2>7. QED BY <2>3, <2>4, <2>6
<1>5. QED BY <1>3, <1>4

-----------------------------------------------------------------------------
(* A forest, to the rules and to the import                                *)

\* The links of a forest: identities differ, what is listed names what lists it, and
\* what names its owner is listed by that one.
Forest(g) ==
  /\ \A c \in {"audit_passes", "collector_executions", "observations", "evidence_references"} : Distinct(Fields(g[c], "id"))
  /\ LinksDown(g)
  /\ \A o \in All(g.observations) : \E x \in All(g.collector_executions) : x.id = o.execution /\ o.id \in ToSet(x.observations)
  /\ \A e \in All(g.evidence_references) : \E o \in All(g.observations) : o.id = e.observation /\ e.id \in ToSet(o.evidence)
  /\ \A x \in All(g.collector_executions) : \E p \in All(g.audit_passes) :
       /\ x.id \in ToSet(p.executions) /\ p.id = x.pass /\ p.privilege = x.privilege
       /\ \A q \in All(g.audit_passes) : x.id \in ToSet(q.executions) => q = p

\* Positions of equal identities are equal.
LEMMA SamePosition ==
  ASSUME NEW s, Distinct(Fields(s, "id")), NEW m \in DOMAIN s, NEW n \in DOMAIN s, s[m].id = s[n].id
  PROVE  m = n
BY DEF Distinct, IsInjective, Fields

\* The one found by an identity that is there, and is there once.
LEMMA FoundById ==
  ASSUME NEW s, IsList(s), Distinct(Fields(s, "id")), NEW v, v \in ToSet(Fields(s, "id"))
  PROVE  One(s, "id", v) /\ The(s, "id", v) \in All(s) /\ The(s, "id", v).id = v
<1>1. PICK n \in DOMAIN s : s[n].id = v
  BY DEF ToSet, Fields
<1>2. One(s, "id", v)
  BY <1>1, DistinctOne
<1>3. The(s, "id", v) = s[n]
  BY <1>1, <1>2, OneIsFound
<1>4. QED BY <1>1, <1>2, <1>3 DEF All, ToSet

\* Rules 2, 3 and 4 make the graph a forest.
LEMMA RulesForest ==
  ASSUME NEW g, FormedGraph(g), Rule2(g), Rule3(g), Rule4(g)
  PROVE  Forest(g)
<1>1. \A c \in {"audit_passes", "collector_executions", "observations", "evidence_references"} : Distinct(Fields(g[c], "id"))
  BY DEF Rule2, Identified
<1>2. LinksDown(g)
  BY DEF LinksDown, Rule3, Reciprocal, Rule4
<1>3. ASSUME NEW o \in All(g.observations)
      PROVE  \E x \in All(g.collector_executions) : x.id = o.execution /\ o.id \in ToSet(x.observations)
  <2> DEFINE x == The(g.collector_executions, "id", o.execution)
  <2>1. One(g.collector_executions, "id", o.execution) /\ Once(x.observations, o.id)
    BY DEF Rule3, Reciprocal, OneSided
  <2>2. PICK n \in DOMAIN g.collector_executions : x = g.collector_executions[n] /\ g.collector_executions[n].id = o.execution
    BY <2>1, FormedLists, TheIsOne
  <2>3. IsList(x.observations)
    BY <2>2, FormedLists
  <2>4. o.id \in ToSet(x.observations)
    BY <2>1, <2>3, OnceIn
  <2>5. x \in All(g.collector_executions) /\ x.id = o.execution
    BY <2>2 DEF All, ToSet
  <2>6. QED BY <2>4, <2>5
<1>4. ASSUME NEW e \in All(g.evidence_references)
      PROVE  \E o \in All(g.observations) : o.id = e.observation /\ e.id \in ToSet(o.evidence)
  <2> DEFINE o == The(g.observations, "id", e.observation)
  <2>1. One(g.observations, "id", e.observation) /\ Once(o.evidence, e.id)
    BY DEF Rule4
  <2>2. PICK n \in DOMAIN g.observations : o = g.observations[n] /\ g.observations[n].id = e.observation
    BY <2>1, FormedLists, TheIsOne
  <2>3. IsList(o.evidence)
    BY <2>2, FormedLists
  <2>4. e.id \in ToSet(o.evidence)
    BY <2>1, <2>3, OnceIn
  <2>5. o \in All(g.observations) /\ o.id = e.observation
    BY <2>2 DEF All, ToSet
  <2>6. QED BY <2>4, <2>5
<1>5. ASSUME NEW x \in All(g.collector_executions)
      PROVE  \E p \in All(g.audit_passes) :
               /\ x.id \in ToSet(p.executions) /\ p.id = x.pass /\ p.privilege = x.privilege
               /\ \A q \in All(g.audit_passes) : x.id \in ToSet(q.executions) => q = p
  <2>1. PICK p \in All(g.audit_passes) :
          {q \in All(g.audit_passes) : x.id \in ToSet(q.executions)} = {p} /\ p.id = x.pass /\ p.privilege = x.privilege
    BY DEF Rule2
  <2>2. x.id \in ToSet(p.executions) /\ \A q \in All(g.audit_passes) : x.id \in ToSet(q.executions) => q = p
    BY <2>1
  <2>3. QED BY <2>1, <2>2
<1>6. QED BY <1>1, <1>2, <1>3, <1>4, <1>5 DEF Forest

\* So do the checks of the import, which are written from the other end.
LEMMA ImportForest ==
  ASSUME NEW g, FormedGraph(g), Imported(g)
  PROVE  Forest(g)
<1>1. GraphLinks(g) /\ PassesValid(g)
  BY DEF Imported, Finalized
<1>2. Owned(g) /\ Linked(g)
  BY <1>1 DEF GraphLinks
<1>3. ASSUME NEW c \in {"audit_passes", "collector_executions", "observations", "evidence_references"}
      PROVE  Distinct(Fields(g[c], "id"))
  <2>1. CASE c = "audit_passes"
    BY <1>1, <2>1 DEF PassesValid, ExactIds
  <2>2. CASE c # "audit_passes"
    BY <1>1, <1>3, <2>2 DEF GraphLinks
  <2>3. QED BY <2>1, <2>2
<1>4. LinksDown(g)
  BY <1>2 DEF Linked
<1>5. ASSUME NEW o \in All(g.observations)
      PROVE  \E x \in All(g.collector_executions) : x.id = o.execution /\ o.id \in ToSet(x.observations)
  <2> DEFINE xs == g.collector_executions
             x == The(xs, "id", o.execution)
  <2>1. o.execution \in ToSet(Fields(xs, "id")) /\ Once(x.observations, o.id)
    BY <1>2 DEF Linked
  <2>2. x \in All(xs) /\ x.id = o.execution
    BY <1>3, <2>1, FormedLists, FoundById
  <2>3. IsList(x.observations)
    BY <2>2, FormedLists DEF All, ToSet
  <2>4. o.id \in ToSet(x.observations)
    BY <2>1, <2>3, OnceIn
  <2>5. QED BY <2>2, <2>4
<1>6. ASSUME NEW e \in All(g.evidence_references)
      PROVE  \E o \in All(g.observations) : o.id = e.observation /\ e.id \in ToSet(o.evidence)
  <2> DEFINE os == g.observations
             o == The(os, "id", e.observation)
  <2>1. e.observation \in ToSet(Fields(os, "id")) /\ Once(o.evidence, e.id)
    BY <1>2 DEF Linked
  <2>2. o \in All(os) /\ o.id = e.observation
    BY <1>3, <2>1, FormedLists, FoundById
  <2>3. IsList(o.evidence)
    BY <2>2, FormedLists DEF All, ToSet
  <2>4. e.id \in ToSet(o.evidence)
    BY <2>1, <2>3, OnceIn
  <2>5. QED BY <2>2, <2>4
<1>7. ASSUME NEW x \in All(g.collector_executions)
      PROVE  \E p \in All(g.audit_passes) :
               /\ x.id \in ToSet(p.executions) /\ p.id = x.pass /\ p.privilege = x.privilege
               /\ \A q \in All(g.audit_passes) : x.id \in ToSet(q.executions) => q = p
  <2>1. PICK p \in All(g.audit_passes) : x.id \in ToSet(p.executions) /\ p.id = x.pass /\ p.privilege = x.privilege
    BY <1>2 DEF Owned
  <2>2. ASSUME NEW q \in All(g.audit_passes), x.id \in ToSet(q.executions), q # p PROVE FALSE
    BY <1>2, <2>1, <2>2 DEF Owned
  <2>3. QED BY <2>1, <2>2
<1>8. QED BY <1>3, <1>4, <1>5, <1>6, <1>7 DEF Forest

\* Whatever is linked so, each evidence hangs on one chain.
LEMMA ForestChains ==
  ASSUME FormedGraph(graph), Forest(graph), NEW e \in All(graph.evidence_references)
  PROVE  \E c \in Chains(e) :
           /\ Chains(e) = {c}
           /\ e.observation = graph.observations[c[3]].id
           /\ graph.observations[c[3]].execution = graph.collector_executions[c[2]].id
           /\ graph.collector_executions[c[2]].pass = graph.audit_passes[c[1]].id
           /\ graph.collector_executions[c[2]].privilege = graph.audit_passes[c[1]].privilege
<1> DEFINE ps == graph.audit_passes
           xs == graph.collector_executions
           os == graph.observations
           es == graph.evidence_references
<1>1. Distinct(Fields(ps, "id")) /\ Distinct(Fields(xs, "id")) /\ Distinct(Fields(os, "id")) /\ Distinct(Fields(es, "id"))
  BY DEF Forest
<1>2. PICK k \in DOMAIN os : os[k].id = e.observation /\ e.id \in ToSet(os[k].evidence)
  BY SMTT(30) DEF Forest, All, ToSet
<1>3. PICK j \in DOMAIN xs : xs[j].id = os[k].execution /\ os[k].id \in ToSet(xs[j].observations)
  <2>1. os[k] \in All(os)
    BY DEF All, ToSet
  <2>2. PICK x \in All(xs) : x.id = os[k].execution /\ os[k].id \in ToSet(x.observations)
    BY <2>1 DEF Forest
  <2>3. QED BY <2>2 DEF All, ToSet
<1>4. PICK i \in DOMAIN ps :
        /\ xs[j].id \in ToSet(ps[i].executions) /\ ps[i].id = xs[j].pass /\ ps[i].privilege = xs[j].privilege
        /\ \A q \in All(ps) : xs[j].id \in ToSet(q.executions) => q = ps[i]
  <2>1. xs[j] \in All(xs)
    BY DEF All, ToSet
  <2>2. PICK p \in All(ps) :
          /\ xs[j].id \in ToSet(p.executions) /\ p.id = xs[j].pass /\ p.privilege = xs[j].privilege
          /\ \A q \in All(ps) : xs[j].id \in ToSet(q.executions) => q = p
    BY <2>1 DEF Forest
  <2>3. PICK i \in DOMAIN ps : p = ps[i]
    BY DEF All, ToSet
  <2>4. QED BY <2>2, <2>3
<1>5. <<i, j, k>> \in Chains(e)
  BY <1>2, <1>3, <1>4 DEF Chains
<1>6. ASSUME NEW c \in Chains(e) PROVE c = <<i, j, k>>
  <2>1. PICK l \in DOMAIN ps, m \in DOMAIN xs, n \in DOMAIN os :
          /\ c = <<l, m, n>> /\ xs[m].id \in ToSet(ps[l].executions)
          /\ os[n].id \in ToSet(xs[m].observations) /\ e.id \in ToSet(os[n].evidence)
    BY DEF Chains
  <2>2. PICK h \in DOMAIN es : e = es[h]
    BY DEF All, ToSet
  <2>3. e.observation = os[n].id
    <3>1. One(es, "id", e.id) /\ The(es, "id", e.id).observation = os[n].id
      BY <2>1 DEF Forest, LinksDown, All, ToSet
    <3>2. The(es, "id", e.id) = e
      BY <2>2, <3>1, FormedLists, OneIsFound
    <3>3. QED BY <3>1, <3>2
  <2>4. n = k
    BY <1>1, <1>2, <2>3, SamePosition
  <2>5. os[k].execution = xs[m].id
    <3>1. One(os, "id", os[n].id) /\ The(os, "id", os[n].id).execution = xs[m].id
      BY <2>1 DEF Forest, LinksDown, All, ToSet
    <3>2. The(os, "id", os[n].id) = os[n]
      BY <3>1, FormedLists, OneIsFound
    <3>3. QED BY <2>4, <3>1, <3>2
  <2>6. m = j
    BY <1>1, <1>3, <2>5, SamePosition
  <2>7. l = i
    <3>1. ps[l] = ps[i]
      BY <1>4, <2>1, <2>6 DEF All, ToSet
    <3>2. QED BY <1>1, <3>1, SamePosition
  <2>8. QED BY <2>1, <2>4, <2>6, <2>7
<1>7. Chains(e) = {<<i, j, k>>}
  BY <1>5, <1>6
<1> DEFINE c == <<i, j, k>>
<1>8. c[1] = i /\ c[2] = j /\ c[3] = k
  OBVIOUS
<1>9. c \in Chains(e) /\ Chains(e) = {c}
  BY <1>5, <1>7
<1>10. /\ e.observation = os[c[3]].id /\ os[c[3]].execution = xs[c[2]].id
       /\ xs[c[2]].pass = ps[c[1]].id /\ xs[c[2]].privilege = ps[c[1]].privilege
  BY <1>2, <1>3, <1>4, <1>8
<1> HIDE DEF c
<1>11. QED BY <1>9, <1>10

\* A forest is what the properties of accepted graphs ask for.
LEMMA ForestStep == GraphInv => AcceptedIsForest
<1> SUFFICES ASSUME GraphInv, verdict.imported \/ verdict.through >= 4
             PROVE  Forest(graph)
  BY ForestChains DEF AcceptedIsForest, GraphInv
<1>1. FormedGraph(graph)
  BY DEF GraphInv
<1>2. CASE verdict.through >= 4
  BY <1>1, <1>2, FirstRules, RulesForest
<1>3. CASE verdict.imported
  <2>1. Imported(graph)
    BY <1>3 DEF GraphInv, VerdictInv, Unknown, Judgement
  <2>2. QED BY <1>1, <2>1, ImportForest
<1>4. QED BY <1>2, <1>3

-----------------------------------------------------------------------------
(* What the import leaves to the rules                                     *)

\* In the scenarios that compare the two, what the import does not judge stays in order;
\* and every verdict is on a graph the schemas let through.
UnreadInv ==
  scenario \in {"links", "passes"} =>
    /\ \A n \in DOMAIN graph.audit_runs : graph.audit_runs[n].id = RunId
    /\ \A c \in Unread : graph[c] = Base(scenario)[c]
SchemaInv == verdict.frozen => SchemaValid(graph)
ReadInv == UnreadInv /\ SchemaInv

\* The objects that are not read start in order.
LEMMA ReadStarts == Init => ReadInv
<1> SUFFICES ASSUME Init PROVE ReadInv
  OBVIOUS
<1>1. scenario \in Scenarios /\ graph = Base(scenario) /\ ~verdict.frozen
  BY DEF Init, Unknown
<1>2. UnreadInv
  BY <1>1, UnreadAssumption DEF UnreadInv, All, ToSet
<1>3. QED BY <1>1, <1>2 DEF ReadInv, SchemaInv

\* No mutation of these scenarios touches them.
LEMMA ReadStep == GraphInv /\ ReadInv /\ [Next]_vars => ReadInv'
<1> SUFFICES ASSUME GraphInv, ReadInv, [Next]_vars PROVE ReadInv'
  OBVIOUS
<1>1. FormedGraph(graph) /\ scenario \in Scenarios
  BY DEF GraphInv
<1>2. "audit_runs" \in DOMAIN graph /\ \A c \in Unread : c \in DOMAIN graph /\ c # "audit_runs"
  BY <1>1 DEF FormedGraph, Unread, Collections, Identified
<1>3. ASSUME Mutable, NEW c, NEW items, graph' = [graph EXCEPT ![c] = items],
             scenario \in {"links", "passes"} => c \notin Unread,
             c = "audit_runs" /\ scenario \in {"links", "passes"} =>
               \A n \in DOMAIN items : \E m \in DOMAIN graph[c] : items[n].id = graph[c][m].id
      PROVE  ReadInv'
  <2>1. scenario' = scenario /\ ~verdict'.frozen
    BY <1>3 DEF Mutable
  <2>2. ASSUME scenario \in {"links", "passes"}
        PROVE  /\ \A n \in DOMAIN graph'.audit_runs : graph'.audit_runs[n].id = RunId
               /\ \A d \in Unread : graph'[d] = Base(scenario)[d]
    <3>1. \A d \in DOMAIN graph : graph'[d] = IF d = c THEN items ELSE graph[d]
      BY <1>3
    <3>2. \A d \in Unread : graph'[d] = Base(scenario)[d]
      BY <1>2, <1>3, <2>2, <3>1 DEF ReadInv, UnreadInv
    <3>3. graph'.audit_runs = IF c = "audit_runs" THEN items ELSE graph.audit_runs
      BY <1>2, <3>1
    <3>4. QED BY <1>3, <2>2, <3>2, <3>3 DEF ReadInv, UnreadInv
  <2>3. UnreadInv'
    BY <2>1, <2>2 DEF UnreadInv
  <2>4. QED BY <2>1, <2>3 DEF ReadInv, SchemaInv
<1>4. CASE Replace
  <2>1. PICK c \in DOMAIN Values(scenario) : \E n \in DOMAIN graph[c] : \E f \in DOMAIN Values(scenario)[c] :
          \E v \in Values(scenario)[c][f] \ {graph[c][n][f]} : Mutable /\ graph' = [graph EXCEPT ![c][n][f] = v]
    BY <1>4 DEF Replace
  <2>2. PICK n \in DOMAIN graph[c], f \in DOMAIN Values(scenario)[c] : \E v \in Values(scenario)[c][f] \ {graph[c][n][f]} :
          Mutable /\ graph' = [graph EXCEPT ![c][n][f] = v]
    BY <2>1
  <2>3. PICK v \in Values(scenario)[c][f] : Mutable /\ graph' = [graph EXCEPT ![c][n][f] = v]
    BY <2>2
  <2> DEFINE items == [graph[c] EXCEPT ![n] = [graph[c][n] EXCEPT ![f] = v]]
  <2>4. graph' = [graph EXCEPT ![c] = items]
    BY <2>3
  <2>5. scenario \in {"links", "passes"} => c \notin Unread
    BY <1>1, UnreadAssumption
  <2>6. ASSUME c = "audit_runs", scenario \in {"links", "passes"}, NEW m \in DOMAIN items
        PROVE  items[m].id = graph[c][m].id
    <3>1. f # "id"
      BY <1>1, <2>6, UnreadAssumption
    <3>2. CASE m = n
      <4>1. items[m] = [graph[c][n] EXCEPT ![f] = v]
        BY <3>2
      <4>2. Formed(c, graph[c][n]) 
        BY <1>1, <2>6 DEF FormedGraph, Collections, Identified
      <4>3. QED BY <3>1, <3>2, <4>1, <4>2
    <3>3. CASE m # n
      BY <3>3
    <3>4. QED BY <3>2, <3>3
  <2>7. DOMAIN items = DOMAIN graph[c]
    OBVIOUS
  <2> HIDE DEF items
  <2>8. QED BY <1>3, <2>3, <2>4, <2>5, <2>6, <2>7
<1>5. CASE Drop
  <2>1. PICK c \in Removable(scenario) : \E n \in DOMAIN graph[c] : Mutable /\ graph' = [graph EXCEPT ![c] = RemoveAt(graph[c], n)]
    BY <1>5 DEF Drop
  <2>2. PICK n \in DOMAIN graph[c] : Mutable /\ graph' = [graph EXCEPT ![c] = RemoveAt(graph[c], n)]
    BY <2>1
  <2>3. scenario \in {"links", "passes"} => c \notin Unread
    BY <1>1, UnreadAssumption
  <2>4. c = "audit_runs" => ToSet(RemoveAt(graph[c], n)) \subseteq ToSet(graph[c])
    BY <1>1, ListOps DEF FormedGraph, Collections, Identified
  <2>5. c = "audit_runs" => \A m \in DOMAIN RemoveAt(graph[c], n) : \E k \in DOMAIN graph[c] : RemoveAt(graph[c], n)[m] = graph[c][k]
    BY <2>4 DEF ToSet
  <2>6. QED BY <1>3, <2>2, <2>3, <2>5
<1>6. CASE Copy
  <2>1. PICK c \in Removable(scenario) : \E n \in DOMAIN graph[c] : Mutable /\ graph' = [graph EXCEPT ![c] = Append(graph[c], graph[c][n])]
    BY <1>6 DEF Copy
  <2>2. PICK n \in DOMAIN graph[c] : Mutable /\ graph' = [graph EXCEPT ![c] = Append(graph[c], graph[c][n])]
    BY <2>1
  <2>3. scenario \in {"links", "passes"} => c \notin Unread
    BY <1>1, UnreadAssumption
  <2>4. c = "audit_runs" => ToSet(Append(graph[c], graph[c][n])) \subseteq ToSet(graph[c])
    BY <1>1, ListOps DEF FormedGraph, Collections, Identified
  <2>5. c = "audit_runs" => \A m \in DOMAIN Append(graph[c], graph[c][n]) : \E k \in DOMAIN graph[c] : Append(graph[c], graph[c][n])[m] = graph[c][k]
    BY <2>4 DEF ToSet
  <2>6. QED BY <1>3, <2>2, <2>3, <2>5
<1>7. CASE Evaluate
  <2>1. SchemaValid(graph) /\ graph' = graph /\ scenario' = scenario
    BY <1>7 DEF Evaluate
  <2>2. QED BY <2>1 DEF ReadInv, UnreadInv, SchemaInv
<1>8. CASE UNCHANGED vars
  BY <1>8 DEF vars, ReadInv, UnreadInv, SchemaInv
<1>9. QED BY <1>4, <1>5, <1>6, <1>7, <1>8 DEF Next

\* What the import accepts passes the rules of identity, of ownership and of links.
LEMMA ImportRules ==
  ASSUME GraphInv, ReadInv, scenario \in {"links", "passes"}, Imported(graph)
  PROVE  Rule1(graph) /\ Rule2(graph) /\ Rule4(graph)
<1>1. FormedGraph(graph) /\ scenario \in Scenarios
  BY DEF GraphInv
<1>2. Finalized(graph) /\ Forest(graph)
  BY <1>1, ImportForest DEF Imported
<1>3. \A c \in Unread : Distinct(Fields(graph[c], "id")) /\ (c \in OfRun => \A item \in All(graph[c]) : item.run = RunId)
  BY <1>1, UnreadAssumption DEF ReadInv, UnreadInv
<1>4. Len(graph.audit_runs) = 1 /\ graph.audit_runs[1].id = RunId
  <2>1. Len(graph.audit_runs) = 1
    BY <1>2 DEF Finalized
  <2>2. 1 \in DOMAIN graph.audit_runs
    BY <1>1, <2>1, FormedLists, ListDomain
  <2>3. QED BY <2>1, <2>2 DEF ReadInv, UnreadInv
<1>5. ASSUME NEW c \in OfRun PROVE \A item \in All(graph[c]) : item.run = RunId
  <2>1. CASE c \in Unread
    BY <1>3, <1>5, <2>1
  <2>2. CASE c \notin Unread
    <3>1. c \in OfRun \cap Contracts
      BY <1>5, <2>2 DEF OfRun, Contracts, Unread
    <3>2. \A item \in All(graph[c]) : item.run = graph.audit_runs[1].id
      BY <1>2, <3>1 DEF Finalized
    <3>3. QED BY <1>4, <3>2
  <2>3. QED BY <2>1, <2>2
<1>6. Rule1(graph)
  BY <1>4, <1>5 DEF Rule1
<1>7. ASSUME NEW c \in Identified PROVE Distinct(Fields(graph[c], "id"))
  <2>1. CASE c \in Unread
    BY <1>3, <2>1
  <2>2. CASE c \in {"audit_runs", "action_logs"}
    <3>1. Len(graph[c]) = 1
      BY <1>2, <2>2 DEF Finalized
    <3>2. DOMAIN graph[c] = 1..1
      BY <1>1, <1>7, <3>1, ListDomain DEF FormedGraph, Collections
    <3>3. QED BY <3>2 DEF Distinct, IsInjective, Fields
  <2>3. CASE c = "audit_passes"
    BY <1>2, <2>3 DEF Forest
  <2>4. CASE c = "consent_receipts"
    BY <1>2, <2>4 DEF Finalized, ExactIds
  <2>5. CASE c \in {"collector_executions", "observations", "evidence_references", "findings",
                    "collector_definitions", "rule_definitions"}
    BY <1>2, <2>5 DEF Finalized, GraphLinks
  <2>6. QED BY <1>7, <2>1, <2>2, <2>3, <2>4, <2>5 DEF Identified, Unread
<1>8. ASSUME NEW x \in All(graph.collector_executions)
      PROVE  \E p \in All(graph.audit_passes) :
               /\ {q \in All(graph.audit_passes) : x.id \in ToSet(q.executions)} = {p}
               /\ p.id = x.pass /\ p.privilege = x.privilege
  <2>1. PICK p \in All(graph.audit_passes) :
               /\ x.id \in ToSet(p.executions) /\ p.id = x.pass /\ p.privilege = x.privilege
               /\ \A q \in All(graph.audit_passes) : x.id \in ToSet(q.executions) => q = p
    BY <1>2 DEF Forest
  <2>2. {q \in All(graph.audit_passes) : x.id \in ToSet(q.executions)} = {p}
    BY <2>1
  <2>3. QED BY <2>1, <2>2
<1>9. Rule2(graph)
  BY <1>7, <1>8 DEF Rule2
<1>10. Linked(graph)
  BY <1>2 DEF Finalized, GraphLinks
<1>11. ASSUME NEW e \in All(graph.evidence_references)
       PROVE  One(graph.observations, "id", e.observation) /\ Once(The(graph.observations, "id", e.observation).evidence, e.id)
  <2>1. e.observation \in ToSet(Fields(graph.observations, "id"))
        /\ Once(The(graph.observations, "id", e.observation).evidence, e.id)
    BY <1>10 DEF Linked
  <2>2. One(graph.observations, "id", e.observation)
    BY <1>1, <1>2, <2>1, FormedLists, FoundById DEF Forest
  <2>3. QED BY <2>1, <2>2
<1>12. Rule4(graph)
  BY <1>10, <1>11 DEF Rule4, Linked, LinksDown
<1>13. QED BY <1>6, <1>9, <1>12

\* So the import keeps the rules it claims to.
LEMMA KeepsStep == GraphInv /\ ReadInv /\ scenario = "links" => ImportKeepsRules
<1> SUFFICES ASSUME GraphInv, ReadInv, scenario = "links", verdict.imported
             PROVE  /\ Rule1(graph) /\ Rule2(graph) /\ Rule4(graph)
                    /\ (\A x \in All(graph.collector_executions) : x.state \in {"Succeeded", "Partial"}) => verdict.through >= 4
  BY DEF ImportKeepsRules
<1>1. Imported(graph) /\ verdict.through = Through(graph) /\ FormedGraph(graph)
  BY DEF GraphInv, VerdictInv, Unknown, Judgement
<1>2. Rule1(graph) /\ Rule2(graph) /\ Rule4(graph)
  BY <1>1, ImportRules
<1>3. ASSUME \A x \in All(graph.collector_executions) : x.state \in {"Succeeded", "Partial"}
      PROVE  Through(graph) >= 4
  <2>1. Linked(graph) /\ Forest(graph)
    BY <1>1, ImportForest DEF Imported, Finalized, GraphLinks
  <2>2. ASSUME NEW o \in All(graph.observations)
        PROVE  /\ One(graph.collector_executions, "id", o.execution)
               /\ The(graph.collector_executions, "id", o.execution).state \in {"Succeeded", "Partial"}
               /\ Once(The(graph.collector_executions, "id", o.execution).observations, o.id)
    <3>1. /\ o.execution \in ToSet(Fields(graph.collector_executions, "id"))
          /\ Once(The(graph.collector_executions, "id", o.execution).observations, o.id)
      BY <2>1 DEF Linked
    <3>2. One(graph.collector_executions, "id", o.execution)
          /\ The(graph.collector_executions, "id", o.execution) \in All(graph.collector_executions)
      BY <1>1, <2>1, <3>1, FormedLists, FoundById DEF Forest
    <3>3. QED BY <1>3, <3>1, <3>2
  <2>3. Rule3(graph)
    BY <2>1, <2>2 DEF Rule3, Reciprocal, OneSided, Forest, LinksDown
  <2>4. Rule(1, graph) /\ Rule(2, graph) /\ Rule(3, graph) /\ Rule(4, graph)
    BY <1>2, <2>3 DEF Rule
  <2>5. SUFFICES ASSUME Through(graph) \in 0..3 PROVE FALSE
    BY ThroughIs
  <2>6. ~Rule(Through(graph) + 1, graph)
    BY <2>5, ThroughIs
  <2>7. Through(graph) + 1 \in {1, 2, 3, 4}
    BY <2>5
  <2>8. QED BY <2>4, <2>6, <2>7
<1>4. QED BY <1>1, <1>2, <1>3, ThroughIs

-----------------------------------------------------------------------------
(* No pass waits for itself                                                *)

\* A set of numbers that is not empty has a least one.
LEMMA LeastNumber ==
  ASSUME NEW T \in SUBSET Nat, T # {}
  PROVE  \E x \in T : \A y \in T : x <= y
<1> DEFINE U == {1..k : k \in T}
<1>1. IsWellFoundedOn(StrictSubsetOrdering(Nat), FiniteSubsetsOf(Nat))
  BY FS_StrictSubsetOrderingWellFounded
<1>2. U \subseteq FiniteSubsetsOf(Nat) /\ U # {}
  <2>1. ASSUME NEW k \in T PROVE 1..k \in SUBSET Nat /\ IsFiniteSet(1..k)
    BY FS_Interval
  <2>2. QED BY <2>1 DEF FiniteSubsetsOf
<1>3. PICK X \in U : \A Y \in U : <<Y, X>> \notin StrictSubsetOrdering(Nat)
  <2> HIDE DEF U
  <2>1. QED BY <1>1, <1>2, WFMin
<1>4. PICK x \in T : X = 1..x
  OBVIOUS
<1>5. ASSUME NEW y \in T PROVE x <= y
  <2> SUFFICES ASSUME y < x PROVE FALSE
    OBVIOUS
  <2>1. 1..y \subseteq 1..x /\ x \in 1..x /\ x \notin 1..y /\ 1..x \in SUBSET Nat /\ 1..y \in SUBSET Nat
    OBVIOUS
  <2>2. <<1..y, 1..x>> \in StrictSubsetOrdering(Nat)
    BY <2>1 DEF StrictSubsetOrdering
  <2>3. QED BY <1>3, <1>4, <2>2
<1>6. QED BY <1>5

\* f[k] is what k steps of F make of A.
Iterates(f, m, A, F) == \A k \in 0..m : f[k] = IF k = 0 THEN A ELSE F[k][f[k - 1]]

\* It is defined for every number of steps: no least number could lack it.
LEMMA StepsDefine ==
  ASSUME NEW S, NEW A \in S, NEW m \in Nat, NEW F \in [1..m -> [S -> S]]
  PROVE  \E f \in [0..m -> S] : Iterates(f, m, A, F)
<1> DEFINE Good(n, f) == f \in [0..n -> S] /\ \A k \in 0..n : f[k] = IF k = 0 THEN A ELSE F[k][f[k - 1]]
           T == {n \in 0..m : ~\E f : Good(n, f)}
<1> SUFFICES ASSUME T # {} PROVE FALSE
  <2>1. m \in 0..m
    OBVIOUS
  <2>2. T = {} => \E f : Good(m, f)
    BY <2>1
  <2>3. QED BY <2>2 DEF Iterates
<1>1. PICK n \in T : \A k \in T : n <= k
  <2>1. T \in SUBSET Nat
    OBVIOUS
  <2> HIDE DEF T
  <2>2. QED BY <2>1, LeastNumber
<1>2. n # 0
  <2>1. Good(0, [k \in 0..0 |-> A])
    OBVIOUS
  <2>2. QED BY <2>1
<1>3. PICK f : Good(n - 1, f)
  <2>1. n - 1 \in 0..m /\ ~(n <= n - 1)
    BY <1>1, <1>2
  <2>2. n - 1 \notin T
    BY <1>1, <2>1
  <2>3. QED BY <2>1, <2>2
<1>4. PICK g : g = [k \in 0..n |-> IF k = n THEN F[n][f[n - 1]] ELSE f[k]]
  OBVIOUS
<1>5. n \in 1..m /\ n - 1 \in 0..(n - 1) /\ F[n] \in [S -> S] /\ f[n - 1] \in S
  <2>1. n \in 1..m /\ n - 1 \in 0..(n - 1)
    BY <1>1, <1>2
  <2>2. QED BY <1>3, <2>1
<1>6. g \in [0..n -> S]
  <2>1. ASSUME NEW k \in 0..n PROVE g[k] \in S
    <3>1. CASE k = n
      BY <1>4, <1>5, <3>1
    <3>2. CASE k # n
      <4>1. k \in 0..(n - 1)
        BY <1>5, <3>2
      <4>2. QED BY <1>3, <1>4, <3>2, <4>1
    <3>3. QED BY <3>1, <3>2
  <2>2. QED BY <1>4, <2>1
<1>7. ASSUME NEW k \in 0..n PROVE g[k] = IF k = 0 THEN A ELSE F[k][g[k - 1]]
  <2>1. CASE k = n
    <3>1. n - 1 \in 0..n /\ n - 1 # n
      BY <1>5
    <3>2. g[k] = F[n][f[n - 1]] /\ g[n - 1] = f[n - 1]
      BY <1>4, <2>1, <3>1
    <3>3. QED BY <1>2, <2>1, <3>2
  <2>2. CASE k # n
    <3>1. k \in 0..(n - 1) /\ (k # 0 => k - 1 \in 0..n /\ k - 1 # n)
      BY <1>5, <2>2
    <3>2. g[k] = f[k] /\ (k # 0 => g[k - 1] = f[k - 1])
      BY <1>4, <2>2, <3>1
    <3>3. f[k] = IF k = 0 THEN A ELSE F[k][f[k - 1]]
      BY <1>3, <3>1
    <3>4. QED BY <3>2, <3>3
  <2>3. QED BY <2>1, <2>2
<1>8. Good(n, g)
  BY <1>6, <1>7
<1>9. QED BY <1>1, <1>8

\* What is behind a pass is what is behind those it waits for.
LEMMA BehindIs ==
  ASSUME Len(graph.audit_passes) \in Nat
  PROVE  \A k \in 0..Len(graph.audit_passes) : \A n \in DOMAIN graph.audit_passes :
           Behind[k][n] = IF k = 0 THEN {n} ELSE UNION {Behind[k - 1][w] : w \in Waits(n)}
<1> DEFINE P == DOMAIN graph.audit_passes
           Step(h) == [n \in P |-> UNION {h[w] : w \in Waits(n)}]
           Is(f) == f = [k \in 0..Len(graph.audit_passes) |-> IF k = 0 THEN [n \in P |-> {n}] ELSE Step(f[k - 1])]
<1>1. Behind = CHOOSE f : Is(f)
  BY DEF Behind
<1>2. PICK N, S, A : N = Len(graph.audit_passes) /\ S = [P -> SUBSET P] /\ A = [n \in P |-> {n}]
  OBVIOUS
<1>3. PICK F : F = [k \in 1..N |-> [h \in S |-> Step(h)]]
  OBVIOUS
<1>4. \A h \in S : Step(h) \in S
  <2> SUFFICES ASSUME NEW h \in [P -> SUBSET P], NEW n \in P PROVE UNION {h[w] : w \in Waits(n)} \subseteq P
    BY <1>2
  <2>1. Waits(n) \subseteq P
    BY DEF Waits
  <2>2. QED BY <2>1
<1> HIDE DEF Step
<1>5. N \in Nat /\ A \in S /\ F \in [1..N -> [S -> S]]
  BY <1>2, <1>3, <1>4
<1>6. PICK f \in [0..N -> S] : Iterates(f, N, A, F)
  BY <1>5, StepsDefine
<1>7. \A k \in 0..N : f[k] = IF k = 0 THEN A ELSE Step(f[k - 1])
  <2> SUFFICES ASSUME NEW k \in 0..N, k # 0 PROVE F[k][f[k - 1]] = Step(f[k - 1])
    BY <1>6 DEF Iterates
  <2>1. k \in 1..N /\ k - 1 \in 0..N
    BY <1>5
  <2>2. f[k - 1] \in S
    BY <2>1
  <2>3. QED BY <1>3, <2>1, <2>2
<1>8. Is(f)
  BY <1>2, <1>6, <1>7
<1>9. Is(Behind)
  <2> HIDE DEF Is
  <2>1. QED BY <1>1, <1>8
<1>10. \A k \in 0..N : Behind[k] = IF k = 0 THEN A ELSE Step(Behind[k - 1])
  BY <1>2, <1>9
<1>11. ASSUME NEW k \in 0..N, NEW n \in P
       PROVE  Behind[k][n] = IF k = 0 THEN {n} ELSE UNION {Behind[k - 1][w] : w \in Waits(n)}
  <2>1. CASE k = 0
    BY <1>2, <1>10, <2>1
  <2>2. CASE k # 0
    <3>1. Behind[k] = Step(Behind[k - 1])
      BY <1>10, <2>2
    <3>2. QED BY <2>2, <3>1 DEF Step
  <2>3. QED BY <2>1, <2>2
<1>12. QED BY <1>2, <1>11

\* Where each pass waits only for passes of a lower rank, nothing is behind any after as
\* many steps as there are ranks.
LEMMA RankedEnds ==
  ASSUME Len(graph.audit_passes) \in Nat, DOMAIN graph.audit_passes = 1..Len(graph.audit_passes),
         NEW rank \in [DOMAIN graph.audit_passes -> 1..Len(graph.audit_passes)],
         \A n \in DOMAIN graph.audit_passes : \A m \in Waits(n) : rank[m] < rank[n]
  PROVE  \A n \in DOMAIN graph.audit_passes : Behind[Len(graph.audit_passes)][n] = {}
<1> DEFINE L == Len(graph.audit_passes)
           ps == DOMAIN graph.audit_passes
           Low(k) == \A n \in ps : \A m \in Behind[k][n] : m \in ps /\ rank[m] + k <= rank[n]
           T == {k \in 0..L : ~Low(k)}
<1>1. Low(0)
  <2>1. 0 \in 0..L
    OBVIOUS
  <2>2. \A n \in ps : Behind[0][n] = {n}
    BY <2>1, BehindIs
  <2>3. QED BY <2>2
<1>2. ASSUME NEW k \in 1..L, Low(k - 1) PROVE Low(k)
  <2>1. SUFFICES ASSUME NEW n \in ps, NEW m \in Behind[k][n] PROVE m \in ps /\ rank[m] + k <= rank[n]
    OBVIOUS
  <2>2. k \in 0..L /\ k # 0
    OBVIOUS
  <2>3. Behind[k][n] = UNION {Behind[k - 1][w] : w \in Waits(n)}
    BY <2>2, BehindIs
  <2>4. PICK w \in Waits(n) : m \in Behind[k - 1][w]
    BY <2>1, <2>3
  <2>5. w \in ps
    BY DEF Waits
  <2>6. m \in ps /\ rank[m] + (k - 1) <= rank[w]
    BY <1>2, <2>4, <2>5
  <2>7. rank[w] < rank[n]
    OBVIOUS
  <2>8. rank[m] \in Nat /\ rank[n] \in Nat /\ rank[w] \in Nat
    BY <2>5, <2>6
  <2>9. QED BY <2>6, <2>7, <2>8
<1> HIDE DEF Low
<1>3. T = {}
  <2> SUFFICES ASSUME T # {} PROVE FALSE
    OBVIOUS
  <2>1. PICK m \in T : \A k \in T : m <= k
    <3>1. T \in SUBSET Nat
      OBVIOUS
    <3> HIDE DEF T
    <3>2. QED BY <3>1, LeastNumber
  <2>2. m # 0 /\ m \in 1..L
    BY <1>1, <2>1
  <2>3. m - 1 \in 0..L /\ m - 1 \notin T
    BY <2>1, <2>2
  <2>4. QED BY <1>2, <2>1, <2>2, <2>3
<1>4. Low(L)
  BY <1>3
<1>5. ASSUME NEW n \in ps, NEW m \in Behind[L][n] PROVE FALSE
  <2>1. m \in ps /\ rank[m] + L <= rank[n]
    BY <1>4, <1>5 DEF Low
  <2>2. rank[m] \in 1..L /\ rank[n] \in 1..L
    BY <2>1
  <2>3. QED BY <2>1, <2>2
<1>6. QED BY <1>5

\* One field of every item.
LEMMA FieldsList ==
  ASSUME NEW s, IsList(s), NEW f
  PROVE  Len(Fields(s, f)) = Len(s) /\ DOMAIN Fields(s, f) = DOMAIN s /\ \A n \in DOMAIN s : Fields(s, f)[n] = s[n][f]
<1>1. DOMAIN s = 1..Len(s) /\ Len(s) \in Nat
  BY ListDomain
<1>2. Fields(s, f) = [n \in 1..Len(s) |-> s[n][f]]
  BY <1>1 DEF Fields
<1>3. QED BY <1>1, <1>2

\* The rules take the passes in the order they are stored.
LEMMA OrderedEnds ==
  ASSUME FormedGraph(graph), PassGraphValid(graph)
  PROVE  \A n \in DOMAIN graph.audit_passes : Behind[Len(graph.audit_passes)][n] = {}
<1> DEFINE ps == graph.audit_passes
           rank == [n \in DOMAIN ps |-> n]
<1>1. IsList(ps) /\ Len(ps) \in Nat /\ DOMAIN ps = 1..Len(ps)
  BY FormedLists, ListDomain
<1>2. ASSUME NEW n \in DOMAIN ps, NEW m \in Waits(n) PROVE m < n
  <2>1. m \in DOMAIN ps /\ ps[m].id \in ToSet(ps[n].prerequisites)
    BY <1>2 DEF Waits
  <2>2. PICK k \in 1..(n - 1) : Fields(ps, "id")[k] = ps[m].id
    BY <2>1 DEF PassGraphValid
  <2>3. k \in DOMAIN ps /\ k < n
    BY <1>1, <2>2
  <2>4. ps[k].id = ps[m].id
    BY <1>1, <2>2, <2>3, FieldsList
  <2>5. Distinct(Fields(ps, "id"))
    BY DEF PassGraphValid
  <2>6. k = m
    BY <2>1, <2>3, <2>4, <2>5, SamePosition
  <2>7. QED BY <2>3, <2>6
<1>3. rank \in [DOMAIN ps -> 1..Len(ps)] /\ \A n \in DOMAIN ps : rank[n] = n
  BY <1>1
<1>4. \A n \in DOMAIN ps : \A m \in Waits(n) : rank[m] < rank[n]
  BY <1>2, <1>3 DEF Waits
<1> HIDE DEF rank
<1>5. QED BY <1>1, <1>3, <1>4, RankedEnds

\* The import takes them in the order of the references of the run, which are as many as
\* the passes: as no kind comes twice, each pass is referred to once.
LEMMA ImportedEnds ==
  ASSUME FormedGraph(graph), Imported(graph)
  PROVE  \A n \in DOMAIN graph.audit_passes : Behind[Len(graph.audit_passes)][n] = {}
<1> DEFINE ps == graph.audit_passes
           L == Len(ps)
           refs == graph.audit_runs[1].passes
           at == [r \in 1..L |-> CHOOSE n \in DOMAIN ps : ps[n].id = refs[r].id]
           rank == [n \in DOMAIN ps |-> CHOOSE r \in 1..L : at[r] = n]
<1>1. IsList(ps) /\ L \in Nat /\ DOMAIN ps = 1..L
  BY FormedLists, ListDomain
<1>2. PassesValid(graph)
  BY DEF Imported, Finalized
<1>3. IsList(refs)
  <2>1. Len(graph.audit_runs) = 1 /\ IsList(graph.audit_runs)
    BY FormedLists DEF Imported, Finalized
  <2>2. 1 \in DOMAIN graph.audit_runs
    BY <2>1, ListDomain
  <2>3. QED BY <2>2, FormedLists
<1>4. Distinct(Fields(ps, "id")) /\ DOMAIN refs = 1..L /\ \A r \in 1..L : \E n \in DOMAIN ps : ps[n].id = refs[r].id
  <2>1. ExactIds(ps, Fields(refs, "id"))
    BY <1>2 DEF PassesValid
  <2>2. Len(Fields(refs, "id")) = L /\ ToSet(Fields(refs, "id")) \subseteq ToSet(Fields(ps, "id"))
    BY <2>1 DEF ExactIds
  <2>3. DOMAIN refs = 1..L
    BY <1>3, <2>2, FieldsList, ListDomain
  <2>4. ASSUME NEW r \in 1..L PROVE \E n \in DOMAIN ps : ps[n].id = refs[r].id
    <3>1. refs[r].id \in ToSet(Fields(refs, "id"))
      BY <1>3, <2>3, FieldsList DEF ToSet
    <3>2. PICK n \in DOMAIN Fields(ps, "id") : Fields(ps, "id")[n] = refs[r].id
      BY <2>2, <3>1 DEF ToSet
    <3>3. QED BY <1>1, <3>2, FieldsList
  <2>5. QED BY <2>1, <2>3, <2>4 DEF ExactIds
<1>5. ASSUME NEW r \in 1..L
      PROVE  at[r] \in DOMAIN ps /\ ps[at[r]].id = refs[r].id /\ Passes(graph)[r] = ps[at[r]]
  <2>1. at[r] \in DOMAIN ps /\ ps[at[r]].id = refs[r].id
    BY <1>4
  <2> HIDE DEF at
  <2>2. One(ps, "id", refs[r].id)
    BY <1>1, <1>4, <2>1, DistinctOne
  <2>3. The(ps, "id", refs[r].id) = ps[at[r]]
    BY <1>1, <2>1, <2>2, OneIsFound
  <2>4. QED BY <1>4, <2>1, <2>3 DEF Passes
<1>6. at \in [1..L -> 1..L]
  BY <1>1, <1>5
<1>7. DOMAIN Passes(graph) = 1..L
  BY <1>4 DEF Passes
<1> HIDE DEF at
<1>8. \A r, q \in 1..L : at[r] = at[q] => r = q
  <2>1. SUFFICES ASSUME NEW r \in 1..L, NEW q \in 1..L, at[r] = at[q] PROVE r = q
    OBVIOUS
  <2>2. Distinct(Fields(Passes(graph), "kind"))
    BY <1>2 DEF PassesValid, KindOrder
  <2>3. Passes(graph)[r] = Passes(graph)[q]
    BY <1>5, <2>1
  <2>4. QED BY <1>7, <2>2, <2>3 DEF Distinct, IsInjective, Fields
<1>9. \A n \in 1..L : \E r \in 1..L : at[r] = n
  <2>1. at \in Injection(1..L, 1..L)
    BY <1>6, <1>8 DEF Injection, IsInjective
  <2>2. IsFiniteSet(1..L)
    BY <1>1, FS_Interval
  <2>3. at \in Surjection(1..L, 1..L)
    BY <2>1, <2>2, FS_Injection
  <2>4. QED BY <2>3 DEF Surjection
<1>10. \A n \in DOMAIN ps : rank[n] \in 1..L /\ at[rank[n]] = n
  BY <1>1, <1>9
<1>11. rank \in [DOMAIN ps -> 1..L]
  BY <1>10
<1> HIDE DEF rank
<1>12. ASSUME NEW n \in DOMAIN ps, NEW m \in Waits(n) PROVE rank[m] < rank[n]
  <2> DEFINE r == rank[n]
  <2>1. m \in DOMAIN ps /\ ps[m].id \in ToSet(ps[n].prerequisites)
    BY <1>12 DEF Waits
  <2>2. r \in 1..L /\ at[r] = n /\ Passes(graph)[r] = ps[n]
    BY <1>5, <1>10
  <2>3. Prerequisites(Passes(graph), r)
    BY <1>2, <1>4, <2>2 DEF PassesValid
  <2>4. PICK q \in 1..(r - 1) : Passes(graph)[q].id = ps[m].id
    BY <2>1, <2>2, <2>3 DEF Prerequisites
  <2>5. q \in 1..L /\ q < r
    BY <1>1, <2>2, <2>4
  <2>6. at[q] \in DOMAIN ps /\ ps[at[q]].id = ps[m].id
    BY <1>5, <2>4, <2>5
  <2>7. at[q] = m
    BY <1>4, <2>1, <2>6, SamePosition
  <2>8. rank[m] = q
    BY <1>8, <1>10, <2>1, <2>5, <2>7
  <2>9. QED BY <2>5, <2>8
<1>13. QED BY <1>1, <1>11, <1>12, RankedEnds

\* Where both see the passes in one order, the rules ask for no more than what consents
\* and continuations add.
LEMMA ImportedOrder ==
  ASSUME GraphInv, ReadInv, scenario = "passes", SchemaValid(graph), Imported(graph),
         Fields(graph.audit_runs[1].passes, "id") = Fields(graph.audit_passes, "id")
  PROVE  Rule1(graph) /\ (PassGraphValid(graph) <=> Continued(graph))
<1> DEFINE ps == graph.audit_passes
           L == Len(ps)
           refs == graph.audit_runs[1].passes
<1>1. FormedGraph(graph) /\ IsList(ps) /\ L \in Nat /\ DOMAIN ps = 1..L /\ IsList(graph.audit_runs)
  BY FormedLists, ListDomain DEF GraphInv
<1>2. Rule1(graph) /\ PassesValid(graph) /\ Owned(graph) /\ Forest(graph)
  BY <1>1, ImportRules, ImportForest DEF Imported, Finalized, GraphLinks
<1>3. 1 \in DOMAIN graph.audit_runs
  BY <1>1, <1>2, ListDomain DEF Rule1
<1>4. IsList(refs) /\ refs # <<>>
  BY <1>1, <1>3, FormedLists DEF SchemaValid, All, ToSet
<1>5. DOMAIN refs = DOMAIN ps /\ (\A n \in DOMAIN ps : refs[n].id = ps[n].id) /\ 1 \in DOMAIN ps
  <2>1. DOMAIN refs = DOMAIN ps
    BY <1>1, <1>4, FieldsList
  <2>2. ASSUME NEW n \in DOMAIN ps PROVE refs[n].id = ps[n].id
    <3>1. Fields(refs, "id")[n] = refs[n].id /\ Fields(ps, "id")[n] = ps[n].id
      BY <1>1, <1>4, <2>1, FieldsList
    <3>2. QED BY <3>1
  <2>3. Len(refs) # 0
    BY <1>4, EmptySeq DEF IsList
  <2>4. QED BY <1>1, <1>4, <2>1, <2>2, <2>3, ListDomain
<1>6. Distinct(Fields(ps, "id"))
  BY <1>2 DEF Forest
<1>7. Passes(graph) = ps
  <2>1. ASSUME NEW n \in DOMAIN ps PROVE The(ps, "id", refs[n].id) = ps[n]
    BY <1>1, <1>5, <1>6, DistinctOne, OneIsFound
  <2>2. ps = [n \in DOMAIN ps |-> ps[n]]
    BY SMTT(30), <1>1 DEF IsList
  <2>3. Passes(graph) = [n \in DOMAIN ps |-> ps[n]]
    BY <1>5, <2>1 DEF Passes
  <2>4. QED BY <2>2, <2>3
<1>8. KindOrder(ps)
  BY <1>2, <1>7 DEF PassesValid
<1>9. Cardinality(Having(ps, "kind", "Standard")) = 1
  <2>1. 1 \in Having(ps, "kind", "Standard")
    BY <1>5, <1>8 DEF Having, KindOrder
  <2>2. \A n \in Having(ps, "kind", "Standard") : n = 1
    BY <1>1, <1>8 DEF Having, KindOrder
  <2>3. Having(ps, "kind", "Standard") = {1}
    BY <2>1, <2>2
  <2>4. QED BY <2>3, FS_Singleton
<1>10. ASSUME NEW x \in All(graph.collector_executions)
       PROVE  One(ps, "id", x.pass) /\ The(ps, "id", x.pass).privilege = x.privilege
  <2>1. PICK p \in All(ps) : p.id = x.pass /\ p.privilege = x.privilege
    BY <1>2 DEF Owned
  <2>2. PICK n \in DOMAIN ps : p = ps[n]
    BY DEF All, ToSet
  <2>3. One(ps, "id", x.pass)
    BY <1>1, <1>6, <2>1, <2>2, DistinctOne
  <2>4. The(ps, "id", x.pass) = p
    BY <1>1, <2>1, <2>2, <2>3, OneIsFound
  <2>5. QED BY <2>1, <2>3, <2>4
<1>11. ASSUME NEW n \in DOMAIN ps, NEW id \in ToSet(ps[n].prerequisites)
       PROVE  \E m \in 1..(n - 1) : Fields(refs, "id")[m] = id
  <2>1. Prerequisites(ps, n)
    BY <1>2, <1>5, <1>7 DEF PassesValid
  <2>2. PICK m \in 1..(n - 1) : ps[m].id = id
    BY <2>1 DEF Prerequisites
  <2>3. m \in DOMAIN refs
    BY <1>1, <1>5, <2>2
  <2>4. Fields(refs, "id")[m] = id
    BY <1>4, <1>5, <2>2, <2>3, FieldsList
  <2>5. QED BY <2>4
<1>12. Distinct(Fields(ps, "kind")) /\ ps[1].kind = "Standard" /\ NotBefore(ps)
  BY <1>8 DEF KindOrder
<1>13. PassGraphValid(graph) <=> Continued(graph)
  BY <1>6, <1>9, <1>10, <1>11, <1>12 DEF PassGraphValid
<1>14. QED BY <1>2, <1>13

\* Import and rules order the passes alike, and neither leaves one waiting for itself.
LEMMA PassStep == GraphInv /\ ReadInv /\ scenario = "passes" => PassVerdictsAgree
<1> SUFFICES ASSUME GraphInv, ReadInv, scenario = "passes" PROVE PassVerdictsAgree
  OBVIOUS
<1>1. FormedGraph(graph) /\ (verdict = Unknown \/ verdict = Judgement)
  BY DEF GraphInv, VerdictInv
<1>2. verdict.imported => Imported(graph) /\ SchemaValid(graph)
  BY <1>1 DEF Unknown, Judgement, ReadInv, SchemaInv
<1>3. ASSUME verdict.ordered PROVE PassGraphValid(graph)
  <2>1. verdict # Unknown
    BY <1>3 DEF Unknown
  <2>2. verdict.ordered = (Rule1(graph) /\ PassGraphValid(graph))
    BY <1>1, <2>1 DEF Judgement
  <2>3. QED BY <1>3, <2>2
<1>4. ASSUME verdict.imported, Fields(graph.audit_runs[1].passes, "id") = Fields(graph.audit_passes, "id")
      PROVE  verdict.ordered = Continued(graph)
  <2>1. Rule1(graph) /\ (PassGraphValid(graph) <=> Continued(graph))
    BY <1>2, <1>4, ImportedOrder
  <2>2. verdict.ordered = (Rule1(graph) /\ PassGraphValid(graph))
    BY <1>1, <1>4 DEF Unknown, Judgement
  <2>3. Continued(graph) \in BOOLEAN /\ PassGraphValid(graph) \in BOOLEAN /\ Rule1(graph) \in BOOLEAN
    BY DEF Continued, PassGraphValid, Rule1
  <2>4. QED BY <2>1, <2>2, <2>3
<1>5. ASSUME verdict.imported \/ verdict.ordered
      PROVE  \A n \in DOMAIN graph.audit_passes : Behind[Len(graph.audit_passes)][n] = {}
  BY <1>1, <1>2, <1>3, <1>5, OrderedEnds, ImportedEnds
<1>6. QED BY <1>4, <1>5 DEF PassVerdictsAgree

-----------------------------------------------------------------------------
(* The order of the log                                                    *)

\* What the schema says of a log.
LEMMA LogForm ==
  ASSUME NEW l \in Log!ActionLogs
  PROVE  /\ Len(l.entries) \in Nat /\ DOMAIN l.entries = 1..Len(l.entries)
         /\ IsFiniteSet(DOMAIN l.entries) /\ Cardinality(DOMAIN l.entries) = Len(l.entries)
         /\ \A p \in DOMAIN l.entries : l.entries[p] \in Log!Entries /\ l.entries[p].n \in Nat /\ l.entries[p].time \in Log!Times
<1>1. l.entries \in Seq(Log!Entries)
  BY DEF Log!ActionLogs
<1>2. Len(l.entries) \in Nat /\ DOMAIN l.entries = 1..Len(l.entries)
  BY <1>1
<1>3. \A p \in DOMAIN l.entries : l.entries[p] \in Log!Entries
  BY <1>1, <1>2
<1>4. \A e \in Log!Entries : e.n \in Nat /\ e.time \in Log!Times
  BY DEF Log!Entries
<1>5. IsFiniteSet(1..Len(l.entries)) /\ Cardinality(1..Len(l.entries)) = Len(l.entries)
  <2>1. Len(l.entries) \in Int /\ 1 \in Int /\ (1 > Len(l.entries) => Len(l.entries) = 0)
    BY <1>2
  <2>2. QED BY <2>1, FS_Interval
<1>6. QED BY <1>2, <1>3, <1>4, <1>5

\* Each place has a rank of its own, and each rank a place.
LEMMA Ranks ==
  ASSUME NEW l \in Log!ActionLogs
  PROVE  /\ \A p, q \in DOMAIN l.entries : Cardinality(Log!UpTo(l, p)) = Cardinality(Log!UpTo(l, q)) => p = q
         /\ \A k \in DOMAIN l.entries : \E p \in DOMAIN l.entries : Cardinality(Log!UpTo(l, p)) = k
<1> DEFINE D == DOMAIN l.entries
           N == Len(l.entries)
<1>1. N \in Nat /\ D = 1..N /\ IsFiniteSet(D) /\ Cardinality(D) = N /\ \A p \in D : l.entries[p].n \in Nat
  BY LogForm
<1>2. PICK r : r = [p \in D |-> Cardinality(Log!UpTo(l, p))]
  OBVIOUS
<1>3. ASSUME NEW p \in D
      PROVE  Log!UpTo(l, p) \subseteq D /\ p \in Log!UpTo(l, p) /\ IsFiniteSet(Log!UpTo(l, p)) /\ Cardinality(Log!UpTo(l, p)) \in 1..N
  <2>1. Log!UpTo(l, p) \subseteq D /\ p \in Log!UpTo(l, p)
    BY <1>1 DEF Log!UpTo, Log!NotAfter
  <2>2. IsFiniteSet(Log!UpTo(l, p)) /\ Cardinality(Log!UpTo(l, p)) <= N
    BY <1>1, <2>1, FS_Subset
  <2>3. Cardinality(Log!UpTo(l, p)) \in Nat /\ Cardinality(Log!UpTo(l, p)) # 0
    BY <2>1, <2>2, FS_CardinalityType, FS_EmptySet
  <2>4. QED BY <1>1, <2>1, <2>2, <2>3
<1>4. ASSUME NEW p \in D, NEW q \in D, ~Log!NotAfter(l, q, p) PROVE r[p] < r[q]
  <2>1. \A w \in D : Log!NotAfter(l, w, p) => Log!NotAfter(l, w, q)
    BY <1>1, <1>4 DEF Log!NotAfter
  <2>2. Log!UpTo(l, p) \subseteq Log!UpTo(l, q) /\ q \notin Log!UpTo(l, p) /\ q \in Log!UpTo(l, q)
    BY <1>3, <1>4, <2>1 DEF Log!UpTo
  <2>3. IsFiniteSet(Log!UpTo(l, q)) /\ IsFiniteSet(Log!UpTo(l, p))
    BY <1>3
  <2>4. Cardinality(Log!UpTo(l, p)) <= Cardinality(Log!UpTo(l, q)) /\ Cardinality(Log!UpTo(l, p)) # Cardinality(Log!UpTo(l, q))
    BY <2>2, <2>3, FS_Subset
  <2>5. r[p] = Cardinality(Log!UpTo(l, p)) /\ r[q] = Cardinality(Log!UpTo(l, q))
    BY <1>2
  <2>6. r[p] \in 1..N /\ r[q] \in 1..N
    BY <1>3, <2>5
  <2>7. QED BY <2>4, <2>5, <2>6
<1>5. \A p, q \in D : r[p] = r[q] => p = q
  <2> SUFFICES ASSUME NEW p \in D, NEW q \in D, r[p] = r[q], p # q PROVE FALSE
    OBVIOUS
  <2>1. ~Log!NotAfter(l, q, p) \/ ~Log!NotAfter(l, p, q)
    BY <1>1 DEF Log!NotAfter
  <2>2. r[p] \in Nat /\ r[q] \in Nat
    BY <1>2, <1>3
  <2>3. QED BY <1>4, <2>1, <2>2
<1>6. r \in [D -> 1..N]
  BY <1>2, <1>3
<1>7. r \in Injection(D, 1..N)
  BY <1>5, <1>6 DEF Injection, IsInjective
<1>8. r \in Surjection(D, 1..N)
  BY <1>1, <1>7, FS_Injection
<1>9. \A k \in D : \E p \in D : r[p] = k
  BY <1>1, <1>8 DEF Surjection
<1>10. QED BY <1>2, <1>5, <1>9

\* The order in which the verifiers walk is a permutation of the places.
LEMMA OrderIs ==
  ASSUME NEW l \in Log!ActionLogs
  PROVE  /\ Log!InOrder(l) \in [DOMAIN l.entries -> DOMAIN l.entries]
         /\ \A k \in DOMAIN l.entries : Cardinality(Log!UpTo(l, Log!InOrder(l)[k])) = k
<1> DEFINE D == DOMAIN l.entries
<1>1. Log!InOrder(l) = [k \in D |-> CHOOSE p \in D : Cardinality(Log!UpTo(l, p)) = k]
  BY DEF Log!InOrder, Log!Cardinality, Cardinality, Log!IsFiniteSet, IsFiniteSet
<1>2. \A k \in D : \E p \in D : Cardinality(Log!UpTo(l, p)) = k
  BY Ranks
<1>3. \A k \in D : Log!InOrder(l)[k] \in D /\ Cardinality(Log!UpTo(l, Log!InOrder(l)[k])) = k
  BY <1>1, <1>2
<1>4. QED BY <1>1, <1>3

\* An order in which the numbers count from zero is the one order of the log.
LEMMA CountedIs ==
  ASSUME NEW l \in Log!ActionLogs, NEW o \in [DOMAIN l.entries -> DOMAIN l.entries],
         \A k \in DOMAIN l.entries : l.entries[o[k]].n = k - 1
  PROVE  /\ o = Log!InOrder(l)
         /\ \A p \in DOMAIN l.entries : \E k \in DOMAIN l.entries : o[k] = p
<1> DEFINE D == DOMAIN l.entries
           N == Len(l.entries)
<1>1. N \in Nat /\ D = 1..N /\ IsFiniteSet(D) /\ Cardinality(D) = N
  BY LogForm
<1>2. \A j, k \in D : o[j] = o[k] => j = k
  <2> SUFFICES ASSUME NEW j \in D, NEW k \in D, o[j] = o[k] PROVE j = k
    OBVIOUS
  <2>1. j - 1 = k - 1 /\ j \in Nat /\ k \in Nat
    BY SMTT(30), <1>1
  <2>2. QED BY <2>1
<1>3. \A p \in D : \E k \in D : o[k] = p
  <2>1. o \in Injection(D, D)
    BY <1>2 DEF Injection, IsInjective
  <2>2. o \in Surjection(D, D)
    BY <1>1, <2>1, FS_Injection
  <2>3. QED BY <2>2 DEF Surjection
<1>4. ASSUME NEW k \in D PROVE Cardinality(Log!UpTo(l, o[k])) = k
  <2> DEFINE g == [j \in 1..k |-> o[j]]
  <2>1. k \in Nat /\ 1..k \subseteq D /\ o[k] \in D
    BY <1>1
  <2>2. ASSUME NEW j \in D PROVE o[j] \in Log!UpTo(l, o[k]) <=> j <= k
    <3>1. j \in Nat /\ k \in Nat /\ l.entries[o[j]].n = j - 1 /\ l.entries[o[k]].n = k - 1 /\ o[j] \in D /\ o[j] \in Nat
      <4>1. j \in Nat /\ k \in Nat
        BY SMTT(30), <1>1
      <4>2. l.entries[o[j]].n = j - 1 /\ l.entries[o[k]].n = k - 1
        OBVIOUS
      <4>3. o[j] \in D
        OBVIOUS
      <4>4. o[j] \in Nat
        BY <1>1, <4>3
      <4>5. QED BY <4>1, <4>2, <4>3, <4>4
    <3>2. Log!NotAfter(l, o[j], o[k]) <=> (j - 1 < k - 1 \/ (j - 1 = k - 1 /\ o[j] <= o[k]))
      BY <3>1 DEF Log!NotAfter
    <3>3. j = k => o[j] <= o[k]
      BY <3>1
    <3>4. QED BY SMTT(30), <3>1, <3>2, <3>3 DEF Log!UpTo
  <2>3. \A j \in 1..k : o[j] \in Log!UpTo(l, o[k])
    BY <2>1, <2>2
  <2>4. \A p \in Log!UpTo(l, o[k]) : \E j \in 1..k : o[j] = p
    <3> SUFFICES ASSUME NEW p \in Log!UpTo(l, o[k]) PROVE \E j \in 1..k : o[j] = p
      OBVIOUS
    <3>1. PICK j \in D : o[j] = p
      BY <1>3 DEF Log!UpTo
    <3>2. j \in 1..k
      BY <1>1, <2>1, <2>2, <3>1
    <3>3. QED BY <3>1, <3>2
  <2>5. g \in Bijection(1..k, Log!UpTo(l, o[k]))
    <3>1. g \in [1..k -> Log!UpTo(l, o[k])]
      BY <2>3
    <3>2. \A i, j \in 1..k : g[i] = g[j] => i = j
      BY <1>2, <2>1
    <3>3. \A p \in Log!UpTo(l, o[k]) : \E j \in 1..k : g[j] = p
      BY <2>4
    <3> HIDE DEF g
    <3>4. QED BY <3>1, <3>2, <3>3 DEF Bijection, Injection, Surjection, IsInjective
  <2>6. IsFiniteSet(1..k) /\ Cardinality(1..k) = k
    <3>1. k \in Int /\ 1 \in Int /\ ~(1 > k) /\ k - 1 + 1 = k
      BY <1>1
    <3>2. QED BY <3>1, FS_Interval
  <2> HIDE DEF g
  <2>7. ExistsBijection(1..k, Log!UpTo(l, o[k]))
    BY <2>5 DEF ExistsBijection
  <2>8. QED BY <2>6, <2>7, FS_Bijection
<1>5. \A k \in D : o[k] = Log!InOrder(l)[k]
  <2> SUFFICES ASSUME NEW k \in D PROVE o[k] = Log!InOrder(l)[k]
    OBVIOUS
  <2>1. Log!InOrder(l)[k] \in D /\ Cardinality(Log!UpTo(l, Log!InOrder(l)[k])) = k
    BY OrderIs
  <2>2. QED BY <1>4, <2>1, Ranks
<1>6. o = Log!InOrder(l)
  BY <1>5, OrderIs
<1>7. QED BY <1>3, <1>6

\* The walk o through the places of a log is a chain.
Chain(l, o, how) ==
  /\ \A n \in DOMAIN l.entries :
       /\ Log!Links(l, o, n) /\ Log!OfRun(l, o, n) /\ l.entries[o[n]].stated
       /\ n > 1 => ~Log!Earlier(how, l.entries[o[n]].time, l.entries[o[n - 1]].time)
  /\ l.sealed

\* A log is chained exactly when some order of its places is a chain.
LEMMA ChainedIs ==
  ASSUME NEW l \in Log!ActionLogs, NEW how
  PROVE  /\ Log!Chained(l, how) <=> Chain(l, Log!InOrder(l), how)
         /\ Log!Chained(l, how) <=> \E o \in [DOMAIN l.entries -> DOMAIN l.entries] : Chain(l, o, how)
<1>1. DOMAIN Log!InOrder(l) = DOMAIN l.entries
  BY OrderIs
<1>2. Log!Chained(l, how) <=> Chain(l, Log!InOrder(l), how)
  BY <1>1 DEF Log!Chained, Chain
<1>3. ASSUME NEW o \in [DOMAIN l.entries -> DOMAIN l.entries], Chain(l, o, how)
      PROVE  o = Log!InOrder(l)
  <2>1. \A k \in DOMAIN l.entries : l.entries[o[k]].n = k - 1
    BY <1>3 DEF Chain, Log!Links
  <2>2. QED BY <2>1, CountedIs
<1>4. QED BY <1>2, <1>3, OrderIs

-----------------------------------------------------------------------------
(* One chain                                                               *)

\* Links that stay in the log are followed step by step.
LEMMA BackIs ==
  ASSUME Len(log.entries) \in Nat, \A n \in 1..Len(log.entries) : log.entries[n].prev \in 0..Len(log.entries)
  PROVE  \A k, n \in 0..Len(log.entries) :
           Log!Back[k][n] = IF k = 0 THEN n
                            ELSE IF Log!Back[k - 1][n] = 0 THEN 0 ELSE log.entries[Log!Back[k - 1][n]].prev
<1> DEFINE N == Len(log.entries)
           Next1(h) == [n \in 0..N |-> IF h[n] = 0 THEN 0 ELSE log.entries[h[n]].prev]
           Is(f) == f = [k \in 0..N |-> IF k = 0 THEN [n \in 0..N |-> n] ELSE Next1(f[k - 1])]
           S == [0..N -> 0..N]
<1>1. Log!Back = CHOOSE f : Is(f)
  BY DEF Log!Back
<1>2. PICK A : A = [n \in 0..N |-> n]
  OBVIOUS
<1>3. PICK F : F = [k \in 1..N |-> [h \in S |-> Next1(h)]]
  OBVIOUS
<1>4. A \in S
  BY <1>2
<1>5. \A h \in S : Next1(h) \in S
  <2> SUFFICES ASSUME NEW h \in S, NEW n \in 0..N
               PROVE  (IF h[n] = 0 THEN 0 ELSE log.entries[h[n]].prev) \in 0..N
    OBVIOUS
  <2>1. h[n] \in 0..N /\ (h[n] # 0 => h[n] \in 1..N)
    OBVIOUS
  <2>2. QED BY <2>1
<1> HIDE DEF Next1, S
<1>6. F \in [1..N -> [S -> S]]
  BY <1>3, <1>5
<1>7. PICK f \in [0..N -> S] : Iterates(f, N, A, F)
  <2>1. PICK m : m = N
    OBVIOUS
  <2>2. PICK X : X = S
    OBVIOUS
  <2>3. m \in Nat /\ A \in X /\ F \in [1..m -> [X -> X]]
    BY <1>4, <1>6, <2>1, <2>2
  <2>4. \E f \in [0..m -> X] : Iterates(f, m, A, F)
    BY <2>3, StepsDefine
  <2>5. QED BY <2>1, <2>2, <2>4
<1>8. \A k \in 0..N : f[k] = IF k = 0 THEN A ELSE Next1(f[k - 1])
  <2> SUFFICES ASSUME NEW k \in 0..N, k # 0 PROVE F[k][f[k - 1]] = Next1(f[k - 1])
    BY <1>7 DEF Iterates
  <2>1. k \in 1..N /\ k - 1 \in 0..N
    OBVIOUS
  <2>2. QED BY <1>3, <1>7, <2>1
<1>9. f = [k \in 0..N |-> IF k = 0 THEN A ELSE Next1(f[k - 1])]
  BY <1>7, <1>8
<1>10. Is(f)
  BY <1>2, <1>9
<1>11. Is(Log!Back)
  <2> HIDE DEF Is
  <2>1. QED BY <1>1, <1>10
<1>12. \A k \in 0..N : Log!Back[k] = IF k = 0 THEN [n \in 0..N |-> n] ELSE Next1(Log!Back[k - 1])
  BY <1>11
<1>13. QED
  <2> SUFFICES ASSUME NEW k \in 0..N, NEW n \in 0..N
               PROVE  Log!Back[k][n] = IF k = 0 THEN n
                        ELSE IF Log!Back[k - 1][n] = 0 THEN 0 ELSE log.entries[Log!Back[k - 1][n]].prev
    OBVIOUS
  <2>1. CASE k = 0
    BY <1>12, <2>1
  <2>2. CASE k # 0
    <3>1. Log!Back[k] = Next1(Log!Back[k - 1])
      BY <1>12, <2>2
    <3>2. QED BY <2>2, <3>1 DEF Next1
  <2>3. QED BY <2>1, <2>2

\* In a chain every entry is one link after the one before it.
LEMMA OneChain ==
  ASSUME log \in Log!ActionLogs, NEW how, Log!Chained(log, how), NEW n \in DOMAIN log.entries
  PROVE  /\ log.entries[n].n < Len(log.entries)
         /\ Log!Back[log.entries[n].n][n] # 0 /\ Log!Back[log.entries[n].n + 1][n] = 0
         /\ \A m \in DOMAIN log.entries \ {n} : log.entries[m].prev # log.entries[n].prev
<1> DEFINE N == Len(log.entries)
           D == DOMAIN log.entries
<1>1. N \in Nat /\ D = 1..N
  BY LogForm
<1>2. PICK o \in [D -> D] : Chain(log, o, how)
  BY ChainedIs
<1>3. \A k \in D : log.entries[o[k]].n = k - 1 /\ log.entries[o[k]].prev = IF k = 1 THEN 0 ELSE o[k - 1]
  BY <1>2 DEF Chain, Log!Links
<1>4. \A p \in D : \E k \in D : o[k] = p
  BY <1>3, CountedIs
<1>5. PICK i \in D : o[i] = n
  BY <1>4
<1>6. \A p \in 1..N : log.entries[p].prev \in 0..N
  <2> SUFFICES ASSUME NEW p \in 1..N PROVE log.entries[p].prev \in 0..N
    OBVIOUS
  <2>1. PICK k \in D : o[k] = p
    BY <1>1, <1>4
  <2>2. k # 1 => k - 1 \in D
    BY <1>1
  <2>3. k # 1 => o[k - 1] \in 1..N
    BY <1>1, <2>2
  <2>4. log.entries[p].prev = IF k = 1 THEN 0 ELSE o[k - 1]
    BY <1>3, <2>1
  <2>5. 0 \in 0..N /\ 1..N \subseteq 0..N
    BY <1>1
  <2>6. QED BY <2>3, <2>4, <2>5
<1>7. \A k \in 0..i : Log!Back[k][n] = IF k < i THEN o[i - k] ELSE 0
  <2> DEFINE T == {k \in 0..i : ~(Log!Back[k][n] = IF k < i THEN o[i - k] ELSE 0)}
  <2> SUFFICES ASSUME T # {} PROVE FALSE
    OBVIOUS
  <2>1. i \in Nat /\ i <= N /\ i # 0 /\ n \in 0..N
    BY <1>1
  <2>2. PICK k \in T : \A j \in T : k <= j
    <3>1. T \in SUBSET Nat
      BY <2>1
    <3> HIDE DEF T
    <3>2. QED BY <3>1, LeastNumber
  <2>3. k \in 0..N /\ k \in 0..i
    BY <2>1, <2>2
  <2>4. Log!Back[k][n] = IF k = 0 THEN n
                         ELSE IF Log!Back[k - 1][n] = 0 THEN 0 ELSE log.entries[Log!Back[k - 1][n]].prev
    BY <1>1, <1>6, <2>1, <2>3, BackIs
  <2>5. CASE k = 0
    <3>1. Log!Back[k][n] = n /\ i - k = i /\ k < i
      BY <2>1, <2>4, <2>5
    <3>2. QED BY <1>5, <2>2, <3>1
  <2>6. CASE k # 0
    <3>1. k - 1 \in 0..i /\ ~(k <= k - 1) /\ k - 1 < i /\ i - (k - 1) \in D
      BY <1>1, <2>1, <2>3, <2>6
    <3>2. Log!Back[k - 1][n] = o[i - (k - 1)]
      BY <2>2, <3>1
    <3>3. PICK j \in D : j = i - (k - 1)
      BY <3>1
    <3>4. o[j] \in D /\ o[j] # 0
      BY <1>1
    <3>5. Log!Back[k][n] = IF j = 1 THEN 0 ELSE o[j - 1]
      BY <1>3, <2>4, <2>6, <3>2, <3>3, <3>4
    <3>6. (j = 1 <=> ~(k < i)) /\ j - 1 = i - k
      BY <2>1, <2>3, <3>3
    <3>7. QED BY <2>2, <3>5, <3>6
  <2>7. QED BY <2>5, <2>6
<1>8. log.entries[n].n = i - 1 /\ i \in Nat /\ i # 0 /\ i <= N
  BY SMTT(30), <1>1, <1>3, <1>5
<1>9. Log!Back[i - 1][n] # 0 /\ Log!Back[i][n] = 0
  <2>1. i - 1 \in 0..i /\ i - 1 < i /\ i - (i - 1) = 1 /\ i \in 0..i /\ ~(i < i) /\ 1 \in D
    BY <1>1, <1>8
  <2>2. Log!Back[i - 1][n] = o[1] /\ Log!Back[i][n] = 0
    BY <1>7, <2>1
  <2>3. o[1] \in D
    BY <2>1
  <2>4. QED BY <1>1, <2>2, <2>3
<1>10. ASSUME NEW m \in D, m # n PROVE log.entries[m].prev # log.entries[n].prev
  <2>1. PICK j \in D : o[j] = m
    BY <1>4
  <2>2. j # i
    BY <1>5, <1>10, <2>1
  <2>3. log.entries[m].prev = (IF j = 1 THEN 0 ELSE o[j - 1]) /\ log.entries[n].prev = IF i = 1 THEN 0 ELSE o[i - 1]
    BY <1>3, <1>5, <2>1
  <2>4. (j # 1 => j - 1 \in D) /\ (i # 1 => i - 1 \in D)
    BY <1>1
  <2>5. (j # 1 => o[j - 1] # 0) /\ (i # 1 => o[i - 1] # 0)
    BY <1>1, <2>4
  <2>6. ASSUME j # 1, i # 1, o[j - 1] = o[i - 1] PROVE FALSE
    <3>1. log.entries[o[j - 1]].n = j - 1 - 1 /\ log.entries[o[i - 1]].n = i - 1 - 1
      BY <1>3, <2>4, <2>6
    <3>2. i \in Nat /\ j \in Nat
      BY <1>1
    <3>3. QED BY <2>2, <2>6, <3>1, <3>2
  <2>7. QED BY <2>2, <2>3, <2>5, <2>6
<1>11. i - 1 + 1 = i /\ i - 1 < N
  BY <1>1, <1>8
<1>12. QED BY <1>8, <1>9, <1>10, <1>11

-----------------------------------------------------------------------------
(* The order of storage                                                    *)

\* l2 is l stored in the order p, with its links renamed along.
StoredAs(l, l2, p, q) ==
  /\ DOMAIN l2.entries = DOMAIN l.entries /\ l2.run = l.run /\ l2.sealed = l.sealed
  /\ \A n \in DOMAIN l.entries :
       LET e == l.entries[p[n]]
           f == l2.entries[n]
       IN  /\ f.n = e.n /\ f.action = e.action /\ f.run = e.run /\ f.time = e.time /\ f.stated = e.stated
           /\ f.prev = IF e.prev \in DOMAIN l.entries THEN q[e.prev] ELSE e.prev

\* p and q undo each other, and the walk o is r through p.
Undo(S, p, q)       == p \in [S -> S] /\ q \in [S -> S] /\ \A n \in S : p[q[n]] = n /\ q[p[n]] = n
Walks(S, o, p, r) == o \in [S -> S] /\ r \in [S -> S] /\ \A n \in S : o[n] = p[r[n]]

\* A walk is a chain of the one exactly when it is a chain of the other.
LEMMA StoredChain ==
  ASSUME NEW l \in Log!ActionLogs, NEW l2, NEW how, NEW p, NEW q, NEW o, NEW r,
         StoredAs(l, l2, p, q), Undo(DOMAIN l.entries, p, q), Walks(DOMAIN l.entries, o, p, r)
  PROVE  Chain(l, o, how) <=> Chain(l2, r, how)
<1> DEFINE D == DOMAIN l.entries
<1> USE DEF Undo, Walks
<1>1. Len(l.entries) \in Nat /\ D = 1..Len(l.entries)
  BY LogForm
<1>6. \A n \in D :
        /\ l2.entries[n].n = l.entries[p[n]].n /\ l2.entries[n].action = l.entries[p[n]].action
        /\ l2.entries[n].run = l.entries[p[n]].run /\ l2.entries[n].time = l.entries[p[n]].time
        /\ l2.entries[n].stated = l.entries[p[n]].stated
        /\ l2.entries[n].prev = IF l.entries[p[n]].prev \in D THEN q[l.entries[p[n]].prev] ELSE l.entries[p[n]].prev
  BY DEF StoredAs
<1>2. ASSUME NEW n \in D
      PROVE  /\ Log!Links(l, o, n) <=> Log!Links(l2, r, n)
             /\ Log!OfRun(l, o, n) <=> Log!OfRun(l2, r, n)
             /\ l.entries[o[n]].stated = l2.entries[r[n]].stated
             /\ l.entries[o[n]].time = l2.entries[r[n]].time
  <2>1. r[n] \in D /\ o[n] = p[r[n]]
    OBVIOUS
  <2>2. PICK e, f : e = l.entries[o[n]] /\ f = l2.entries[r[n]]
    OBVIOUS
  <2>3. /\ f.n = e.n /\ f.action = e.action /\ f.run = e.run /\ f.time = e.time /\ f.stated = e.stated
        /\ f.prev = IF e.prev \in D THEN q[e.prev] ELSE e.prev
    <3>1. PICK w \in D : w = r[n]
      BY <2>1
    <3>2. e = l.entries[p[w]] /\ f = l2.entries[w]
      BY <2>1, <2>2, <3>1
    <3>3. QED BY <1>6, <3>2
  <2>8. f.prev = (IF n = 1 THEN 0 ELSE r[n - 1]) <=> e.prev = IF n = 1 THEN 0 ELSE o[n - 1]
    <3>1. 0 \notin D
      BY <1>1
    <3>2. PICK x, y : x = e.prev /\ y = f.prev
      OBVIOUS
    <3>3. y = IF x \in D THEN q[x] ELSE x
      BY <2>3, <3>2
    <3>4. CASE n = 1
      <4>1. x \in D => q[x] \in D
        OBVIOUS
      <4>2. y = 0 <=> x = 0
        BY <3>1, <3>3, <4>1
      <4>3. QED BY <3>2, <3>4, <4>2
    <3>5. CASE n # 1
      <4>1. n - 1 \in D
        BY <1>1, <3>5
      <4>2. PICK m \in D : m = n - 1
        BY <4>1
      <4>3. r[m] \in D /\ o[m] = p[r[m]] /\ o[m] \in D
        OBVIOUS
      <4>4. q[o[m]] = r[m]
        BY <4>3
      <4>5. x \in D => p[q[x]] = x /\ q[x] \in D
        OBVIOUS
      <4>6. y = r[m] <=> x = o[m]
        BY <3>3, <4>3, <4>4, <4>5
      <4>7. QED BY <3>2, <3>5, <4>2, <4>6
    <3>6. QED BY <3>4, <3>5
  <2>4. Log!Links(l, o, n) <=> Log!Links(l2, r, n)
    BY <2>2, <2>3, <2>8 DEF Log!Links
  <2>5. \A m \in 1..(n - 1) : l2.entries[r[m]].action = l.entries[o[m]].action
    <3> SUFFICES ASSUME NEW m \in 1..(n - 1) PROVE l2.entries[r[m]].action = l.entries[o[m]].action
      OBVIOUS
    <3>1. m \in D
      BY <1>1
    <3>2. r[m] \in D /\ o[m] = p[r[m]]
      BY <3>1
    <3>3. QED BY ZenonT(30), <1>6, <3>2
  <2>6. Log!OfRun(l, o, n) <=> Log!OfRun(l2, r, n)
    <3>1. l2.run = l.run
      BY DEF StoredAs
    <3>2. QED BY <2>2, <2>3, <2>5, <3>1 DEF Log!OfRun
  <2>7. QED BY <2>2, <2>3, <2>4, <2>6
<1>3. \A n \in D : n > 1 => n - 1 \in D
  BY <1>1
<1>4. DOMAIN l2.entries = D /\ l2.sealed = l.sealed
  BY DEF StoredAs
<1>5. QED BY <1>2, <1>3, <1>4 DEF Chain

\* So the verdict of the import is that of the log however it is stored.
LEMMA StorageStep ==
  log \in Log!ActionLogs /\ (verified => ("import" \in accepted <=> Log!ImportAccepts(log))) => Log!StorageOrderIrrelevant
<1> SUFFICES ASSUME log \in Log!ActionLogs, verified, "import" \in accepted <=> Log!ImportAccepts(log),
                    NEW p \in [DOMAIN log.entries -> DOMAIN log.entries], Log!IsInjective(p)
             PROVE  LET moved(d) == IF d \in DOMAIN p THEN CHOOSE n \in DOMAIN p : p[n] = d ELSE d
                    IN  ("import" \in accepted) = Log!ImportAccepts([log EXCEPT !.entries =
                          [n \in DOMAIN p |-> [log.entries[p[n]] EXCEPT !.prev = moved(@)]]])
  BY DEF Log!StorageOrderIrrelevant
<1> DEFINE D == DOMAIN log.entries
           moved(d) == IF d \in DOMAIN p THEN CHOOSE n \in DOMAIN p : p[n] = d ELSE d
<1>1. Len(log.entries) \in Nat /\ D = 1..Len(log.entries) /\ IsFiniteSet(D) /\ \A n \in D : log.entries[n] \in Log!Entries
  BY LogForm
<1>2. \A m, n \in D : p[m] = p[n] => m = n
  BY DEF Log!IsInjective
<1>3. \A d \in D : \E n \in D : p[n] = d
  <2>1. p \in Injection(D, D)
    BY <1>2 DEF Injection, IsInjective
  <2>2. p \in Surjection(D, D)
    BY <1>1, <2>1, FS_Injection
  <2>3. QED BY <2>2 DEF Surjection
<1>4. PICK q : q = [d \in D |-> moved(d)]
  OBVIOUS
<1>5. \A d \in D : moved(d) \in D /\ p[moved(d)] = d
  BY <1>3
<1>6. q \in [D -> D] /\ \A n \in D : p[q[n]] = n /\ q[p[n]] = n
  <2>1. q \in [D -> D] /\ \A n \in D : p[q[n]] = n
    BY <1>4, <1>5
  <2>2. ASSUME NEW n \in D PROVE q[p[n]] = n
    <3>1. p[n] \in D /\ q[p[n]] \in D
      BY <2>1
    <3>2. p[q[p[n]]] = p[n]
      BY <2>1, <3>1
    <3>3. QED BY <1>2, <3>1, <3>2
  <2>3. QED BY <2>1, <2>2
<1>7. \A d : moved(d) = IF d \in D THEN q[d] ELSE d
  BY <1>4
<1> HIDE DEF moved
<1>8. PICK es : es = [n \in D |-> [log.entries[p[n]] EXCEPT !.prev = moved(@)]]
  OBVIOUS
<1>9. PICK l2 : l2 = [log EXCEPT !.entries = es]
  OBVIOUS
<1>10. ASSUME NEW n \in D
       PROVE  LET e == log.entries[p[n]]
                  f == es[n]
              IN  /\ f \in Log!Entries
                  /\ f.n = e.n /\ f.action = e.action /\ f.run = e.run /\ f.time = e.time /\ f.stated = e.stated
                  /\ f.prev = IF e.prev \in D THEN q[e.prev] ELSE e.prev
  <2>1. PICK e : e = log.entries[p[n]]
    OBVIOUS
  <2>2. e \in Log!Entries
    BY <1>1, <2>1
  <2>3. es[n] = [e EXCEPT !.prev = moved(e.prev)]
    BY <1>8, <2>1
  <2>4. e.prev \in Nat
    BY <2>2 DEF Log!Entries
  <2>5. moved(e.prev) = (IF e.prev \in D THEN q[e.prev] ELSE e.prev) /\ moved(e.prev) \in Nat
    <3>1. e.prev \in D => q[e.prev] \in D
      BY <1>6
    <3>2. QED BY <1>1, <1>7, <2>4, <3>1
  <2>6. PICK v \in Nat : v = moved(e.prev)
    BY <2>5
  <2>7. /\ [e EXCEPT !.prev = v] \in Log!Entries
        /\ [e EXCEPT !.prev = v].n = e.n /\ [e EXCEPT !.prev = v].action = e.action /\ [e EXCEPT !.prev = v].run = e.run
        /\ [e EXCEPT !.prev = v].time = e.time /\ [e EXCEPT !.prev = v].stated = e.stated /\ [e EXCEPT !.prev = v].prev = v
    BY <2>2 DEF Log!Entries
  <2>8. QED BY <2>1, <2>3, <2>5, <2>6, <2>7
<1>11. l2 \in Log!ActionLogs /\ l2.entries = es /\ l2.run = log.run /\ l2.sealed = log.sealed
  <2>1. es \in Seq(Log!Entries)
    <3>1. es \in [1..Len(log.entries) -> Log!Entries]
      BY <1>1, <1>8, <1>10
    <3>2. QED BY <1>1, <3>1
  <2>2. QED BY <1>9, <2>1 DEF Log!ActionLogs
<1>12. DOMAIN l2.entries = D
  BY <1>8, <1>11
<1>13. StoredAs(log, l2, p, q)
  BY <1>10, <1>11, <1>12 DEF StoredAs
<1>14. Log!Chained(log, "text") <=> Log!Chained(l2, "text")
  <2>1. ASSUME NEW o \in [D -> D], Chain(log, o, "text") PROVE \E r \in [D -> D] : Chain(l2, r, "text")
    <3>1. PICK r \in [D -> D] : \A n \in D : r[n] = q[o[n]]
      <4>1. [n \in D |-> q[o[n]]] \in [D -> D]
        BY <1>6
      <4>2. QED BY <4>1
    <3>2. \A n \in D : o[n] = p[r[n]]
      BY <1>6, <3>1
    <3>3. Chain(log, o, "text") <=> Chain(l2, r, "text")
      <4>1. Undo(D, p, q) /\ Walks(D, o, p, r)
        BY <1>6, <3>1, <3>2 DEF Undo, Walks
      <4>2. QED BY <1>13, <4>1, StoredChain
    <3>4. QED BY <2>1, <3>3
  <2>2. ASSUME NEW r \in [D -> D], Chain(l2, r, "text") PROVE \E o \in [D -> D] : Chain(log, o, "text")
    <3>1. PICK o \in [D -> D] : \A n \in D : o[n] = p[r[n]]
      <4>1. [n \in D |-> p[r[n]]] \in [D -> D]
        OBVIOUS
      <4>2. QED BY <4>1
    <3>2. Chain(log, o, "text") <=> Chain(l2, r, "text")
      <4>1. Undo(D, p, q) /\ Walks(D, o, p, r)
        BY <1>6, <3>1 DEF Undo, Walks
      <4>2. QED BY <1>13, <4>1, StoredChain
    <3>3. QED BY <2>2, <3>2
  <2>3. QED BY <1>11, <1>12, <2>1, <2>2, ChainedIs
<1>15. Log!ImportAccepts(log) <=> Log!ImportAccepts(l2)
  BY <1>14 DEF Log!ImportAccepts
<1>16. DOMAIN p = D
  OBVIOUS
<1>17. ("import" \in accepted) = Log!ImportAccepts(l2)
  <2>1. Log!ImportAccepts(l2) \in BOOLEAN
    BY DEF Log!ImportAccepts, Log!Chained
  <2>2. QED BY <1>15, <2>1
<1>18. QED BY <1>8, <1>9, <1>16, <1>17 DEF moved

-----------------------------------------------------------------------------
(* Time as text and as a date                                              *)

\* The first n digits agree, and the first that differs is lower.
SameTo(t, u, n) == t.sec = u.sec /\ \A i \in 1..n : Log!Digit(t, i) = Log!Digit(u, i)
LowerBy(t, u, n) ==
  \/ t.sec < u.sec
  \/ \E i \in 1..n : Log!Digit(t, i) < Log!Digit(u, i) /\ SameTo(t, u, i - 1)

\* A digit is one, and zero where nothing is written.
LEMMA DigitIs ==
  ASSUME NEW t \in Log!Times, NEW n \in Nat
  PROVE  Log!Digit(t, n) \in 0..9
<1>1. t.frac \in Seq(0..9)
  BY DEF Log!Times
<1>2. QED BY <1>1 DEF Log!Digit

\* What is read digit by digit.
LEMMA ReadIs ==
  ASSUME NEW t \in Log!Times, NEW d \in Nat
  PROVE  \E v \in [0..d -> Nat] :
           /\ Log!Read(t, d) = v[d] /\ v[0] = t.sec
           /\ \A k \in 1..d : v[k] = 10 * v[k - 1] + Log!Digit(t, k)
<1> DEFINE Is(f) == f = [n \in 0..d |-> IF n = 0 THEN t.sec ELSE 10 * f[n - 1] + Log!Digit(t, n)]
<1>1. Log!Read(t, d) = (CHOOSE f : Is(f))[d]
  BY DEF Log!Read
<1>2. t.sec \in Nat
  BY DEF Log!Times
<1>3. PICK F : F = [k \in 1..d |-> [v \in Nat |-> 10 * v + Log!Digit(t, k)]]
  OBVIOUS
<1>4. F \in [1..d -> [Nat -> Nat]]
  <2>1. \A k \in 1..d : Log!Digit(t, k) \in Nat
    BY DigitIs
  <2>2. \A k \in 1..d : [v \in Nat |-> 10 * v + Log!Digit(t, k)] \in [Nat -> Nat]
    BY <2>1
  <2>3. QED BY <1>3, <2>2
<1>5. PICK f \in [0..d -> Nat] : Iterates(f, d, t.sec, F)
  BY <1>2, <1>4, StepsDefine
<1>6. \A k \in 0..d : f[k] = IF k = 0 THEN t.sec ELSE 10 * f[k - 1] + Log!Digit(t, k)
  <2> SUFFICES ASSUME NEW k \in 0..d, k # 0 PROVE F[k][f[k - 1]] = 10 * f[k - 1] + Log!Digit(t, k)
    BY <1>5 DEF Iterates
  <2>1. k \in 1..d /\ k - 1 \in 0..d
    OBVIOUS
  <2>2. f[k - 1] \in Nat
    BY <2>1
  <2>3. QED BY <1>3, <2>1, <2>2
<1>7. Is(f)
  BY <1>5, <1>6
<1> DEFINE v == CHOOSE g : Is(g)
<1>8. Is(v)
  <2> HIDE DEF Is
  <2>1. QED BY <1>7
<1> HIDE DEF v
<1>9. \A k \in 0..d : v[k] = f[k]
  <2> DEFINE T == {k \in 0..d : v[k] # f[k]}
  <2> SUFFICES ASSUME T # {} PROVE FALSE
    OBVIOUS
  <2>1. PICK k \in T : \A j \in T : k <= j
    <3>1. T \in SUBSET Nat
      OBVIOUS
    <3> HIDE DEF T
    <3>2. QED BY <3>1, LeastNumber
  <2>2. v[k] = IF k = 0 THEN t.sec ELSE 10 * v[k - 1] + Log!Digit(t, k)
    BY <1>8, <2>1
  <2>3. f[k] = IF k = 0 THEN t.sec ELSE 10 * f[k - 1] + Log!Digit(t, k)
    BY <1>6, <2>1
  <2>4. CASE k = 0
    BY <2>1, <2>2, <2>3, <2>4
  <2>5. CASE k # 0
    <3>1. k - 1 \in 0..d /\ ~(k <= k - 1)
      BY <2>1, <2>5
    <3>2. v[k - 1] = f[k - 1]
      BY <2>1, <3>1
    <3>3. QED BY <2>1, <2>2, <2>3, <2>5, <3>2
  <2>6. QED BY <2>4, <2>5
<1>10. Log!Read(t, d) = f[d]
  BY <1>1, <1>9 DEF v
<1>11. f[0] = t.sec /\ \A k \in 1..d : f[k] = 10 * f[k - 1] + Log!Digit(t, k)
  BY <1>6
<1>12. QED BY <1>10, <1>11

\* A place up to k comes before k or is k.
LEMMA LastOfInterval ==
  ASSUME NEW d \in Nat, NEW k \in 1..d
  PROVE  \A i : i \in 1..k <=> i \in 1..(k - 1) \/ i = k
<1>1. k \in Nat /\ k >= 1
  OBVIOUS
<1> SUFFICES ASSUME NEW i PROVE i \in 1..k <=> i \in 1..(k - 1) \/ i = k
  OBVIOUS
<1>2. QED BY ONLY <1>1, SMTT(30)

\* Numbers of one length compare as their digits do.
LEMMA ReadCompares ==
  ASSUME NEW t \in Log!Times, NEW u \in Log!Times, NEW d \in Nat
  PROVE  Log!Read(t, d) < Log!Read(u, d) <=> LowerBy(t, u, d)
<1>1. PICK v \in [0..d -> Nat] :
        /\ Log!Read(t, d) = v[d] /\ v[0] = t.sec /\ \A k \in 1..d : v[k] = 10 * v[k - 1] + Log!Digit(t, k)
  BY ReadIs
<1>2. PICK w \in [0..d -> Nat] :
        /\ Log!Read(u, d) = w[d] /\ w[0] = u.sec /\ \A k \in 1..d : w[k] = 10 * w[k - 1] + Log!Digit(u, k)
  BY ReadIs
<1> DEFINE Good(k) == (v[k] < w[k] <=> LowerBy(t, u, k)) /\ (v[k] = w[k] <=> SameTo(t, u, k))
           T == {k \in 0..d : ~Good(k)}
<1>3. T = {}
  <2> SUFFICES ASSUME T # {} PROVE FALSE
    OBVIOUS
  <2>1. PICK k \in T : \A j \in T : k <= j
    <3>1. T \in SUBSET Nat
      OBVIOUS
    <3> HIDE DEF T
    <3>2. QED BY <3>1, LeastNumber
  <2>2. CASE k = 0
    <3>1. Good(0)
      BY <1>1, <1>2 DEF LowerBy, SameTo
    <3>2. QED BY <2>1, <2>2, <3>1
  <2>3. CASE k # 0
    <3>1. k \in 1..d /\ k - 1 \in 0..d /\ ~(k <= k - 1)
      BY <2>1, <2>3
    <3>2. Good(k - 1)
      BY <2>1, <3>1
    <3>3. PICK a, b, x, y : a = v[k - 1] /\ b = w[k - 1] /\ x = Log!Digit(t, k) /\ y = Log!Digit(u, k)
      OBVIOUS
    <3>4. a \in Nat /\ b \in Nat /\ x \in 0..9 /\ y \in 0..9 /\ v[k] = 10 * a + x /\ w[k] = 10 * b + y
      <4>1. a \in Nat /\ b \in Nat
        BY <3>1, <3>3
      <4>2. x \in 0..9 /\ y \in 0..9
        <5>1. k \in Nat
          BY <3>1
        <5>2. Log!Digit(t, k) \in 0..9 /\ Log!Digit(u, k) \in 0..9
          BY <5>1, DigitIs
        <5>3. QED BY <3>3, <5>2
      <4>3. QED BY <1>1, <1>2, <3>1, <3>3, <4>1, <4>2
    <3>5. (v[k] < w[k] <=> a < b \/ (a = b /\ x < y)) /\ (v[k] = w[k] <=> a = b /\ x = y)
      BY <3>4
    <3>6. SameTo(t, u, k) <=> SameTo(t, u, k - 1) /\ x = y
      <4>1. \A i : i \in 1..k <=> i \in 1..(k - 1) \/ i = k
        BY <3>1, LastOfInterval
      <4>2. QED BY <3>3, <4>1 DEF SameTo
    <3>7. LowerBy(t, u, k) <=> LowerBy(t, u, k - 1) \/ (SameTo(t, u, k - 1) /\ x < y)
      <4>1. \A i : i \in 1..k <=> i \in 1..(k - 1) \/ i = k
        BY <3>1, LastOfInterval
      <4>2. QED BY <3>3, <4>1 DEF LowerBy
    <3>8. Good(k)
      BY <3>2, <3>3, <3>5, <3>6, <3>7
    <3>9. QED BY <2>1, <3>8
  <2>4. QED BY <2>2, <2>3
<1>4. Good(d)
  BY <1>3
<1>5. QED BY <1>1, <1>2, <1>4

\* What the text of a timestamp is compared by.
LEMMA WrittenIs ==
  ASSUME NEW t \in Log!Times
  PROVE  /\ Len(t.frac) = 0 => Len(Log!Written(t)) = 1 /\ Log!Written(t)[1] = 99
         /\ Len(t.frac) # 0 => /\ Len(Log!Written(t)) = Len(t.frac) + 2
                               /\ Log!Written(t)[1] = 0 /\ Log!Written(t)[Len(t.frac) + 2] = 99
                               /\ \A i \in 1..Len(t.frac) : Log!Written(t)[i + 1] = Log!Digit(t, i) + 1
<1>1. t.frac \in Seq(0..9) /\ Len(t.frac) \in Nat /\ DOMAIN t.frac = 1..Len(t.frac)
  BY DEF Log!Times
<1>2. CASE Len(t.frac) = 0
  <2>1. t.frac = <<>>
    BY <1>1, <1>2, EmptySeq
  <2>2. Log!Written(t) = <<>> \o <<99>>
    BY <2>1 DEF Log!Written
  <2>3. QED BY <1>2, <2>2
<1>3. CASE Len(t.frac) # 0
  <2>1. PICK x : x = [n \in DOMAIN t.frac |-> t.frac[n] + 1]
    OBVIOUS
  <2>2. PICK d \in Nat : d = Len(t.frac)
    BY <1>1
  <2>3. x \in Seq(Nat) /\ Len(x) = d /\ \A i \in 1..d : x[i] = t.frac[i] + 1 /\ x[i] \in Nat
    <3>1. \A i \in 1..d : t.frac[i] \in 0..9
      BY <1>1, <2>2
    <3>2. x = [i \in 1..d |-> t.frac[i] + 1]
      BY <1>1, <2>1, <2>2
    <3>3. x \in [1..d -> Nat]
      BY <3>1, <3>2
    <3>4. QED BY <3>2, <3>3
  <2>4. t.frac # <<>>
    BY <1>3
  <2>5. Log!Written(t) = <<0>> \o x \o <<99>>
    BY <2>1, <2>4 DEF Log!Written
  <2>6. PICK y : y = <<0>> \o x
    OBVIOUS
  <2>7. y \in Seq(Nat) /\ Len(y) = d + 1 /\ y[1] = 0 /\ \A i \in 1..d : y[i + 1] = x[i]
    <3>1. <<0>> \in Seq(Nat) /\ Len(<<0>>) = 1 /\ <<0>>[1] = 0
      OBVIOUS
    <3>2. QED BY <2>3, <2>6, <3>1
  <2>8. PICK z : z = y \o <<99>>
    OBVIOUS
  <2>9. Len(z) = d + 2 /\ z[d + 2] = 99 /\ \A i \in 1..(d + 1) : z[i] = y[i]
    <3>1. <<99>> \in Seq(Nat) /\ Len(<<99>>) = 1 /\ <<99>>[1] = 99
      OBVIOUS
    <3>2. QED BY <2>7, <2>8, <3>1
  <2>10. Log!Written(t) = z
    BY <2>5, <2>6, <2>8
  <2>11. z[1] = 0
    BY <2>7, <2>9
  <2>12. \A i \in 1..d : z[i + 1] = Log!Digit(t, i) + 1
    <3> SUFFICES ASSUME NEW i \in 1..d PROVE z[i + 1] = Log!Digit(t, i) + 1
      OBVIOUS
    <3>1. i + 1 \in 1..(d + 1) /\ i \in DOMAIN t.frac
      BY <1>1, <2>2
    <3>2. z[i + 1] = t.frac[i] + 1
      BY <2>3, <2>7, <2>9, <3>1
    <3>3. QED BY <3>1, <3>2 DEF Log!Digit
  <2>13. QED BY <1>3, <2>2, <2>9, <2>10, <2>11, <2>12
<1>4. QED BY <1>2, <1>3

\* Texts of one precision compare as their digits do.
LEMMA TextCompares ==
  ASSUME NEW t \in Log!Times, NEW u \in Log!Times, NEW d \in Nat, Len(t.frac) = d, Len(u.frac) = d
  PROVE  Log!BeforeText(t, u) <=> LowerBy(t, u, d)
<1> DEFINE First(a, b, n) == a[n] < b[n] /\ \A m \in 1..(n - 1) : a[m] = b[m]
<1>1. PICK a, b : a = Log!Written(t) /\ b = Log!Written(u)
  OBVIOUS
<1>2. Len(a) = Len(b) /\ Len(a) \in Nat
  BY <1>1, WrittenIs
<1>3. Log!BeforeText(t, u) <=> t.sec < u.sec \/ (t.sec = u.sec /\ \E n \in 1..Len(a) : First(a, b, n))
  <2>1. (IF Len(a) < Len(b) THEN Len(a) ELSE Len(b)) = Len(a)
    BY <1>2
  <2>2. QED BY <1>1, <2>1 DEF Log!BeforeText
<1>4. CASE d = 0
  <2>1. Len(a) = 1 /\ a[1] = 99 /\ b[1] = 99
    BY <1>1, <1>4, WrittenIs
  <2>2. ~\E n \in 1..Len(a) : First(a, b, n)
    BY <2>1
  <2>3. ~\E i \in 1..d : TRUE
    BY <1>4
  <2>4. QED BY <1>3, <2>2, <2>3 DEF LowerBy
<1>5. CASE d # 0
  <2>1. Len(a) = d + 2 /\ a[1] = 0 /\ b[1] = 0 /\ a[d + 2] = 99 /\ b[d + 2] = 99
    BY <1>1, <1>5, WrittenIs
  <2>2. \A i \in 1..d : a[i + 1] = Log!Digit(t, i) + 1 /\ b[i + 1] = Log!Digit(u, i) + 1
    BY <1>1, <1>5, WrittenIs
  <2>3. \A i \in 1..d : Log!Digit(t, i) \in Nat /\ Log!Digit(u, i) \in Nat
    BY DigitIs
  <2>4. ASSUME NEW i \in 1..d
        PROVE  First(a, b, i + 1) <=> Log!Digit(t, i) < Log!Digit(u, i) /\ \A j \in 1..(i - 1) : Log!Digit(t, j) = Log!Digit(u, j)
    <3>1. a[i + 1] < b[i + 1] <=> Log!Digit(t, i) < Log!Digit(u, i)
      BY <2>2, <2>3
    <3>2. ASSUME NEW j \in 1..(i - 1) PROVE a[j + 1] = b[j + 1] <=> Log!Digit(t, j) = Log!Digit(u, j)
      <4>1. j \in 1..d
        OBVIOUS
      <4>2. QED BY <2>2, <2>3, <4>1
    <3>3. (\A m \in 1..i : a[m] = b[m]) <=> \A j \in 1..(i - 1) : a[j + 1] = b[j + 1]
      <4>1. \A m \in 1..i : m = 1 \/ (m - 1 \in 1..(i - 1) /\ (m - 1) + 1 = m)
        OBVIOUS
      <4>2. \A j \in 1..(i - 1) : j + 1 \in 1..i
        OBVIOUS
      <4>3. QED BY <2>1, <4>1, <4>2
    <3>4. i + 1 - 1 = i
      OBVIOUS
    <3>5. QED BY SMTT(30), <3>1, <3>2, <3>3, <3>4
  <2>5. \A n \in 1..Len(a) : First(a, b, n) => n - 1 \in 1..d /\ n - 1 + 1 = n
    <3> SUFFICES ASSUME NEW n \in 1..(d + 2), First(a, b, n) PROVE n - 1 \in 1..d /\ n - 1 + 1 = n
      BY <2>1
    <3>1. n # 1 /\ n # d + 2
      BY <2>1
    <3>2. QED BY <3>1
  <2>6. \A i \in 1..d : i + 1 \in 1..Len(a)
    BY <2>1
  <2> HIDE DEF First
  <2>7. (\E n \in 1..Len(a) : First(a, b, n)) <=> \E i \in 1..d : First(a, b, i + 1)
    BY <2>5, <2>6
  <2>8. QED BY <1>3, <2>4, <2>7 DEF LowerBy, SameTo
<1>6. QED BY <1>4, <1>5

\* Decimals that neither has change nothing.
LEMMA MoreDecimals ==
  ASSUME NEW t \in Log!Times, NEW u \in Log!Times, NEW d \in Nat, NEW e \in Nat, d <= e, Len(t.frac) = d, Len(u.frac) = d
  PROVE  LowerBy(t, u, e) <=> LowerBy(t, u, d)
<1>1. \A i \in 1..e : i \notin 1..d => Log!Digit(t, i) = 0 /\ Log!Digit(u, i) = 0
  <2>1. DOMAIN t.frac = 1..d /\ DOMAIN u.frac = 1..d
    BY DEF Log!Times
  <2>2. QED BY <2>1 DEF Log!Digit
<1>2. 1..d \subseteq 1..e
  OBVIOUS
<1>3. QED BY <1>1, <1>2 DEF LowerBy

\* Where text and date compare alike, so do the two verifiers.
LEMMA AgreeStep ==
  log \in Log!ActionLogs
  /\ (verified => ("import" \in accepted <=> Log!ImportAccepts(log)) /\ ("xobj" \in accepted <=> Log!XobjAccepts(log)))
    => Log!VerifiersAgree
<1> SUFFICES ASSUME log \in Log!ActionLogs, verified, "import" \in accepted <=> Log!ImportAccepts(log),
                    "xobj" \in accepted <=> Log!XobjAccepts(log),
                    NEW d \in 0..Millis, \A n \in DOMAIN log.entries : Len(log.entries[n].time.frac) = d
             PROVE  "import" \in accepted <=> "xobj" \in accepted
  BY DEF Log!VerifiersAgree
<1> DEFINE D == DOMAIN log.entries
<1>1. Millis \in Nat /\ d \in Nat /\ d <= Millis
  BY LogAssumption
<1>2. ASSUME NEW m \in D, NEW n \in D
      PROVE  Log!Earlier("text", log.entries[m].time, log.entries[n].time) <=> Log!Earlier("date", log.entries[m].time, log.entries[n].time)
  <2>1. PICK t, u : t = log.entries[m].time /\ u = log.entries[n].time
    OBVIOUS
  <2>2. t \in Log!Times /\ u \in Log!Times /\ Len(t.frac) = d /\ Len(u.frac) = d
    BY <2>1, LogForm
  <2>3. Log!BeforeText(t, u) <=> LowerBy(t, u, d)
    BY <1>1, <2>2, TextCompares
  <2>4. Log!BeforeDate(t, u) <=> LowerBy(t, u, Millis)
    BY <1>1, <2>2, ReadCompares DEF Log!BeforeDate
  <2>5. LowerBy(t, u, Millis) <=> LowerBy(t, u, d)
    BY <1>1, <2>2, MoreDecimals
  <2>6. Log!Earlier("text", t, u) <=> Log!Earlier("date", t, u)
    BY <2>3, <2>4, <2>5 DEF Log!Earlier
  <2>7. QED BY <2>1, <2>6
<1>3. Log!InOrder(log) \in [D -> D] /\ \A n \in D : n > 1 => n - 1 \in D
  BY OrderIs, LogForm
<1>4. Chain(log, Log!InOrder(log), "text") <=> Chain(log, Log!InOrder(log), "date")
  BY <1>2, <1>3 DEF Chain
<1>5. QED BY <1>4, ChainedIs DEF Log!ImportAccepts, Log!XobjAccepts

-----------------------------------------------------------------------------
\* The verdicts on a log are of that log.
LogInv ==
  /\ log \in Log!ActionLogs
  /\ accepted = IF verified THEN {by \in {"import", "xobj", "rules"} : Log!Accepts(by, log)} ELSE {}

\* Before the verifiers have run nobody accepts.
LEMMA LogStarts == Log!Init => LogInv
BY LogAssumption DEF Log!Init, LogInv

\* They run once, on the log that is there.
LEMMA LogStep == LogInv /\ [Log!Next]_logVars => LogInv'
<1> SUFFICES ASSUME LogInv, [Log!Next]_logVars PROVE LogInv'
  OBVIOUS
<1>1. CASE Log!Verify
  <2>1. log' = log /\ verified' = TRUE /\ accepted' = {by \in {"import", "xobj", "rules"} : Log!Accepts(by, log)}
    BY <1>1 DEF Log!Verify
  <2>2. QED BY <2>1 DEF LogInv
<1>2. CASE UNCHANGED logVars
  BY <1>2 DEF logVars, LogInv
<1>3. QED BY <1>1, <1>2 DEF Log!Next

\* Whoever accepts has seen a chain.
LEMMA ChainStep == LogInv => Log!AcceptedIsOneChain
<1> SUFFICES ASSUME LogInv, NEW by \in accepted, NEW n \in DOMAIN log.entries
             PROVE  /\ log.entries[n].n < Len(log.entries)
                    /\ Log!Back[log.entries[n].n][n] # 0 /\ Log!Back[log.entries[n].n + 1][n] = 0
                    /\ \A m \in DOMAIN log.entries \ {n} : log.entries[m].prev # log.entries[n].prev
  BY DEF Log!AcceptedIsOneChain
<1>1. by \in {"import", "xobj", "rules"} /\ Log!Accepts(by, log)
  BY DEF LogInv
<1>2. \E how : Log!Chained(log, how)
  BY <1>1 DEF Log!Accepts, Log!ImportAccepts, Log!XobjAccepts, Log!RuleAccepts
<1>3. QED BY <1>2, OneChain DEF LogInv

\* What is promised of the verdicts on a log.
LEMMA LogHolds == LogInv => Log!AcceptedIsOneChain /\ Log!StorageOrderIrrelevant /\ Log!VerifiersAgree
<1> SUFFICES ASSUME LogInv PROVE Log!StorageOrderIrrelevant /\ Log!VerifiersAgree
  BY ChainStep
<1>1. log \in Log!ActionLogs
  BY DEF LogInv
<1>2. ASSUME verified
      PROVE  ("import" \in accepted <=> Log!ImportAccepts(log)) /\ ("xobj" \in accepted <=> Log!XobjAccepts(log))
  BY <1>2 DEF LogInv, Log!Accepts
<1>3. QED BY <1>1, <1>2, StorageStep, AgreeStep

-----------------------------------------------------------------------------
(* The lists                                                               *)

\* Where of any two numbers one precedes the other, each has a rank of its own.
LEMMA RanksOf ==
  ASSUME NEW N \in Nat, NEW U \in [1..N -> SUBSET (1..N)],
         \A p \in 1..N : p \in U[p],
         \A p, q \in 1..N : p \in U[q] => U[p] \subseteq U[q],
         \A p, q \in 1..N : p # q => (p \in U[q] <=> q \notin U[p])
  PROVE  /\ \A p, q \in 1..N : Cardinality(U[p]) = Cardinality(U[q]) => p = q
         /\ \A k \in 1..N : \E p \in 1..N : Cardinality(U[p]) = k
<1> DEFINE D == 1..N
<1>1. IsFiniteSet(D) /\ Cardinality(D) = N
  <2>1. N \in Int /\ 1 \in Int /\ (1 > N => N = 0)
    OBVIOUS
  <2>2. QED BY <2>1, FS_Interval
<1>2. PICK r : r = [p \in D |-> Cardinality(U[p])]
  OBVIOUS
<1>3. ASSUME NEW p \in D PROVE IsFiniteSet(U[p]) /\ Cardinality(U[p]) \in 1..N
  <2>1. U[p] \subseteq D /\ p \in U[p]
    OBVIOUS
  <2>2. IsFiniteSet(U[p]) /\ Cardinality(U[p]) <= N
    BY <1>1, <2>1, FS_Subset
  <2>3. Cardinality(U[p]) \in Nat /\ Cardinality(U[p]) # 0
    BY <2>1, <2>2, FS_CardinalityType, FS_EmptySet
  <2>4. QED BY <2>2, <2>3
<1>4. ASSUME NEW p \in D, NEW q \in D, p # q, p \in U[q] PROVE r[p] # r[q]
  <2>1. U[p] \subseteq U[q] /\ q \in U[q] /\ q \notin U[p]
    BY <1>4
  <2>2. Cardinality(U[p]) # Cardinality(U[q])
    BY <1>3, <2>1, FS_Subset
  <2>3. QED BY <1>2, <2>2
<1>5. \A p, q \in D : r[p] = r[q] => p = q
  <2> SUFFICES ASSUME NEW p \in D, NEW q \in D, r[p] = r[q], p # q PROVE FALSE
    OBVIOUS
  <2>1. p \in U[q] \/ q \in U[p]
    OBVIOUS
  <2>2. QED BY <1>4, <2>1
<1>6. r \in [D -> D]
  BY <1>2, <1>3
<1>7. r \in Injection(D, D)
  BY <1>5, <1>6 DEF Injection, IsInjective
<1>8. r \in Surjection(D, D)
  BY <1>1, <1>7, FS_Injection
<1>9. \A k \in D : \E p \in D : r[p] = k
  BY <1>8 DEF Surjection
<1>10. QED BY <1>2, <1>5, <1>9

\* What rows are sorted by are numbers.
LEMMA RowFields == ASSUME NEW r \in List!Rows PROVE r.first \in Nat /\ r.second \in Nat
<1>1. r.first \in FieldValues /\ r.second \in FieldValues
  BY DEF List!Rows
<1>2. QED BY <1>1, ListAssumption

\* Of two rows that may stand in one list, one is before the other.
LEMMA RowsDiffer ==
  ASSUME NEW l \in List!Lists, NEW t \in Seq(List!Rows), List!RejectDuplicates(l, t),
         NEW i \in DOMAIN t, NEW j \in DOMAIN t, i # j
  PROVE  List!Before(l, t[i], t[j]) <=> ~List!Before(l, t[j], t[i])
<1>1. t[i].first \in Nat /\ t[i].second \in Nat /\ t[j].first \in Nat /\ t[j].second \in Nat
  <2>1. t[i] \in List!Rows /\ t[j] \in List!Rows
    OBVIOUS
  <2>2. QED BY <2>1, RowFields
<1>2. \A k \in DOMAIN List!Unique(l, t[i]) : List!Unique(l, t[i])[k] # List!Unique(l, t[j])[k]
  BY DEF List!RejectDuplicates
<1>3. CASE l = "Warnings"
  <2>1. \A r : List!Unique(l, r) = <<<<r.first, r.second>>>>
    BY <1>3 DEF List!Unique
  <2>2. /\ List!Unique(l, t[i]) = <<<<t[i].first, t[i].second>>>>
        /\ List!Unique(l, t[j]) = <<<<t[j].first, t[j].second>>>>
    BY <2>1
  <2>3. ~(t[i].first = t[j].first /\ t[i].second = t[j].second)
    <3>1. SUFFICES ASSUME t[i].first = t[j].first, t[i].second = t[j].second PROVE FALSE
      OBVIOUS
    <3>2. List!Unique(l, t[i]) = List!Unique(l, t[j]) /\ 1 \in DOMAIN List!Unique(l, t[i])
      BY <2>2, <3>1
    <3>3. QED BY <1>2, <3>2
  <2>4. QED BY <1>1, <1>3, <2>3 DEF List!Before
<1>4. CASE l # "Warnings"
  <2>1. \A r : 1 \in DOMAIN List!Unique(l, r) /\ List!Unique(l, r)[1] = r.first
    BY <1>4 DEF List!Unique, List!Lists
  <2>2. t[i].first # t[j].first
    BY <1>2, <2>1
  <2>3. QED BY <1>1, <2>2 DEF List!Before
<1>5. QED BY <1>3, <1>4

\* The rows up to each, and that each has a rank of its own.
LEMMA RowsRanked ==
  ASSUME NEW l \in List!Lists, NEW t \in Seq(List!Rows), List!RejectDuplicates(l, t)
  PROVE  /\ \A i, j \in DOMAIN t : i \in List!UpTo(l, t, j) <=> i = j \/ List!Before(l, t[i], t[j])
         /\ \A i, j \in DOMAIN t : Cardinality(List!UpTo(l, t, i)) = Cardinality(List!UpTo(l, t, j)) => i = j
         /\ \A k \in DOMAIN t : \E i \in DOMAIN t : Cardinality(List!UpTo(l, t, i)) = k
<1>1. PICK N \in Nat : N = Len(t) /\ DOMAIN t = 1..N
  OBVIOUS
<1>2. \A i \in 1..N : t[i].first \in Nat /\ t[i].second \in Nat
  <2>1. \A i \in 1..N : t[i] \in List!Rows
    BY <1>1
  <2>2. QED BY <2>1, RowFields
<1>3. \A i \in 1..N : ~List!Before(l, t[i], t[i])
  BY <1>2 DEF List!Before
<1>4. \A i, j \in 1..N : i \in List!UpTo(l, t, j) <=> i = j \/ List!Before(l, t[i], t[j])
  <2> SUFFICES ASSUME NEW i \in 1..N, NEW j \in 1..N
               PROVE  List!NotAfter(l, t, i, j) <=> i = j \/ List!Before(l, t[i], t[j])
    BY <1>1 DEF List!UpTo
  <2>1. CASE i = j
    BY <1>3, <2>1 DEF List!NotAfter
  <2>2. CASE i # j
    BY <1>1, <2>2, RowsDiffer DEF List!NotAfter
  <2>3. QED BY <2>1, <2>2
<1> DEFINE U == [j \in 1..N |-> List!UpTo(l, t, j)]
<1>5. U \in [1..N -> SUBSET (1..N)] /\ \A j \in 1..N : U[j] = List!UpTo(l, t, j)
  BY <1>1 DEF List!UpTo
<1> HIDE DEF U
<1>6. \A p \in 1..N : p \in U[p]
  BY <1>4, <1>5
<1>7. \A p, q \in 1..N : p # q => (p \in U[q] <=> q \notin U[p])
  BY <1>1, <1>4, <1>5, RowsDiffer
<1>8. ASSUME NEW p \in 1..N, NEW q \in 1..N, p \in U[q] PROVE U[p] \subseteq U[q]
  <2>1. SUFFICES ASSUME NEW i \in 1..N, i \in U[p] PROVE i \in U[q]
    BY <1>5
  <2>2. (i = p \/ List!Before(l, t[i], t[p])) /\ (p = q \/ List!Before(l, t[p], t[q]))
    BY <1>4, <1>5, <1>8, <2>1
  <2>3. List!Before(l, t[i], t[p]) /\ List!Before(l, t[p], t[q]) => List!Before(l, t[i], t[q])
    <3>1. PICK a, b, c, x, y, z : /\ a = t[i].first /\ b = t[p].first /\ c = t[q].first
                                  /\ x = t[i].second /\ y = t[p].second /\ z = t[q].second
      OBVIOUS
    <3>2. i \in 1..N
      BY <1>5, <2>1
    <3>3. a \in Nat /\ b \in Nat /\ c \in Nat /\ x \in Nat /\ y \in Nat /\ z \in Nat
      BY <1>2, <3>1, <3>2
    <3>4. (a < b /\ b < c => a < c) /\ (x < y /\ y < z => x < z)
      BY <3>3
    <3>5. QED BY <3>1, <3>4 DEF List!Before
  <2>4. QED BY <1>4, <1>5, <2>2, <2>3
<1>9. /\ \A p, q \in 1..N : Cardinality(U[p]) = Cardinality(U[q]) => p = q
      /\ \A k \in 1..N : \E p \in 1..N : Cardinality(U[p]) = k
  BY <1>5, <1>6, <1>7, <1>8, RanksOf
<1>10. /\ \A i, j \in 1..N : Cardinality(List!UpTo(l, t, i)) = Cardinality(List!UpTo(l, t, j)) => i = j
       /\ \A k \in 1..N : \E i \in 1..N : Cardinality(List!UpTo(l, t, i)) = k
  BY <1>5, <1>9
<1>11. QED BY ONLY <1>1, <1>4, <1>10

\* u is t in another order, by an exchange f that undoes itself.
Exchanges(f, t, u) ==
  /\ f \in [DOMAIN t -> DOMAIN t] /\ DOMAIN u = DOMAIN t
  /\ \A k \in DOMAIN t : f[f[k]] = k /\ u[k] = t[f[k]]

\* Duplicates are found in any order.
LEMMA DuplicatesStay ==
  ASSUME NEW l \in List!Lists, NEW t, NEW u, NEW f, Exchanges(f, t, u), List!RejectDuplicates(l, t)
  PROVE  List!RejectDuplicates(l, u)
<1> SUFFICES ASSUME NEW i \in DOMAIN u, NEW j \in DOMAIN u, NEW k \in DOMAIN List!Unique(l, u[i]),
                    List!Unique(l, u[i])[k] = List!Unique(l, u[j])[k]
             PROVE  i = j
  BY DEF List!RejectDuplicates
<1>1. f[i] \in DOMAIN t /\ f[j] \in DOMAIN t /\ u[i] = t[f[i]] /\ u[j] = t[f[j]] /\ f[f[i]] = i /\ f[f[j]] = j
  BY DEF Exchanges
<1>2. f[i] = f[j]
  BY <1>1 DEF List!RejectDuplicates
<1>3. QED BY <1>1, <1>2

\* The ranks move with the rows, so that the sorted lists are the same.
LEMMA SortedIsOne ==
  ASSUME NEW l \in List!Lists, NEW t \in Seq(List!Rows), NEW u \in Seq(List!Rows), NEW f,
         Exchanges(f, t, u), List!RejectDuplicates(l, t), List!RejectDuplicates(l, u)
  PROVE  List!Sorted(l, u) = List!Sorted(l, t)
<1> DEFINE D == DOMAIN t
<1>1. /\ f \in [D -> D] /\ DOMAIN u = D
      /\ \A k \in D : f[f[k]] = k /\ u[k] = t[f[k]]
  BY DEF Exchanges
<1>2. IsFiniteSet(D)
  <2>1. D = 1..Len(t) /\ Len(t) \in Int /\ 1 \in Int
    OBVIOUS
  <2>2. QED BY <2>1, FS_Interval
<1>3. ASSUME NEW k \in D PROVE Cardinality(List!UpTo(l, u, k)) = Cardinality(List!UpTo(l, t, f[k]))
  <2> DEFINE A == List!UpTo(l, u, k)
             B == List!UpTo(l, t, f[k])
             g == [m \in A |-> f[m]]
  <2>1. A \subseteq D /\ B \subseteq D
    BY <1>1 DEF List!UpTo
  <2>2. \A m \in D : m \in A <=> m = k \/ List!Before(l, u[m], u[k])
    BY <1>1, RowsRanked
  <2>3. \A m \in D : m \in B <=> m = f[k] \/ List!Before(l, t[m], t[f[k]])
    BY <1>1, RowsRanked
  <2> HIDE DEF A, B
  <2>4. \A m \in D : m \in A <=> f[m] \in B
    <3> SUFFICES ASSUME NEW m \in D PROVE m \in A <=> f[m] \in B
      OBVIOUS
    <3>1. f[m] \in D /\ f[k] \in D /\ u[m] = t[f[m]] /\ u[k] = t[f[k]] /\ (m = k <=> f[m] = f[k])
      BY <1>1
    <3>2. QED BY <2>2, <2>3, <3>1
  <2>5. g \in [A -> B] /\ \A m \in A : g[m] = f[m]
    BY <2>1, <2>4
  <2> HIDE DEF g
  <2>6. \A m, n \in A : g[m] = g[n] => m = n
    <3> SUFFICES ASSUME NEW m \in A, NEW n \in A, g[m] = g[n] PROVE m = n
      OBVIOUS
    <3>1. m \in D /\ n \in D /\ f[m] = f[n]
      BY <2>1, <2>5
    <3>2. f[f[m]] = m /\ f[f[n]] = n
      BY <1>1, <3>1
    <3>3. QED BY <3>1, <3>2
  <2>7. \A n \in B : \E m \in A : g[m] = n
    <3> SUFFICES ASSUME NEW n \in B PROVE \E m \in A : g[m] = n
      OBVIOUS
    <3>1. n \in D /\ f[n] \in D /\ f[f[n]] = n
      BY <1>1, <2>1
    <3>2. f[n] \in A
      BY <2>4, <3>1
    <3>3. QED BY <2>5, <3>1, <3>2
  <2>8. g \in Bijection(A, B)
    BY <2>5, <2>6, <2>7 DEF Bijection, Injection, Surjection, IsInjective
  <2>9. IsFiniteSet(A) /\ ExistsBijection(A, B)
    BY <1>2, <2>1, <2>8, FS_Subset DEF ExistsBijection
  <2>10. Cardinality(A) = Cardinality(B)
    BY <2>9, FS_Bijection
  <2>11. QED BY <2>10 DEF A, B
<1>4. ASSUME NEW k \in D
      PROVE  u[CHOOSE j \in D : Cardinality(List!UpTo(l, u, j)) = k] = t[CHOOSE j \in D : Cardinality(List!UpTo(l, t, j)) = k]
  <2>1. PICK i : i = CHOOSE j \in D : Cardinality(List!UpTo(l, t, j)) = k
    OBVIOUS
  <2>2. PICK j : j = CHOOSE m \in D : Cardinality(List!UpTo(l, u, m)) = k
    OBVIOUS
  <2>3. i \in D /\ Cardinality(List!UpTo(l, t, i)) = k
    BY <2>1, RowsRanked
  <2>4. j \in D /\ Cardinality(List!UpTo(l, u, j)) = k
    BY <1>1, <2>2, RowsRanked
  <2>5. f[j] \in D /\ Cardinality(List!UpTo(l, t, f[j])) = k
    BY <1>1, <1>3, <2>4
  <2>6. f[j] = i
    BY <2>3, <2>5, RowsRanked
  <2>7. u[j] = t[i]
    BY <1>1, <2>4, <2>6
  <2>8. QED BY <2>1, <2>2, <2>7
<1>5. /\ List!Sorted(l, u) = [k \in D |-> u[CHOOSE j \in D : Cardinality(List!UpTo(l, u, j)) = k]]
      /\ List!Sorted(l, t) = [k \in D |-> t[CHOOSE j \in D : Cardinality(List!UpTo(l, t, j)) = k]]
  BY <1>1 DEF List!Sorted, List!Cardinality, Cardinality, List!IsFiniteSet, IsFiniteSet
<1>6. QED BY <1>4, <1>5

\* A list is what the schema says of it, and only grows.
ListInv == list \in List!Lists /\ rows \in Seq(List!Rows)

LEMMA ListStarts == List!Init => ListInv
BY DEF List!Init, ListInv

LEMMA ListStep == ListInv /\ [List!Next]_listVars => ListInv'
BY DEF ListInv, List!Next, List!Add, listVars

\* Two rows that change places leave the normalized list as it was.
LEMMA ListHolds == ListInv => List!PermutationsAgree
<1> SUFFICES ASSUME ListInv, NEW i \in DOMAIN rows, NEW j \in DOMAIN rows
             PROVE  List!Normalize(list, [rows EXCEPT ![i] = rows[j], ![j] = rows[i]]) = List!Normalize(list, rows)
  BY DEF List!PermutationsAgree
<1> DEFINE u == [rows EXCEPT ![i] = rows[j], ![j] = rows[i]]
           f == [k \in DOMAIN rows |-> IF k = i THEN j ELSE IF k = j THEN i ELSE k]
<1>1. rows \in Seq(List!Rows) /\ u \in Seq(List!Rows) /\ DOMAIN u = DOMAIN rows /\ list \in List!Lists
  BY DEF ListInv
<1>2. \A k \in DOMAIN rows : u[k] = rows[f[k]] /\ f[f[k]] = k
  BY <1>1
<1>3. f \in [DOMAIN rows -> DOMAIN rows]
  OBVIOUS
<1> HIDE DEF u, f
<1>4. Exchanges(f, rows, u)
  BY <1>1, <1>2, <1>3 DEF Exchanges
<1>5. Exchanges(f, u, rows)
  BY <1>1, <1>2, <1>3 DEF Exchanges
<1>6. List!RejectDuplicates(list, u) <=> List!RejectDuplicates(list, rows)
  BY <1>1, <1>4, <1>5, DuplicatesStay
<1>7. List!Normalize(list, u) = List!Normalize(list, rows)
  BY <1>1, <1>4, <1>6, SortedIsOne DEF List!Normalize
<1>8. QED BY <1>7 DEF u
-----------------------------------------------------------------------------
(* The theorems                                                            *)

\* Every part keeps what it reads, and only its own part moves it.
VerifierInv == (part = "graph" => GraphInv /\ ReadInv) /\ (part = "log" => LogInv) /\ (part = "list" => ListInv)

\* The invariant the theorems follow from.
LEMMA VerifierInvariant == MCSpec => []VerifierInv
<1>1. MCInit => VerifierInv
  BY GraphStarts, ReadStarts, LogStarts, ListStarts DEF MCInit, VerifierInv
<1>2. VerifierInv /\ [MCNext]_<<part, vars, logVars, textVars, listVars>> => VerifierInv'
  <2> SUFFICES ASSUME VerifierInv, [MCNext]_<<part, vars, logVars, textVars, listVars>> PROVE VerifierInv'
    OBVIOUS
  <2>1. part' = part /\ (part = "graph" => [Next]_vars) /\ (part = "log" => [Log!Next]_logVars) /\ (part = "list" => [List!Next]_listVars)
    BY DEF MCNext
  <2>2. part = "graph" => GraphInv' /\ ReadInv'
    BY <2>1, GraphStep, ReadStep DEF VerifierInv
  <2>3. part = "log" => LogInv'
    BY <2>1, LogStep DEF VerifierInv
  <2>4. part = "list" => ListInv'
    BY <2>1, ListStep DEF VerifierInv
  <2>5. QED BY <2>1, <2>2, <2>3, <2>4 DEF VerifierInv
<1>3. QED BY <1>1, <1>2, PTL DEF MCSpec

\* What the rules accept is bound together: times nest, a consent covers one action, and
\* an export shows what the package holds.
THEOREM GraphsAreBound == MCSpec => []GraphIsBound
<1>1. VerifierInv => GraphIsBound
  BY NestStep, ConsentStep, TraceStep DEF VerifierInv, GraphIsBound
<1>2. QED BY <1>1, VerifierInvariant, PTL

\* Every accepted object hangs on one chain below the run, for the import and the rules
\* alike, and both order the passes the same.
THEOREM GraphsAreForests == MCSpec => []GraphIsForest
<1>1. VerifierInv => GraphIsForest
  BY ForestStep, KeepsStep, PassStep DEF VerifierInv, GraphIsForest
<1>2. QED BY <1>1, VerifierInvariant, PTL

\* An accepted log is one chain, to three verifiers, in whatever order it is stored.
THEOREM LogsAreOneChain == MCSpec => []LogIsOneChain
<1>1. VerifierInv => LogIsOneChain
  BY LogHolds DEF VerifierInv, LogIsOneChain
<1>2. QED BY <1>1, VerifierInvariant, PTL

\* The digests of manifests and profiles do not depend on the order in which their lists
\* are stored: whichever two rows change places, the normalized list is the same.
THEOREM ListsMayBePermuted == MCSpec => [](part = "list" => List!PermutationsAgree)
<1>1. VerifierInv => (part = "list" => List!PermutationsAgree)
  BY ListHolds DEF VerifierInv
<1>2. QED BY <1>1, VerifierInvariant, PTL
=============================================================================
