------------------------------ MODULE CanonicalText ------------------------------
(***************************************************************************)
(* The canonical text of a value and the digest that leaves one field out  *)
(* (jcs and digestWithExclusion of src/tools/lib/jcs.mjs).  Values are     *)
(* JavaScript objects, which may be shared, cyclic or not plain: the heap  *)
(* is grown property by property and may be spoiled once, by a property,   *)
(* an object or a scalar that JSON cannot hold.                            *)
(*                                                                         *)
(* A text is the sequence of its tokens; the digest of a text is the text. *)
(***************************************************************************)
EXTENDS Naturals, FiniteSets, SequencesExt

CONSTANTS
  Nodes,                          \* the objects of the heap
  PropertyNames,                  \* property names, numbers in the order of code units
  Kinds,                          \* kinds of objects to start with
  MaxProps                        \* properties added to the heap

VARIABLES heap, spoiled
vars == <<heap, spoiled>>

Plain     == {"0", "-0", "1"}      \* scalars JSON can hold
Scalars   == Plain \cup {"NaN", "function"}
TextOf(s) == IF s = "-0" THEN "0" ELSE s

Refused  == [ok |-> FALSE, text |-> <<>>]
Some(t)  == [ok |-> TRUE, text |-> t]

-----------------------------------------------------------------------------
\* Plausible faults, used only to show that the properties can fail.
AsCreated(h, n) == SelectSeq(h[n].props, LAMBDA p : p.trait \notin {"Symbol", "Hole"})
-----------------------------------------------------------------------------
Init ==
  /\ heap \in [Nodes -> {[kind |-> k, props |-> <<>>] : k \in Kinds}]
  /\ spoiled = FALSE

Size(h) == FoldFunction(LAMBDA o, n : Len(o.props) + n, 0, h)

\* A property is added last: the order of names is that of their creation.
Grow ==
  /\ ~spoiled /\ Size(heap) < MaxProps
  /\ \E n \in Nodes, v \in Plain \cup Nodes :
       \E k \in IF heap[n].kind = "Array" THEN {Len(heap[n].props)}
                ELSE {j \in PropertyNames : \A i \in DOMAIN heap[n].props : heap[n].props[i].key # j} :
         heap' = [heap EXCEPT ![n].props = Append(@, [key |-> k, trait |-> "Data", value |-> v])]
  /\ UNCHANGED spoiled

\* Whatever JSON cannot hold, once: an accessor (which would return the value), a hidden or
\* symbol-keyed property, a hole of an array or a name beside its indices, an instance of a
\* class, a proxy, a number that is not finite, a function.
Spoil ==
  /\ ~spoiled /\ spoiled' = TRUE
  /\ \E n \in Nodes :
       \/ \E k \in {"Class", "Proxy"} : heap[n].kind = "Object" /\ heap' = [heap EXCEPT ![n].kind = k]
       \/ \E i \in DOMAIN heap[n].props :
            \/ \E t \in {"Accessor", "Hidden"} \cup (IF heap[n].kind = "Object" THEN {"Symbol"} ELSE {"Hole"}) :
                 heap' = [heap EXCEPT ![n].props[i].trait = t]
            \/ \E v \in Scalars \ Plain : heap' = [heap EXCEPT ![n].props[i].value = v]
       \/ /\ heap[n].kind = "Array" /\ heap[n].props # <<>>
          /\ \E t \in {"Extra", "Symbol"} : heap' = [heap EXCEPT ![n].props[Len(heap[n].props)].trait = t]

Next == Grow \/ Spoil
Spec == Init /\ [][Next]_vars

-----------------------------------------------------------------------------
\* Own property names in the order of their code units, symbols apart.
Named(h, n)   == SelectSeq(h[n].props, LAMBDA p : p.trait \notin {"Symbol", "Hole"})
Ordered(h, n) == SortSeq(Named(h, n), LAMBDA p, q : p.key < q.key)

Cyclic(v, ancestors) == v \in ancestors

\* The checks of one object before its members; a hole makes the names of an array fewer
\* than its length asks for, a name beside the indices makes them more.
Guarded(h, n) ==
  /\ h[n].kind \in {"Object", "Array"}
  /\ \A i \in DOMAIN h[n].props : h[n].props[i].trait = "Data"

Join(parts) ==
  FoldLeft(LAMBDA t, p : IF t.ok /\ p.ok THEN Some(t.text \o p.text) ELSE Refused, Some(<<>>), parts)

\* canonical(value, pointer, ancestors).
Canonical(h, root) ==
  LET canonical[v \in Nodes \cup Scalars, ancestors \in SUBSET Nodes] ==
        CASE v \in Scalars                  -> IF v \in Plain THEN Some(<<TextOf(v)>>) ELSE Refused
          [] v \in Nodes /\ Cyclic(v, ancestors) -> Refused
          [] OTHER ->
               IF ~Guarded(h, v) THEN Refused
               ELSE LET below(p) == canonical[p.value, ancestors \cup {v}]
                        member(p) == Join(<<Some(<<p.key>>), below(p)>>)
                        all == IF h[v].kind = "Array"
                               THEN [i \in DOMAIN h[v].props |-> below(h[v].props[i])]
                               ELSE LET s == Ordered(h, v) IN [i \in DOMAIN s |-> member(s[i])]
                        marks == IF h[v].kind = "Array" THEN <<"[", "]">> ELSE <<"{", "}">>
                    IN  Join(<<Some(<<marks[1]>>)>> \o all \o <<Some(<<marks[2]>>)>>)
  IN  canonical[root, {}]

-----------------------------------------------------------------------------
\* structuredClone: reads accessors, leaves out what is hidden or keyed by a symbol, makes
\* an instance a plain object, keeps sharing, and refuses proxies and functions.  A hidden
\* item of an array leaves a hole.
Copied(o, p) == p.trait # "Symbol" /\ (p.trait = "Hidden" => o.kind = "Array")

Reach(h, root) ==
  LET next(S) == S \cup UNION {{h[n].props[i].value : i \in DOMAIN h[n].props} : n \in S}
      within[k \in 0..Cardinality(Nodes)] ==
        IF k = 0 THEN {root} ELSE next(within[k - 1] \cap Nodes)
  IN  UNION {within[k] : k \in 0..Cardinality(Nodes)}

Clone(h) ==
  [n \in Nodes |->
     [kind  |-> IF h[n].kind = "Class" THEN "Object" ELSE h[n].kind,
      props |-> LET kept == SelectSeq(h[n].props, LAMBDA p : Copied(h[n], p))
                IN  [i \in DOMAIN kept |->
                       [kept[i] EXCEPT !.trait = CASE @ = "Accessor" -> "Data" [] @ = "Hidden" -> "Hole" [] OTHER -> @]]]]

Cloneable(h, root) ==
  LET c == Clone(h) IN \A v \in Reach(c, root) : v # "function" /\ (v \in Nodes => c[v].kind # "Proxy")

Has(h, n, k) == \E i \in DOMAIN h[n].props : h[n].props[i].key = k /\ h[n].props[i].trait = "Data"
At(h, n, k)  == h[n].props[CHOOSE i \in DOMAIN h[n].props : h[n].props[i].key = k].value

\* delete: an item of an array leaves a hole.
Without(h, n, k) ==
  [h EXCEPT ![n].props =
     IF h[n].kind = "Array" THEN [i \in DOMAIN @ |-> IF @[i].key = k THEN [@[i] EXCEPT !.trait = "Hole"] ELSE @[i]]
                            ELSE SelectSeq(@, LAMBDA p : p.key # k)]

\* digestWithExclusion(value, "k") and digestWithExclusion(value, "j.k"): the path must exist.
Exclude(h, root, path) ==
  LET holder == IF Len(path) = 1 THEN root ELSE IF Has(h, root, path[1]) THEN At(h, root, path[1]) ELSE "0"
  IN  IF holder \in Nodes /\ Has(h, holder, Last(path))
      THEN Canonical(Without(h, holder, Last(path)), root) ELSE Refused

DigestWithExclusion(h, root, path) ==
  IF Cloneable(h, root) THEN Exclude(Clone(h), root, path) ELSE Refused

-----------------------------------------------------------------------------
(* Properties                                                              *)

Paths == {<<j>> : j \in PropertyNames} \cup (PropertyNames \X PropertyNames)

\* The nodes a value is made of, and those below one of them.
Within(h, n) == Reach(h, n) \cap Nodes
Below(h, n)  == UNION {Within(h, v) : v \in {h[n].props[i].value : i \in DOMAIN h[n].props} \cap Nodes}

\* canonical accepts exactly what JSON can hold: plain objects and dense arrays all the way
\* down, which may share what they contain but never contain themselves.
AcceptsExactlyJson ==
  \A n \in Nodes :
    Canonical(heap, n).ok <=>
      /\ \A m \in Within(heap, n) :
           /\ heap[m].kind \in {"Object", "Array"} /\ m \notin Below(heap, m)
           /\ \A i \in DOMAIN heap[m].props : heap[m].props[i].trait = "Data"
      /\ Reach(heap, n) \subseteq Nodes \cup Plain

\* Two values have one text if and only if they are the same JSON value: the order in which
\* properties were created, sharing and the sign of zero make no difference, anything
\* else does.
TextDecides ==
  LET same[k \in 0..(Cardinality(Nodes) + 1)] ==
        [v, w \in Nodes \cup Scalars |->
           IF v \in Nodes /\ w \in Nodes
           THEN LET p == heap[v].props
                    q == heap[w].props
                IN  /\ heap[v].kind = heap[w].kind /\ Len(p) = Len(q)
                    /\ \A i \in DOMAIN p : \E j \in DOMAIN q :
                         p[i].key = q[j].key /\ (k = 0 \/ same[k - 1][p[i].value, q[j].value])
           ELSE v \in Plain /\ w \in Plain /\ TextOf(v) = TextOf(w)]
  IN  \A n, m \in Nodes :
        Canonical(heap, n).ok /\ Canonical(heap, m).ok =>
          (Canonical(heap, n) = Canonical(heap, m) <=> same[Cardinality(Nodes) + 1][n, m])

\* Of a parsed document, which shares nothing, a digest leaves out the field it names and no
\* other: a change of any other number changes the digest, a change of that one does not.
ExcludesOnlyNamed ==
  ~spoiled => \A root \in Nodes : \A path \in Paths :
    LET digest == DigestWithExclusion(heap, root, path)
        holder == IF Len(path) = 1 THEN root ELSE At(heap, root, path[1])
        tree == \A m \in Within(heap, root) :
                  Cardinality({w \in Within(heap, root) \X (1..MaxProps) :
                                 w[2] \in DOMAIN heap[w[1]].props /\ heap[w[1]].props[w[2]].value = m}) = IF m = root THEN 0 ELSE 1
        named(m, i) == m = holder /\ heap[m].props[i].key = Last(path)
        hidden(m) == \E i \in DOMAIN heap[holder].props :
                       named(holder, i) /\ heap[holder].props[i].value \in Nodes
                         /\ m \in Within(heap, heap[holder].props[i].value)
    IN  tree /\ digest.ok =>
          \A m \in Within(heap, root) : \A i \in DOMAIN heap[m].props :
            heap[m].props[i].value = "1" =>
              (DigestWithExclusion([heap EXCEPT ![m].props[i].value = "0"], root, path) = digest
                 <=> named(m, i) \/ hidden(m))

\* docs/integrity-model.md:27 says that accessors, symbol-keyed properties and objects that
\* are not plain are rejected before hashing.
DigestGuardsInput ==
  \A root \in Nodes : \A path \in Paths :
    DigestWithExclusion(heap, root, path).ok => Exclude(heap, root, path).ok
=============================================================================
