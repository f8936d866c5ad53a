------------------------------- MODULE ActionLog -------------------------------
(***************************************************************************)
(* The three verifiers of an action log: of the import (verifyActionLog in *)
(* src/src/import/import-normalization.mjs), of the application rules      *)
(* (validateActionLog in src/tools/lib/application-rules.mjs) and of the   *)
(* cross-object rules (validateXobj012 in src/tools/lib/xobj-rules.mjs).   *)
(*                                                                         *)
(* A digest is modelled by what it binds: that of an entry by the place of *)
(* the entry in the log, 0 for null; "stated" says that an entry's own     *)
(* digest is the recomputed one, "sealed" the same of the whole log.  A    *)
(* timestamp is a second and up to nine decimals, here Digits, as written. *)
(***************************************************************************)
EXTENDS Naturals, FiniteSets, SequencesExt

CONSTANTS
  Logs,                           \* [run, sealed, entries]
  Millis                          \* decimals Date.parse keeps

VARIABLES log, verified, accepted  \* the log, and the verifiers that accept it
vars == <<log, verified, accepted>>

\* A log, its entries and its timestamps: schemas/action-log.schema.json.
Times   == [sec : Nat, frac : Seq(0..9)]
Entries == [n : Nat, prev : Nat, action : STRING, run : STRING, time : Times, stated : BOOLEAN, type : STRING,
            auth : SUBSET STRING, parameters : SUBSET [original : BOOLEAN, private : BOOLEAN, included : BOOLEAN]]
ActionLogs == [run : STRING, sealed : BOOLEAN, entries : Seq(Entries)]

Effects == {"StartCollector", "NetworkUse", "Elevation", "Reboot", "DefenderScan",
            "MemoryAcquisition", "Remediation", "Export"}

-----------------------------------------------------------------------------
\* A plausible fault, used only to show that a property can fail.
NextLinks(l, o, n) == l.entries[o[n]].n = n - 1
-----------------------------------------------------------------------------
\* entries sorted by sequence number, as places in the log: the k-th is the one that k
\* entries, itself among them, are not after.  The sort leaves equals as they are.
NotAfter(l, q, p) == l.entries[q].n < l.entries[p].n \/ (l.entries[q].n = l.entries[p].n /\ q <= p)
UpTo(l, p)        == {q \in DOMAIN l.entries : NotAfter(l, q, p)}
InOrder(l)        == [k \in DOMAIN l.entries |-> CHOOSE p \in DOMAIN l.entries : Cardinality(UpTo(l, p)) = k]

\* The characters of the fraction as they are compared: "." is below the digits and
\* these are below "Z".
Written(t) == (IF t.frac = <<>> THEN <<>> ELSE <<0>> \o [n \in DOMAIN t.frac |-> t.frac[n] + 1]) \o <<99>>

BeforeText(t, u) ==
  \/ t.sec < u.sec
  \/ /\ t.sec = u.sec
     /\ LET a == Written(t)
            b == Written(u)
        IN  \E n \in 1..(IF Len(a) < Len(b) THEN Len(a) ELSE Len(b)) :
              a[n] < b[n] /\ \A m \in 1..(n - 1) : a[m] = b[m]

\* A fraction read to so many decimals.
Digit(t, n) == IF n \in DOMAIN t.frac THEN t.frac[n] ELSE 0
Read(t, decimals) ==
  LET value[n \in 0..decimals] == IF n = 0 THEN t.sec ELSE 10 * value[n - 1] + Digit(t, n) IN value[decimals]

BeforeDate(t, u) == Read(t, Millis) < Read(u, Millis)

\* The checks the verifiers share, on the n-th entry in order.
Links(l, o, n) ==
  /\ l.entries[o[n]].n = n - 1
  /\ l.entries[o[n]].prev = IF n = 1 THEN 0 ELSE o[n - 1]

OfRun(l, o, n) ==
  /\ l.entries[o[n]].run = l.run
  /\ \A m \in 1..(n - 1) : l.entries[o[m]].action # l.entries[o[n]].action

Earlier(how, t, u) == IF how = "text" THEN BeforeText(t, u) ELSE BeforeDate(t, u)

Chained(l, how) ==
  LET o == InOrder(l)
  IN  /\ \A n \in DOMAIN o :
           /\ Links(l, o, n) /\ OfRun(l, o, n) /\ l.entries[o[n]].stated
           /\ n > 1 => ~Earlier(how, l.entries[o[n]].time, l.entries[o[n - 1]].time)
      /\ l.sealed

ImportAccepts(l) == Chained(l, "text")
XobjAccepts(l)   == Chained(l, "date")

\* An action carries the authorization of its own type and no other.
OneAuthorization(e) == e.auth = {e.type} \cap Effects
Redacted(e) == \A p \in e.parameters : ~p.original /\ ~(p.private /\ p.included)

RuleAccepts(l) ==
  Chained(l, "text") /\ \A n \in DOMAIN l.entries : OneAuthorization(l.entries[n]) /\ Redacted(l.entries[n])

Accepts(by, l) ==
  CASE by = "import" -> ImportAccepts(l) [] by = "xobj" -> XobjAccepts(l) [] by = "rules" -> RuleAccepts(l)

Init == log \in Logs /\ verified = FALSE /\ accepted = {}

Verify ==
  /\ ~verified /\ verified' = TRUE
  /\ accepted' = {by \in {"import", "xobj", "rules"} : Accepts(by, log)}
  /\ UNCHANGED log

Next == Verify
Spec == Init /\ [][Next]_vars

-----------------------------------------------------------------------------
(* Properties                                                              *)

\* Where k links lead back to from an entry, 0 for none.
Back[k \in 0..Len(log.entries)] ==
  IF k = 0 THEN [n \in 0..Len(log.entries) |-> n]
  ELSE [n \in 0..Len(log.entries) |-> IF Back[k - 1][n] = 0 THEN 0 ELSE log.entries[Back[k - 1][n]].prev]

\* In an accepted log every entry is as many links away from the start as its number
\* says, whatever order the entries are stored in: the log is one chain, without branch,
\* gap, loop or second start.
AcceptedIsOneChain ==
  accepted # {} =>
    \A n \in DOMAIN log.entries :
      LET e == log.entries[n] IN
      /\ e.n < Len(log.entries) /\ Back[e.n][n] # 0 /\ Back[e.n + 1][n] = 0
      /\ \A m \in DOMAIN log.entries \ {n} : log.entries[m].prev # e.prev

\* The order in which entries are stored never changes a verdict.
StorageOrderIrrelevant ==
  verified => \A p \in {q \in [DOMAIN log.entries -> DOMAIN log.entries] : IsInjective(q)} :
    LET moved(d) == IF d \in DOMAIN p THEN CHOOSE n \in DOMAIN p : p[n] = d ELSE d
    IN  ("import" \in accepted) = ImportAccepts([log EXCEPT !.entries =
          [n \in DOMAIN p |-> [log.entries[p[n]] EXCEPT !.prev = moved(@)]]])

\* Where all timestamps are written to one precision that Date.parse keeps, the verifier
\* of the import and that of the cross-object rules agree.
VerifiersAgree ==
  verified /\ (\E d \in 0..Millis : \A n \in DOMAIN log.entries : Len(log.entries[n].time.frac) = d)
    => ("import" \in accepted) = ("xobj" \in accepted)

\* docs/integrity-model.md:55 of every verification: "rejects [...] decreasing timestamps".
\* The import compares them as text, where a fraction sorts before none.
DecreasingRejected ==
  "import" \in accepted =>
    \A n, m \in DOMAIN log.entries :
      log.entries[n].n < log.entries[m].n => Read(log.entries[n].time, 2) <= Read(log.entries[m].time, 2)
=============================================================================
