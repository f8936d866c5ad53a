--------------------------- MODULE StructuredFraming ---------------------------
(***************************************************************************)
(* How a structured output is cut into records: the probe's framings and   *)
(* its automatic choice (src/tools/compatibility/structured-output-probe.  *)
(* mjs), the members of a package (describeJson in zip-package-probe.mjs), *)
(* and the import's JSON Lines (parseJsonLinesBytes in                     *)
(* src/src/import/import-json.mjs).                                        *)
(*                                                                         *)
(* A text is a sequence of documents, each with what follows it.  Reading  *)
(* a single document and finding its end is JsonScan; here a document is   *)
(* its root, the number of its items, its depth and size, and whether it   *)
(* spans lines.  "blank" is a line that holds no document, "broken" stands *)
(* for text no parser accepts.  "space" keeps the next document on the     *)
(* same line; "spaceLF" is a line end after a padded document, on either   *)
(* side of it.                                                             *)
(***************************************************************************)
EXTENDS Naturals, SequencesExt

CONSTANTS Documents, MaxRecords, MaxLineBytes, MaxDepth, MaxDocuments

LineEnds == {"LF", "CRLF", "spaceLF"}
Separators == {"none", "space"} \cup LineEnds
Modes == {"json", "jsonl", "auto"}
Rejected == [framing |-> "none", records |-> <<>>]

VARIABLES text, verdict
vars == <<text, verdict>>

Positions(t) == {n \in DOMAIN t : t[n].root # "blank"}
Only(t)      == CHOOSE n \in Positions(t) : TRUE
Sound(t)     == \A n \in DOMAIN t : t[n].root # "broken"
Shallow(t)   == \A n \in Positions(t) : t[n].depth <= MaxDepth

\* A record is a whole document, <<n, 0>>, or an item of an array, <<n, i>>.
Records(t, n) == IF t[n].root = "array" THEN [i \in 1..t[n].items |-> <<n, i>>] ELSE <<<<n, 0>>>>

-----------------------------------------------------------------------------
(* The framings                                                            *)

Document(t) ==
  IF Sound(t) /\ Cardinality(Positions(t)) = 1 /\ Shallow(t) /\ Len(Records(t, Only(t))) <= MaxRecords
  THEN [framing |-> "json", records |-> Records(t, Only(t))] ELSE Rejected

\* A line is what stands between line ends: one document of one line, and nothing blank.
Separated(t) == \A n \in 1..(Len(t) - 1) : t[n].after \in LineEnds
OnePerLine(t) == Separated(t) /\ \A n \in DOMAIN t : t[n].root # "blank" /\ ~t[n].multiline
LinesFit(t) == Len(t) <= MaxRecords
\* Padding counts as a part of the line, the carriage return does not.
Padded(d) == d.size + (IF d.after \in {"space", "spaceLF"} THEN 1 ELSE 0)
\* An empty text holds no lines and no records.
Lines(t) ==
  IF /\ Sound(t) /\ OnePerLine(t) /\ Shallow(t) /\ LinesFit(t)
     /\ \A n \in DOMAIN t : Padded(t[n]) <= MaxLineBytes
  THEN [framing |-> "jsonl", records |-> [n \in DOMAIN t |-> <<n, 0>>]] ELSE Rejected

\* Only objects and arrays, each within the line limit; arrays count by their items.
Pieces(t) ==
  LET upTo[n \in 0..Len(t)] ==
        IF n = 0 THEN <<>> ELSE upTo[n - 1] \o (IF n \in Positions(t) THEN Records(t, n) ELSE <<>>)
  IN  upTo[Len(t)]
Concatenated(t) ==
  IF /\ Sound(t) /\ Cardinality(Positions(t)) \in 2..MaxRecords /\ Shallow(t)
     /\ \A n \in Positions(t) : t[n].root \in {"object", "array"} /\ t[n].size <= MaxLineBytes
     /\ Len(Pieces(t)) <= MaxRecords
  THEN [framing |-> "concatenated", records |-> Pieces(t)] ELSE Rejected

\* The first framing that accepts.
Auto(t) ==
  IF Document(t) # Rejected THEN Document(t) ELSE IF Concatenated(t) # Rejected THEN Concatenated(t) ELSE Lines(t)

Framed(t, mode) == CASE mode = "json" -> Document(t) [] mode = "jsonl" -> Lines(t) [] mode = "auto" -> Auto(t)

\* A member of a package: one document, or lines, without limits of its own.
Member(t) ==
  IF Sound(t) /\ Cardinality(Positions(t)) = 1
  THEN [framing |-> "json", records |-> Records(t, Only(t))]
  ELSE IF t # <<>> /\ Sound(t) /\ OnePerLine(t) THEN [framing |-> "jsonl", records |-> [n \in DOMAIN t |-> <<n, 0>>]]
  ELSE Rejected

\* The import's JSON Lines: objects only, at least one, and a carriage return counts.
LineBytes(d) == Padded(d) + (IF d.after = "CRLF" THEN 1 ELSE 0)
ImportLines(t) ==
  IF /\ t # <<>> /\ Sound(t) /\ OnePerLine(t) /\ Shallow(t) /\ Len(t) <= MaxRecords
     /\ \A n \in DOMAIN t : LineBytes(t[n]) <= MaxLineBytes /\ t[n].root = "object"
  THEN [framing |-> "jsonl", records |-> [n \in DOMAIN t |-> <<n, 0>>]] ELSE Rejected

-----------------------------------------------------------------------------
Unread == [mode |-> "none", out |-> Rejected, member |-> Rejected, lines |-> Rejected]
Init == text = <<>> /\ verdict = Unread

\* Two documents on a line need a separator where the first has no end of its own; a
\* blank has a line of its own.
Emit ==
  /\ verdict = Unread /\ Len(text) < MaxDocuments
  /\ \E d \in Documents, s \in Separators :
       /\ d.root = "blank" => s # "none"
       /\ text # <<>> /\ Last(text).after = "none" => Last(text).root \in {"object", "array"}
       /\ text # <<>> /\ "blank" \in {d.root, Last(text).root} => Last(text).after \in LineEnds
       /\ text' = Append(text, [d EXCEPT !.after = s])
  /\ UNCHANGED verdict

Read ==
  /\ verdict = Unread
  /\ \E mode \in Modes :
       verdict' = [mode |-> mode, out |-> Framed(text, mode), member |-> Member(text), lines |-> ImportLines(text)]
  /\ UNCHANGED text

Next == Emit \/ Read
Spec == Init /\ [][Next]_vars

-----------------------------------------------------------------------------
(* Properties                                                              *)

\* Whatever framing is chosen, the records are the documents of the text in their order,
\* each once and whole: as one record, or item by item; none is lost, split or joined.
NothingLost ==
  verdict.out # Rejected =>
    LET r == verdict.out.records
    IN  /\ \A k \in 1..(Len(r) - 1) :
             r[k][1] < r[k + 1][1] \/ (r[k][1] = r[k + 1][1] /\ 0 < r[k][2] /\ r[k + 1][2] = r[k][2] + 1)
        /\ \A n \in Positions(text) : (\E k \in DOMAIN r : r[k][1] = n) \/ Records(text, n) = <<>>
        /\ Len(r) <= MaxRecords

\* Lines are the same records whether they are taken as lines or, by the automatic choice,
\* as one document or a sequence of documents; only arrays mean something else there.
FramingsAgree ==
  verdict.mode = "auto" /\ (\A n \in DOMAIN text : text[n].root # "array") /\ Lines(text) # Rejected =>
    verdict.out.records = Lines(text).records

\* Three readers of JSON Lines were written apart: what the import reads, the probe reads
\* in the same way, and a package member that is not a single document reads the same.
ReadersAgree ==
  verdict.mode = "jsonl" /\ verdict.lines # Rejected =>
    /\ verdict.out = verdict.lines
    /\ Len(text) > 1 => verdict.member = verdict.lines

\* docs/velociraptor-adapter-compatibility.md:384 says of the parser that it rejects
\* "excess records".  In the automatic mode, its default, a document with too many is
\* tried again as one line, and accepted as one record.
ExcessRejected ==
  verdict.mode # "none" /\ Len(text) = 1 /\ text[1].root = "array" /\ text[1].items > MaxRecords => verdict.out = Rejected
=============================================================================
