-------------------------------- MODULE JsonScan --------------------------------
(***************************************************************************)
(* Three readers of one JSON text, character by character: the strict      *)
(* recursive parser (scanJson in src/tools/lib/strict-json.mjs), the depth *)
(* scan that must bound its recursion beforehand (assertTextDepth in       *)
(* src/src/import/import-json.mjs), and the splitter of concatenated       *)
(* documents (splitConcatenatedDocuments in                                *)
(* src/tools/compatibility/structured-output-probe.mjs), whose pieces the  *)
(* parser reads afterwards.                                                *)
(*                                                                         *)
(* The parser is its stack of open containers and what it expects next.    *)
(* "n" is a number or literal as a whole and, within a string, a character *)
(* that may be a hexadecimal digit; "c" is a control character.  Whether a *)
(* key repeats depends on its text and is nondeterministic.                *)
(***************************************************************************)
EXTENDS Integers, Sequences

CONSTANT Maximum      \* limits.maxJsonDepth

Opens  == {"brace", "bracket"}            \* { and [
Closes == {"braceEnd", "bracketEnd"}      \* } and ]
Chars  == Opens \cup Closes \cup {"colon", "comma", "quote", "escape", "u", "n", "space", "c"}

VARIABLES
  kind,     \* the text is one document, or a sequence of objects and arrays
  stream,   \* a parser that finds the end of each document by itself
  doc,      \* the parser given one piece of the splitter after the other
  scan,     \* assertTextDepth
  split     \* splitConcatenatedDocuments
vars == <<kind, stream, doc, scan, split>>

-----------------------------------------------------------------------------
\* Plausible faults, used only to show that the properties can fail.
EscapeOnce(t, c) ==
  IF t.in THEN [t EXCEPT !.in = c # "quote"]
  ELSE IF c = "quote" THEN [t EXCEPT !.in = TRUE]
  ELSE [t EXCEPT !.depth = @ + (IF c \in Opens THEN 1 ELSE IF c \in Closes THEN -1 ELSE 0)]
-----------------------------------------------------------------------------
(* The parser                                                              *)

Fresh == [expect |-> "root", stack |-> <<>>, key |-> FALSE, hex |-> 0]
Failed == [Fresh EXCEPT !.expect = "error"]
InText(p) == p.expect \in {"text", "escaped", "hex"}

Opened(p, c) == [p EXCEPT !.stack = Append(@, c), !.expect = IF c = "brace" THEN "firstKey" ELSE "firstItem"]
\* A value ended: the container on top goes on, or the document is complete.
Valued(p)    == [p EXCEPT !.expect = IF p.stack = <<>> THEN "done" ELSE "next"]
Closed(p)    == Valued([p EXCEPT !.stack = SubSeq(@, 1, Len(@) - 1)])
Pairs(o, c)  == <<o, c>> \in {<<"brace", "braceEnd">>, <<"bracket", "bracketEnd">>}
Top(p)       == IF p.stack = <<>> THEN "none" ELSE p.stack[Len(p.stack)]

Value(p, c) ==
  CASE c \in Opens   -> Opened(p, c)
    [] c = "quote"   -> [p EXCEPT !.expect = "text", !.key = FALSE]
    [] c = "n"       -> Valued(p)
    [] OTHER         -> Failed

String(p, c) ==
  CASE p.expect = "hex"     -> IF c # "n" THEN Failed
                               ELSE [p EXCEPT !.hex = (@ + 1) % 4, !.expect = IF p.hex = 3 THEN "text" ELSE "hex"]
    [] p.expect = "escaped" -> IF c \in {"quote", "escape", "n"} THEN [p EXCEPT !.expect = "text"]
                               ELSE IF c = "u" THEN [p EXCEPT !.expect = "hex"] ELSE Failed
    [] OTHER ->
         CASE c = "quote"  -> IF p.key THEN [p EXCEPT !.expect = "colon"] ELSE Valued(p)
           [] c = "escape" -> [p EXCEPT !.expect = "escaped"]
           [] c = "c"      -> Failed
           [] OTHER        -> p

Parse(p, c) ==
  IF InText(p) THEN String(p, c)
  ELSE IF c = "space" THEN p
  ELSE CASE p.expect \in {"root", "value"}                  -> Value(p, c)
         [] p.expect = "firstItem"                          -> IF c = "bracketEnd" THEN Closed(p) ELSE Value(p, c)
         [] p.expect = "firstKey" /\ c = "braceEnd"         -> Closed(p)
         [] p.expect \in {"firstKey", "key"} /\ c = "quote" -> [p EXCEPT !.expect = "text", !.key = TRUE]
         [] p.expect = "colon" /\ c = "colon"               -> [p EXCEPT !.expect = "value"]
         [] p.expect = "next" /\ Pairs(Top(p), c)           -> Closed(p)
         [] p.expect = "next" /\ c = "comma"                -> [p EXCEPT !.expect = IF Top(p) = "brace" THEN "key" ELSE "value"]
         [] OTHER                                           -> Failed

-----------------------------------------------------------------------------
(* The two scans                                                           *)

Mark(t, c) ==
  IF t.in THEN IF t.escaped THEN [t EXCEPT !.escaped = FALSE]
               ELSE [t EXCEPT !.escaped = c = "escape", !.in = c # "quote"]
  ELSE CASE c = "quote"   -> [t EXCEPT !.in = TRUE]
         [] c \in Opens   -> [t EXCEPT !.depth = @ + 1]
         [] c \in Closes  -> [t EXCEPT !.depth = @ - 1]
         [] OTHER         -> t

\* The splitter ends a document where its depth returns to zero.
AtEnd(t, c) == ~t.in /\ c \in Closes /\ Mark(t, c).depth = 0

\* Between documents only space and the start of an object or array.
Split(t, c) ==
  IF t.within THEN IF AtEnd(t, c) THEN [Mark(t, c) EXCEPT !.within = FALSE, !.depth = 0] ELSE Mark(t, c)
  ELSE IF c = "space" THEN t
  ELSE IF c \in Opens THEN [Mark(t, c) EXCEPT !.within = TRUE]
  ELSE [t EXCEPT !.failed = TRUE]

\* The piece that begins with c, or goes on with it, as the parser will read it.
Piece(p, t, c) ==
  IF t.within THEN LET q == Parse(p, c) IN IF AtEnd(t, c) /\ q.expect # "done" THEN Failed ELSE q
  ELSE IF c = "space" THEN p
  ELSE IF c \in Opens THEN Parse(Fresh, c)
  ELSE Failed

\* The same sequence read by a parser that knows where a document ends.
Stream(p, c) ==
  IF p.expect = "done" /\ kind = "sequence" /\ c # "space"
  THEN IF c \in Opens THEN Parse(Fresh, c) ELSE Failed
  ELSE IF p.expect = "root" /\ kind = "sequence" /\ c \notin Opens \cup {"space"} THEN Failed
  ELSE Parse(p, c)

-----------------------------------------------------------------------------
Init ==
  /\ kind \in {"whole", "sequence"}
  /\ stream = Fresh /\ doc = Fresh /\ scan = [depth |-> 0, in |-> FALSE, escaped |-> FALSE]
  /\ split = [depth |-> 0, in |-> FALSE, escaped |-> FALSE, within |-> FALSE, failed |-> FALSE]

\* A key that repeats stops every parser that reads it.
Repeats(p, q) == p.expect = "text" /\ q.expect = "colon"

Read(c) ==
  /\ scan.depth <= Maximum /\ stream.expect # "error"
  /\ \E repeated \in BOOLEAN :
       LET s == Stream(stream, c)
           d == Piece(doc, split, c)
       IN  /\ repeated => Repeats(stream, s)
           /\ stream' = IF repeated THEN Failed ELSE s
           /\ doc' = IF kind = "whole" \/ doc.expect = "error" \/ (repeated /\ Repeats(doc, d)) THEN Failed ELSE d
  /\ scan' = Mark(scan, c)
  /\ split' = IF kind = "whole" \/ split.failed THEN split ELSE Split(split, c)
  /\ UNCHANGED kind

Next == \E c \in Chars : Read(c)
Spec == Init /\ [][Next]_vars

-----------------------------------------------------------------------------
(* Properties                                                              *)

\* import-json.mjs:38, "Bound recursion before invoking the strict parser": on every
\* prefix the parser accepts, the scan has counted exactly its open containers, strings
\* and escapes included, so that a text it lets through never nests the parser deeper
\* than the limit.
ScanBoundsParser ==
  stream.expect # "error" =>
    /\ scan.depth = Len(stream.stack) /\ scan.in = InText(stream)
    /\ scan.depth <= Maximum => Len(stream.stack) <= Maximum

\* Splitting first and parsing the pieces gives what parsing the stream gives: the same
\* documents end at the same characters, or both fail.
SplitAgrees ==
  kind = "sequence" =>
    /\ stream.expect # "error" => ~split.failed /\ doc = stream
    /\ stream.expect = "error" => split.failed \/ doc.expect = "error"
    /\ stream.expect # "error" => split.within = (stream.expect \notin {"root", "done"})
=============================================================================
