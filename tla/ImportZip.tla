------------------------------ MODULE ImportZip ------------------------------
(***************************************************************************)
(* The restricted reading of an audit archive (parseAuditZip of            *)
(* src/src/import/import-zip.mjs): the directory is walked entry by entry, *)
(* every member is checked against its local header and expanded, and at   *)
(* the end the members must tile the file up to the directory.             *)
(*                                                                         *)
(* An archive is what can be read at each place of the file: one unit      *)
(* stands for a local header with its name, one for a directory entry, and *)
(* stored bytes are counted.  The directory may claim anything about       *)
(* members, sizes and its own place.                                       *)
(***************************************************************************)
EXTENDS Naturals, SequencesExt

CONSTANTS
  Archives,                       \* the files that may be selected
  Fold(_),                        \* String.prototype.toLowerCase on names
  MaxEntries, MaxEntry, MaxExpanded, Ratio    \* the limits of the import

ASSUME ZipAssumption ==
  /\ {MaxEntries, MaxEntry, MaxExpanded, Ratio} \subseteq Nat \ {0}
  /\ \A a \in Archives :
       /\ {a.dirAt, a.gap, a.offset, a.size, a.count} \subseteq Nat
       /\ Len(a.dir) \in Nat /\ DOMAIN a.dir = 1..Len(a.dir)
       /\ \A n \in DOMAIN a.dir : {a.dir[n].at, a.dir[n].stored, a.dir[n].used, a.dir[n].size, a.dir[n].real} \subseteq Nat

VARIABLES
  archive,
  entries, expanded,              \* members accepted so far, and their declared total
  inflated,                       \* history: bytes really produced by decompression
  result

vars == <<archive, entries, expanded, inflated, result>>

-----------------------------------------------------------------------------
\* Plausible faults, used only to show that the properties can fail.
EndsOnly(o) ==
  /\ entries # <<>> /\ entries[o[1]].at = 0
  /\ entries[o[Len(entries)]].at + 1 + entries[o[Len(entries)]].stored = archive.offset
-----------------------------------------------------------------------------
\* The end record follows the directory; a gap between them holds other bytes.
EocdAt == archive.dirAt + Len(archive.dir) + archive.gap
EntryAt(position) == archive.dir[position - archive.dirAt + 1]
HasEntry(position) == position \in archive.dirAt..(archive.dirAt + Len(archive.dir) - 1)

Start ==
  /\ archive.count <= MaxEntries
  /\ archive.offset + archive.size = EocdAt

\* expandedSize is checked against every limit before anything is expanded.
WithinLimits(e) ==
  /\ e.size <= MaxEntry /\ expanded + e.size <= MaxExpanded
  /\ e.size <= (IF e.stored > 1 THEN e.stored ELSE 1) * Ratio

Named(e) == \A n \in DOMAIN entries : Fold(entries[n].name) # Fold(e.name)

\* The local header repeats the metadata and the name; a stored range is one unit of
\* header and the stored bytes.
Located(e) ==
  /\ e.at < archive.offset /\ e.local = "same"
  /\ e.at + 1 + e.stored <= archive.offset

\* inflateEntry() and the checks of its result: the stream uses all stored bytes and
\* gives exactly the declared bytes.
Expands(e) == e.used = e.stored /\ e.real = e.size /\ e.sound

\* Output stops at the declared size.
Produced(e) == IF e.real < e.size THEN e.real ELSE e.size

\* The members sorted by their place.  Two that start together cannot both be passed below,
\* so that it does not matter which of them the sort puts first.
Orders ==
  {o \in [DOMAIN entries -> DOMAIN entries] :
     /\ ToSet(o) = DOMAIN entries
     /\ \A m, n \in DOMAIN entries : m < n => entries[o[m]].at <= entries[o[n]].at}

Stops(e) == e.at + 1 + e.stored
Tiles(o) ==
  /\ entries # <<>> /\ entries[o[1]].at = 0 /\ Stops(entries[o[Len(entries)]]) = archive.offset
  /\ \A n \in 2..Len(entries) : Stops(entries[o[n - 1]]) = entries[o[n]].at

Init ==
  /\ archive \in Archives
  /\ entries = <<>> /\ expanded = 0 /\ inflated = 0
  /\ result = IF Start THEN "reading" ELSE "rejected"

Position == archive.offset + Len(entries)

End(r) == result' = r /\ UNCHANGED <<archive, entries, expanded>>

\* One directory entry: signature and bounds, profile, name, limits, local header, content.
ReadEntry ==
  /\ result = "reading" /\ Len(entries) < archive.count
  /\ IF ~HasEntry(Position) THEN End("rejected") /\ UNCHANGED inflated
     ELSE LET e == EntryAt(Position)
          IN  CASE ~e.supported -> End("unsupported") /\ UNCHANGED inflated
                [] e.supported /\ ~(Named(e) /\ WithinLimits(e) /\ Located(e)) ->
                     End("rejected") /\ UNCHANGED inflated
                [] OTHER ->
                     /\ inflated' = inflated + Produced(e)
                     /\ IF Expands(e)
                        THEN /\ entries' = Append(entries, e) /\ expanded' = expanded + e.size
                             /\ UNCHANGED <<archive, result>>
                        ELSE End("rejected")

Finish ==
  /\ result = "reading" /\ Len(entries) = archive.count
  /\ End(IF Position = EocdAt /\ (\E o \in Orders : Tiles(o)) THEN "accepted" ELSE "rejected")
  /\ UNCHANGED inflated

Next == ReadEntry \/ Finish

Spec == Init /\ [][Next]_vars

-----------------------------------------------------------------------------
(* Properties                                                              *)

TypeOK ==
  /\ result \in {"reading", "accepted", "rejected", "unsupported"}
  /\ expanded \in 0..MaxExpanded /\ Len(entries) <= MaxEntries

\* Decompression never produces more than the limit for the whole archive, for archives
\* that are rejected later and for members that overlap too.
InflationBounded == inflated <= MaxExpanded

\* No byte of an accepted archive is left out and none is used twice: up to the end
\* record each byte is in one directory entry that was read, or is the header or a
\* consumed byte of exactly one member.
NothingHidden ==
  result = "accepted" =>
    \A b \in 0..(EocdAt - 1) :
      IF b >= archive.offset THEN b < archive.offset + Len(entries)
      ELSE \E n \in DOMAIN entries :
             /\ b \in entries[n].at..(entries[n].at + entries[n].used)
             /\ \A m \in DOMAIN entries \ {n} : b \notin entries[m].at..(entries[m].at + entries[m].stored)
=============================================================================
