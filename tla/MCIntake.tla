------------------------------- MODULE MCIntake -------------------------------
(* Everything between a selected file and what is said of it: reading the      *)
(* source, the archive in two readers, the import command, the text readers,   *)
(* the framings, the assessment and the output gate.  They hand each other     *)
(* finished values, so each is checked by itself on all values it may be       *)
(* handed: part says which of them moves.                                      *)
EXTENDS PackageProbe, MCArchives, TLC

CONSTANTS
  Files, MaxBytes, Buffer, MaxLength, MaxChanges, Nothing,   \* SourceRead
  MaxRecords, Ids,                                        \* AuditImport
  Maximum,                                                \* JsonScan
  Documents, MaxLineBytes, MaxDepth, MaxDocuments,        \* StructuredFraming
  MaxSourceBytes, MaxChunk, MaxCalls                      \* DirectOutputGate

VARIABLES
  part,
  identified, file, named, writes, reading, pathState, before, after, handle, data, opened,
  command, pc, kind, records, values, judged, cause, outcome, exit, shown,
  textKind, stream, doc, scan, split,
  text, cut,
  package, observations, changes,
  storage, capacity, ended, completed, firstFailure, last, preview, delivered, spoilt, calls

archiveVars    == <<vars, probeVars>>
sourceVars     == <<identified, file, named, writes, reading, pathState, before, after, handle, data, opened>>
importVars     == <<command, pc, kind, records, values, judged, cause, outcome, exit, shown>>
scanVars       == <<textKind, stream, doc, scan, split>>
framingVars    == <<text, cut>>
assessmentVars == <<package, observations, changes>>
gateVars       == <<storage, capacity, ended, completed, firstFailure, last, preview, delivered, spoilt, calls>>

Source     == INSTANCE SourceRead WITH pc <- reading, shown <- opened, changes <- writes
Import     == INSTANCE AuditImport WITH result <- outcome
Scan       == INSTANCE JsonScan WITH kind <- textKind
Framing    == INSTANCE StructuredFraming WITH verdict <- cut
Assessment == INSTANCE ProtectionAssessment
Gate       == INSTANCE DirectOutputGate

\* What the readers may be handed: limits that are numbers, and documents of a text.
Texts == [root : {"object", "array", "scalar", "broken", "blank"}, items : Nat, depth : Nat, size : Nat,
          multiline : BOOLEAN, after : Framing!Separators]
ASSUME LimitAssumption    == {MaxBytes, Buffer, MaxLength, MaxChanges, MaxSourceBytes} \subseteq Nat
ASSUME DocumentAssumption == Documents \subseteq Texts /\ {MaxRecords, MaxLineBytes, MaxDepth} \subseteq Nat

FileSymmetry == Permutations(Files)

Doc(root, items, depth, size, multiline) ==
  [root |-> root, items |-> items, depth |-> depth, size |-> size, multiline |-> multiline, after |-> "none"]
SmallDocuments ==
  {Doc("object", 0, 1, 1, FALSE), Doc("object", 0, 2, 2, FALSE), Doc("object", 0, 3, 1, FALSE),
   Doc("object", 0, 1, 1, TRUE), Doc("object", 0, 1, 3, FALSE), Doc("scalar", 0, 1, 1, FALSE), Doc("broken", 0, 0, 1, FALSE),
   Doc("blank", 0, 0, 0, FALSE), Doc("array", 0, 1, 1, FALSE), Doc("array", 2, 2, 1, FALSE),
   Doc("array", 3, 1, 1, FALSE), Doc("array", 3, 1, 1, TRUE)}

Parts == {"source", "archive", "import", "scan", "framing", "assessment", "gate"}
\* Of what does not move, one initial state is enough.
Chosen(p, S) == IF part = p THEN S ELSE {CHOOSE x \in S : TRUE}

MCInit ==
  /\ part \in Parts
  /\ Import!Init /\ Framing!Init /\ Gate!Init
  /\ textKind \in Chosen("scan", {"whole", "sequence"}) /\ Scan!Init
  /\ package \in Chosen("assessment", {"JsonObject", "JsonLines", "AuditPackageZip"}) /\ Assessment!Init
  /\ Source!Init /\ (part # "source" => named = Nothing /\ identified /\ \A f \in Files : file[f].data = <<>>)
  /\ IF part = "archive" THEN ProbeInit
     ELSE /\ archive = [dir |-> <<>>, dirAt |-> 0, gap |-> 0, offset |-> 0, size |-> 0, count |-> 0]
          /\ entries = <<>> /\ expanded = 0 /\ inflated = 0 /\ result = "reading"
          /\ probed = <<>> /\ total = 0 /\ produced = 0 /\ verdict = "waiting"

MCNext ==
  /\ UNCHANGED part
  /\ IF part = "source"     THEN Source!Next     ELSE UNCHANGED sourceVars
  /\ IF part = "archive"    THEN ProbeNext       ELSE UNCHANGED archiveVars
  /\ IF part = "import"     THEN Import!Next     ELSE UNCHANGED importVars
  /\ IF part = "scan"       THEN Scan!Next       ELSE UNCHANGED scanVars
  /\ IF part = "framing"    THEN Framing!Next    ELSE UNCHANGED framingVars
  /\ IF part = "assessment" THEN Assessment!Next ELSE UNCHANGED assessmentVars
  /\ IF part = "gate"       THEN Gate!Next       ELSE UNCHANGED gateVars

MCSpec ==
  MCInit /\ [][MCNext]_<<part, archiveVars, sourceVars, importVars, scanVars, framingVars, assessmentVars, gateVars>>

-----------------------------------------------------------------------------
\* What the import reads is one version of one file, within the limit, and the one the
\* path still names.
SourceIsOneVersion ==
  [](Source!TypeOK /\ Source!AcceptedIsOneVersion) /\ Source!AcceptedIsCurrent

\* Every byte of an accepted archive is accounted for, neither reader expands more than
\* its bound, and the probe reads whatever the import reads.
ArchiveIsAccounted ==
  TypeOK /\ InflationBounded /\ NothingHidden /\ ProbeBounded /\ ImportIsStricter

\* What the import command accepts, prints and returns comes from what was judged.
OnlyJudgedIsShown ==
  part = "import" => Import!AcceptedIsJudged /\ Import!ValuesStayPrivate /\ Import!ExitIsTrue

\* Texts that several readers split, scan or frame are the same text to all of them.
TextReadersAgree ==
  /\ part = "scan"    => Scan!ScanBoundsParser /\ Scan!SplitAgrees
  /\ part = "framing" => Framing!NothingLost /\ Framing!FramingsAgree /\ Framing!ReadersAgree

\* What is said of the protection is what one sound observation says, whatever the order.
AssessmentIsBacked ==
  part = "assessment" =>
    /\ Assessment!OrderIsIrrelevant /\ Assessment!NothingIsMadeUp
    /\ Assessment!ConcernIsShown /\ Assessment!PreviewAgrees

\* The gate gives one preview of a whole, clean output, or one failure, and keeps nothing.
PreviewIsWhole ==
  [](Gate!TypeOK /\ Gate!NothingKept) /\ Gate!PreviewIsWhole /\ Gate!FirstFailureSticks
=============================================================================
