------------------------------ MODULE PackageProbe ------------------------------
(***************************************************************************)
(* The archive reader of the compatibility probe (main of                  *)
(* src/tools/compatibility/zip-package-probe.mjs), written apart from that *)
(* of the import, on the archives of ImportZip and with the same limits.   *)
(* It reads after the import has ended, so that the two can be compared.   *)
(***************************************************************************)
EXTENDS ImportZip

VARIABLES
  probed, total,                  \* members accepted so far, and their declared total
  produced,                       \* history: bytes really produced by decompression
  verdict

probeVars == <<probed, total, produced, verdict>>

-----------------------------------------------------------------------------
ProbePosition == archive.offset + Len(probed)

ProbeNamed(e) == \A n \in DOMAIN probed : Fold(probed[n].name) # Fold(e.name)

ProbeLimits(e) ==
  /\ e.size <= MaxEntry /\ total + e.size <= MaxExpanded
  /\ e.size <= (IF e.stored > 1 THEN e.stored ELSE 1) * Ratio

\* The local header must repeat flags, method and name; its sizes are not looked at.
ProbeLocated(e) ==
  /\ e.at < archive.offset /\ e.local # "other"
  /\ e.at + 1 + e.stored <= archive.offset

\* Bytes after the end of a compressed stream are not looked at either.
ProbeExpands(e) == e.sound /\ e.real <= MaxEntry /\ e.real = e.size

\* Output stops at the limit of one member, whatever size was declared.
ProbeProduced(e) == IF e.real < MaxEntry THEN e.real ELSE MaxEntry

ProbeInit == Init /\ probed = <<>> /\ total = 0 /\ produced = 0 /\ verdict = "waiting"

ProbeStarts ==
  /\ verdict = "waiting" /\ result # "reading"
  /\ verdict' = IF Start THEN "reading" ELSE "rejected"
  /\ UNCHANGED <<probed, total, produced>>

ProbeRejects == verdict' = "rejected" /\ UNCHANGED <<probed, total>>

\* Some of what the import does not support the probe reads: extra fields, comments, flags.
ProbeEntry ==
  /\ verdict = "reading" /\ Len(probed) < archive.count
  /\ \/ /\ HasEntry(ProbePosition) => ~EntryAt(ProbePosition).supported
        /\ ProbeRejects /\ UNCHANGED produced
     \/ /\ HasEntry(ProbePosition)
        /\ LET e == EntryAt(ProbePosition)
           IN  IF ~(ProbeNamed(e) /\ ProbeLimits(e) /\ ProbeLocated(e)) THEN ProbeRejects /\ UNCHANGED produced
               ELSE /\ produced' = produced + ProbeProduced(e)
                    /\ IF ProbeExpands(e)
                       THEN probed' = Append(probed, e) /\ total' = total + e.size /\ UNCHANGED verdict
                       ELSE ProbeRejects

ProbeFinish ==
  /\ verdict = "reading" /\ Len(probed) = archive.count
  /\ verdict' = IF ProbePosition = EocdAt THEN "accepted" ELSE "rejected"
  /\ UNCHANGED <<probed, total, produced>>

ProbeNext ==
  \/ Next /\ UNCHANGED probeVars
  \/ (ProbeStarts \/ ProbeEntry \/ ProbeFinish) /\ UNCHANGED vars

ProbeSpec == ProbeInit /\ [][ProbeNext]_<<vars, probeVars>>

-----------------------------------------------------------------------------
(* Properties                                                              *)

\* The probe bounds one member by the limit and not by its declared size: a member that is
\* refused afterwards may be expanded past the total, but only one, and by one limit.
ProbeBounded == produced <= MaxExpanded + MaxEntry

\* Two readers written apart: under the same limits, what the import accepts the probe
\* accepts.  The reverse is not so: the probe does not account for every byte.
ImportIsStricter == result = "accepted" => verdict # "rejected"
=============================================================================
