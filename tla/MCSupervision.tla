----------------------------- MODULE MCSupervision -----------------------------
(* The two supervisors of child processes: the synthetic launch harness, whose   *)
(* Job holds everything its child starts, and the process probe, which has only  *)
(* a taskkill.  Each is checked by itself: part says which of them moves, and    *)
(* for the probe whether its child may start processes of its own.               *)
EXTENDS SyntheticLaunch

CONSTANTS ByteLimit, MaxBytes, Cancels     \* ProcessProbe
ASSUME ProbeAssumption == ByteLimit \in Nat /\ MaxBytes \in Nat

VARIABLES part, child, kin, sent, seen, retained, reason, direct, taskkill, timers, ended, main, pid, stop, observer

probeVars == <<child, kin, sent, seen, retained, reason, direct, taskkill, timers, ended, main, pid, stop, observer>>

Tree  == INSTANCE ProcessProbe WITH Limit <- ByteLimit, kept <- retained, Descendants <- TRUE
Alone == INSTANCE ProcessProbe WITH Limit <- ByteLimit, kept <- retained, Descendants <- FALSE

MCInit ==
  /\ part \in {"launch", "tree", "alone"} /\ Init /\ Tree!Init
  /\ part # "launch" => case = Case("normal", "Completed")

MCNext ==
  /\ UNCHANGED part
  /\ IF part = "launch" THEN Next ELSE UNCHANGED vars
  /\ CASE part = "tree"  -> Tree!Next
       [] part = "alone" -> Alone!Next
       [] OTHER -> UNCHANGED probeVars

\* The fairness of the two specifications.  Of the probe it is used for a child alone.
all == <<part, vars, probeVars>>
LaunchFairness ==
  /\ WF_all(part = "launch" /\ UNCHANGED <<part, probeVars>> /\ Supervise)
  /\ WF_all(part = "launch" /\ UNCHANGED <<part, probeVars>> /\ TimePasses)
  /\ \A p \in Processes : WF_all(part = "launch" /\ UNCHANGED <<part, probeVars>> /\ Dies(p))
Still == part = "alone" /\ UNCHANGED <<part, vars>>
ProbeFairness ==
  /\ WF_all(Still /\ (Alone!SpawnEvent \/ Alone!SpawnFails)) /\ WF_all(Still /\ Alone!Data) /\ WF_all(Still /\ Alone!Timer)
  /\ WF_all(Still /\ Alone!CloseEvent) /\ WF_all(Still /\ Alone!TaskkillEnds) /\ WF_all(Still /\ Alone!WriteStop)
  /\ WF_all(Still /\ Alone!ObserverDone) /\ WF_all(Still /\ Alone!Summarize) /\ WF_all(Still /\ child = "doomed" /\ Alone!Exit)

MCSpec == MCInit /\ [][MCNext]_all /\ LaunchFairness /\ ProbeFairness

-----------------------------------------------------------------------------
\* A case of the launch harness that passes, and an end it calls the child's own, is what
\* happened, and its record is one the independent contract accepts.
PassIsReal == TypeOK /\ PassedIsEarned /\ NaturalEndIsWhole /\ ContractAgrees

\* The probe's summary says what became of the child, of its output and of the
\* termination it asked for.
SummaryIsReal == Tree!TypeOK /\ Tree!SummaryIsTrue /\ Tree!LimitsExplained /\ Tree!TerminationIsComplete

\* Every case of the harness ends and leaves no process, however it ended; a probe of a
\* child without descendants ends too.
EverythingEnds ==
  <>CASE part = "launch" -> phase \in {"done", "killed"} /\ Live = {}
      [] part = "alone"  -> main \in {"done", "crashed"}
      [] OTHER -> TRUE
=============================================================================
