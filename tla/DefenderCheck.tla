---------------------------- MODULE DefenderCheck ----------------------------
(***************************************************************************)
(* The whole terminal check (tools/check-defender.mjs): the workflow, its  *)
(* executor, and the controllers, helper, backend and files they act on.   *)
(* Each executor call starts at most one controller, named by the call.    *)
(* The capture of that controller is used through what ControllerCapture   *)
(* shows: its promise always settles, at any time with a failure, and is   *)
(* accepted only after the controller closed by itself with all its text.  *)
(***************************************************************************)
EXTENDS DefenderFlow, DefenderController

VARIABLES
  typed,         \* what the prompt returned, Untyped before
  aborted,       \* the AbortController's signal
  streamFailed,  \* stdout or stderr is lost
  cliExit        \* process.exitCode

CONSTANT Untyped

cliVars == <<typed, aborted, streamFailed, cliExit>>
vars    == <<flowVars, ctrlVars, cliVars>>

ASSUME CheckAssumption == Controllers = Operations /\ Untyped \notin Answers \cup {NoAnswer}

Init ==
  /\ FlowInit /\ CtrlInit
  /\ typed = Untyped /\ aborted = FALSE /\ streamFailed = FALSE /\ cliExit = Unsettled

said == ~streamFailed

\* The awaited executor call whose controller may be spawned: not after an abort.
MayStart(op) ==
  /\ ~aborted
  /\ \/ op = "prepare" /\ pc = "preparing"
     \/ op = "run"     /\ pc = "running"
     \/ op = "discard" /\ pc \in {"discarding", "rescuing"}

StartController(op) ==
  /\ MayStart(op)
  /\ IF op = "prepare" THEN PrepareStarts(op) ELSE UseStarts(op, op)
  /\ UNCHANGED <<flowVars, cliVars>>

\* captureController and the decoder accept this text of a closed controller.
Accepts(op, text) == ctl[op] = "exited" /\ printed[op] = text /\ ~aborted

BeginCheck == Begin(said) /\ UNCHANGED <<ctrlVars, cliVars>>

PrepareSettles ==
  /\ \E ok \in {Accepts("prepare", "build"), FALSE} : Prepared(ok, said)
  /\ UNCHANGED <<ctrlVars, cliVars>>

DiscardSettles ==
  /\ \E ok \in {Accepts("discard", "discarded"), FALSE} : Discarded(ok, said)
  /\ UNCHANGED <<ctrlVars, cliVars>>

RunSettles ==
  /\ \/ Accepts("run", "removed") /\ \E o \in {"Useful", "NotTested"} : RunEnded(o, said)
     \/ Accepts("run", "kept") /\ exitCode = 0 /\ RunEnded("Kept", said)
     \/ RunEnded("Rejected", said)
  /\ UNCHANGED <<ctrlVars, cliVars>>

\* readDefenderConfirmation: the typed line, or null on cancel, expiry, end or abort.
PromptSettles ==
  /\ \E a \in IF aborted THEN {NoAnswer} ELSE Answers \cup {NoAnswer} :
       /\ typed' = a
       /\ Decline(a) \/ Accept(a, said)
  /\ UNCHANGED <<ctrlVars, aborted, streamFailed, cliExit>>

Abort ==
  /\ ~aborted /\ cliExit = Unsettled
  /\ aborted' = TRUE /\ streamFailed' \in {streamFailed, TRUE}
  /\ UNCHANGED <<flowVars, ctrlVars, typed, cliExit>>

CliExits ==
  /\ pc = "settled" /\ cliExit = Unsettled
  /\ cliExit' = IF streamFailed THEN 1 ELSE exit
  /\ UNCHANGED <<flowVars, ctrlVars, typed, aborted, streamFailed>>

Settles == PrepareSettles \/ DiscardSettles \/ RunSettles \/ PromptSettles

ControllerStep(c) ==
  \/ PrepareStep(c) \/ UseChecked(c) \/ UseActs(c) \/ AskElevation(c) \/ Elevated(c)
  \/ WaitExpires(c) \/ HelperExitSeen(c) \/ ResultRead(c) \/ DeleteStep(c) \/ ControllerFails(c) \/ Killed(c)

Machine ==
  /\ \/ \E c \in Controllers : ControllerStep(c)
     \/ ElevatedLate \/ Helper \/ HelperKilled \/ BackendEnds
  /\ UNCHANGED <<flowVars, cliVars>>

Next ==
  \/ BeginCheck \/ Settles \/ Abort \/ CliExits \/ Machine
  \/ \E op \in Operations : StartController(op)

\* The command runs, promises settle by timer at the latest, and the watchdog and the
\* system end what is elevated.  Users and controllers owe nothing.
Spec ==
  /\ Init /\ [][Next]_vars
  /\ WF_vars(BeginCheck) /\ WF_vars(Settles) /\ WF_vars(CliExits)
  /\ WF_vars(HelperKilled /\ UNCHANGED <<flowVars, cliVars>>)
  /\ WF_vars(BackendEnds /\ UNCHANGED <<flowVars, cliVars>>)

-----------------------------------------------------------------------------

\* The state of the data as the user may speak of it.
DataState ==
  IF files \ {"lock"} # {} THEN "present"
  ELSE IF asked > 0 \/ calls["discard"] > 0 THEN "removed" ELSE "none"

Verdict ==
  CASE exit \in {0, 2}   -> "reported"
    [] exit = 3          -> "cancelled"
    [] exit = 1          -> "failed"
    [] exit = Unsettled  -> "open"

\* The check with all its processes is the one-shot check.
Promise == INSTANCE OneShotCheck WITH
  consent <- runStarted, elevated <- asked > 0, data <- DataState, verdict <- Verdict

IsOneShot == Promise!Spec

\* An elevated process exists, or is still being asked for, only after the prompt
\* returned exactly the one-use phrase.
ElevationNeedsPhrase == asked > 0 \/ helper # "none" => typed = Phrase

\* Exit 0 or 2 of the command means that nothing of it is left: every process of the
\* run has ended by itself and only the lock file remains; exit 3, that the helper was
\* never asked for and the prepared data are gone.
ExitMeansClean ==
  /\ cliExit \in {0, 2} => /\ files = {"lock"} /\ helper = "exited" /\ exitCode = 0
                           /\ backend = "exited" /\ ctl["run"] = "exited"
  /\ cliExit = 3 => files = {"lock"} /\ asked = 0 /\ ctl["discard"] = "exited"

\* The command always ends, and whatever it elevated ends, also when controllers hang,
\* fail, are killed or never start.
EverythingEnds ==
  /\ <>(cliExit # Unsettled)
  /\ ctl["run"] = "exited" ~> ~HelperLive /\ ~BackendLive

\* From the typed phrase to the exit code: consent comes before every elevation, and
\* what the code says of the end is so.
CommandIsTrue == ElevationNeedsPhrase /\ ExitMeansClean
=============================================================================
