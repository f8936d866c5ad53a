-------------------------- MODULE DefenderController --------------------------
(***************************************************************************)
(* One private workspace C:\Dev\SecApp-Control-<id> and the processes that *)
(* touch it: ordinary controllers (Invoke-DefenderControl.ps1 preparing,   *)
(* running or discarding), the one elevated helper (DefenderControl.cs)    *)
(* and the backend it keeps in a kill-on-close Job.                        *)
(*                                                                         *)
(* Controllers may be started in any number and order and may be killed at *)
(* any moment: a killed process runs no finally block, but the system      *)
(* closes its handles, so its exclusive lock is released and the helper    *)
(* can see that its parent has exited.                                     *)
(***************************************************************************)
EXTENDS Naturals, FiniteSets

CONSTANTS
  Controllers,  \* the controller processes ever started on this workspace
  Nobody        \* no process

ASSUME ControllersAssumption == Nobody \notin Controllers

VARIABLES
  files,     \* names present in the workspace
  locker,    \* the process holding controller.lock exclusively
  ctl,       \* where each controller is
  mode,      \* what each controller was asked to do
  finished,  \* $finished: the controller has observed the helper's exit
  printed,   \* what the controller printed, with its exit code implied
  asked,     \* history: how many elevations were requested
  parent,    \* the controller the helper was started by
  helper,    \* where the helper is
  cleared,   \* the helper's last CheckStop passed and was not used yet
  exitCode,  \* the helper's exit code
  backend,   \* the backend process
  receipt    \* content of result.json

controllerVars == <<ctl, mode, finished, printed, asked>>
helperVars     == <<parent, helper, cleared, exitCode, backend, receipt>>
ctrlVars       == <<files, locker, controllerVars, helperVars>>

PreparedNames == {"payload", "build"}   \* sources, helper, backend copy; build.json
FileNames == PreparedNames \cup {"lock", "attempted", "config", "result", "cancel"}
Modes     == {"prepare", "run", "discard"}
Live(c)   == ctl[c] \notin {"idle", "exited"}
NoExit    == 9

CtrlInit ==
  /\ files = {} /\ locker = Nobody
  /\ ctl = [c \in Controllers |-> "idle"] /\ mode = [c \in Controllers |-> "prepare"]
  /\ finished = [c \in Controllers |-> FALSE] /\ printed = [c \in Controllers |-> "nothing"]
  /\ asked = 0 /\ parent = Nobody /\ helper = "none" /\ cleared = FALSE
  /\ exitCode = NoExit /\ backend = "none" /\ receipt = "none"

-----------------------------------------------------------------------------
\* Plausible faults, used only to show that the properties can fail.
LockShared                == TRUE
CleansAnyText(code, r)    == code # NoExit
ConfirmsOnTimeout         == TRUE
AnyName(fs)               == fs \ {"lock"}
KeepsBackend              == backend
-----------------------------------------------------------------------------
(* Controllers                                                             *)

\* The exact-set check before a prepared workspace is used.
Fresh(fs) == fs = PreparedNames \cup {"lock"}

MayLock == locker = Nobody

Goto(c, where) == ctl' = [ctl EXCEPT ![c] = where]

\* exit, through the finally block: an attempted run whose helper's exit was not
\* observed leaves a cancel request, unless writing it fails, which is swallowed; then
\* every handle is released.
Attempted == {"marked", "elevating", "waiting", "cancelling"}
Exit(c, text) ==
  /\ Goto(c, "exited")
  /\ printed' = [printed EXCEPT ![c] = text]
  /\ locker' = IF locker = c THEN Nobody ELSE locker
  /\ \/ UNCHANGED files
     \/ ctl[c] \in Attempted /\ ~finished[c] /\ files' = files \cup {"cancel"}

\* -CompileOnly: a new directory, an empty lock file, the exclusive lock.  One step: the
\* identifier is new and printed only at the end, so nobody else can name the workspace
\* in between, and what a kill there leaves is never fresh.
PrepareStarts(c) ==
  /\ ctl[c] = "idle" /\ files = {} /\ \A d \in Controllers : mode[d] = "prepare" => ctl[d] = "idle"
  /\ mode' = [mode EXCEPT ![c] = "prepare"]
  /\ files' = {"lock"} /\ locker' = c /\ Goto(c, "compiling")
  /\ UNCHANGED <<finished, printed, asked, helperVars>>

\* Copies, compiles, copies the backend; then writes the receipt; then reports it.
PrepareStep(c) ==
  /\ ctl[c] = "compiling"
  /\ \/ /\ "payload" \notin files /\ files' = files \cup {"payload"}
        /\ UNCHANGED <<locker, ctl, printed>>
     \/ /\ "payload" \in files /\ "build" \notin files /\ files' = files \cup {"build"}
        /\ UNCHANGED <<locker, ctl, printed>>
     \/ "build" \in files /\ Exit(c, "build")
  /\ UNCHANGED <<mode, finished, asked, helperVars>>

\* -RunPrepared or -DiscardPrepared: take the lock; a held lock is an error.
UseStarts(c, m) ==
  /\ ctl[c] = "idle" /\ files # {} /\ m \in {"run", "discard"}
  /\ mode' = [mode EXCEPT ![c] = m]
  /\ IF MayLock
     THEN locker' = c /\ Goto(c, "checking") /\ UNCHANGED <<files, printed>>
     ELSE Exit(c, "error")
  /\ UNCHANGED <<finished, asked, helperVars>>

\* The exact set, the receipt and every hash hold.
UseChecked(c) ==
  /\ ctl[c] = "checking" /\ Fresh(files) /\ Goto(c, "checked")
  /\ UNCHANGED <<files, locker, mode, finished, printed, asked, helperVars>>

\* Discard: start deleting.  Run: mark the only attempt.
UseActs(c) ==
  /\ ctl[c] = "checked"
  /\ IF mode[c] = "discard"
     THEN Goto(c, "deleting") /\ UNCHANGED files
     ELSE "attempted" \notin files /\ files' = files \cup {"attempted"} /\ Goto(c, "marked")
  /\ UNCHANGED <<locker, mode, finished, printed, asked, helperVars>>

\* Start-Process -Verb RunAs: Windows asks the user.
AskElevation(c) ==
  /\ ctl[c] = "marked" /\ Goto(c, "elevating") /\ asked' = asked + 1 /\ parent' = c
  /\ UNCHANGED <<files, locker, mode, finished, printed, helper, cleared, exitCode, backend, receipt>>

\* Start-Process returns once the user accepted: the helper exists.
Elevated(c) ==
  /\ ctl[c] = "elevating" /\ helper = "none"
  /\ Goto(c, "waiting") /\ helper' = "boot"
  /\ UNCHANGED <<files, locker, mode, finished, printed, asked, parent, cleared, exitCode, backend, receipt>>

\* WaitForExit(45000) expires: ask the helper to stop and wait 5 seconds more.
WaitExpires(c) ==
  /\ ctl[c] = "waiting" /\ files' = files \cup {"cancel"} /\ Goto(c, "cancelling")
  /\ UNCHANGED <<locker, mode, finished, printed, asked, helperVars>>

ExitObserved == helper = "exited"

\* The helper's exit is observed: a missing result is an error, a result is read.
HelperExitSeen(c) ==
  /\ ctl[c] \in {"waiting", "cancelling"} /\ ExitObserved
  /\ finished' = [finished EXCEPT ![c] = TRUE]
  /\ Goto(c, "reading")
  /\ UNCHANGED <<files, locker, mode, printed, asked, helperVars>>

\* The exact set a completed run leaves behind.
AfterRun(fs) == fs \ {"cancel"} = PreparedNames \cup {"lock", "attempted", "config", "result"}

\* Test-CompletedReceipt and the observed exit code decide whether to clean up.
MayClean(code, r) == code = 0 /\ r = "Completed"

ResultRead(c) ==
  /\ ctl[c] = "reading"
  /\ IF "result" \notin files THEN Exit(c, "error")
     ELSE IF MayClean(exitCode, receipt) /\ AfterRun(files)
     THEN Goto(c, "deleting") /\ UNCHANGED <<files, locker, printed>>
     ELSE Exit(c, "kept")
  /\ UNCHANGED <<mode, finished, asked, helperVars>>

\* The names are deleted in their listed order: the prepared ones before the mark of
\* the attempt, so that what a broken removal leaves never looks fresh.
NextNames(fs) == IF fs \cap PreparedNames # {} THEN fs \cap PreparedNames ELSE fs \ {"lock"}

\* Remove-OwnedDataFiles, one name at a time; the report comes after the last one.
DeleteStep(c) ==
  /\ ctl[c] = "deleting"
  /\ IF files = {"lock"}
     THEN Exit(c, IF mode[c] = "run" THEN "removed" ELSE "discarded")
     ELSE /\ \E f \in NextNames(files) : files' = files \ {f}
          /\ UNCHANGED <<locker, ctl, printed>>
  /\ UNCHANGED <<mode, finished, asked, helperVars>>

\* Any check, file operation or wait throws.  A failed removal after a run is
\* reported as data kept; every other failure is an error, the refusal of the
\* elevation and HELPER_EXIT_UNCONFIRMED included.
ControllerFails(c) ==
  /\ Live(c)
  /\ Exit(c, IF ctl[c] = "deleting" /\ mode[c] = "run" THEN "kept" ELSE "error")
  /\ UNCHANGED <<mode, finished, asked, helperVars>>

\* TerminateProcess by the owner: no finally, but the lock handle closes.
Killed(c) ==
  /\ Live(c)
  /\ Goto(c, "exited")
  /\ locker' = IF locker = c THEN Nobody ELSE locker
  /\ UNCHANGED <<files, mode, finished, printed, asked, helperVars>>

\* The user accepts the dialog of a controller that was killed meanwhile.
ElevatedLate ==
  /\ helper = "none" /\ parent # Nobody
  /\ ctl[parent] = "exited" /\ printed[parent] = "nothing"
  /\ helper' = "boot"
  /\ UNCHANGED <<files, locker, controllerVars, parent, cleared, exitCode, backend, receipt>>

-----------------------------------------------------------------------------
(* The helper and the backend                                              *)

HelperLive == helper \notin {"none", "exited"}
BackendLive == backend \in {"suspended", "running"}

\* The Job is killed when its last handle closes; termination takes its time.
JobClosed == IF BackendLive THEN "dying" ELSE backend

HelperExits(code) ==
  /\ helper' = "exited" /\ exitCode' = code /\ backend' = JobClosed /\ cleared' = FALSE

\* CheckStop without its clock; the 30 second limit is one of HelperFails.
StopRequested == ctl[parent] = "exited" \/ "cancel" \in files

\* The check and the operation it allows are two steps: the world may change between.
CheckStop ==
  /\ helper \in {"boot", "configured", "created", "polling"} /\ ~cleared /\ ~StopRequested
  /\ cleared' = TRUE
  /\ UNCHANGED <<files, locker, controllerVars, parent, helper, exitCode, backend, receipt>>

\* All output read to the end, the process exited with 0 and the Job empty.
Drained == backend = "exited"

\* The fixed config (create-new), the suspended backend, its resumption, the poll.
HelperWorks ==
  /\ cleared /\ cleared' = FALSE
  /\ \/ /\ helper = "boot" /\ "config" \notin files
        /\ files' = files \cup {"config"} /\ helper' = "configured" /\ UNCHANGED backend
     \/ /\ helper = "configured" /\ helper' = "created" /\ backend' = "suspended" /\ UNCHANGED files
     \/ /\ helper = "created" /\ helper' = "polling" /\ backend' = "running" /\ UNCHANGED files
     \/ /\ helper = "polling" /\ helper' = IF Drained THEN "completing" ELSE "polling"
        /\ UNCHANGED <<files, backend>>
  /\ UNCHANGED <<locker, controllerVars, parent, exitCode, receipt>>

\* Any requirement fails: outside Collect the helper just exits, with or without a
\* result; inside it the Job is terminated and the failure is reported.
HelperFails ==
  /\ \/ helper \in {"boot", "completing", "failing"} /\ HelperExits(1)
     \/ /\ helper \in {"configured", "created", "polling"}
        /\ helper' = "failing" /\ cleared' = FALSE /\ backend' = JobClosed /\ UNCHANGED exitCode
  /\ UNCHANGED <<files, locker, controllerVars, parent, receipt>>

\* result.json, create-new and flushed; then the exit code says the same.
HelperReports ==
  /\ \/ /\ helper \in {"completing", "failing"} /\ "result" \notin files
        /\ files' = files \cup {"result"}
        /\ receipt' = IF helper = "completing" THEN "Completed" ELSE "Failed"
        /\ helper' = "reported" /\ UNCHANGED <<exitCode, backend, cleared>>
     \/ /\ helper = "reported"
        /\ HelperExits(IF receipt = "Completed" THEN 0 ELSE 1) /\ UNCHANGED <<files, receipt>>
  /\ UNCHANGED <<locker, controllerVars, parent>>

\* The 40 second watchdog, or a crash; a result being written may be left partial.
HelperKilled ==
  /\ HelperLive /\ HelperExits(124)
  /\ \/ UNCHANGED <<files, receipt>>
     \/ /\ helper \in {"completing", "failing"} /\ "result" \notin files
        /\ files' = files \cup {"result"} /\ receipt' = "partial"
  /\ UNCHANGED <<locker, controllerVars, parent>>

BackendEnds ==
  /\ \/ backend = "running" /\ backend' \in {"exited", "crashed"}
     \/ backend = "dying" /\ backend' = "gone"
  /\ UNCHANGED <<files, locker, controllerVars, parent, helper, cleared, exitCode, receipt>>

-----------------------------------------------------------------------------
Controller(c) ==
  \/ PrepareStarts(c) \/ PrepareStep(c) \/ \E m \in Modes : UseStarts(c, m)
  \/ UseChecked(c) \/ UseActs(c) \/ AskElevation(c) \/ Elevated(c) \/ WaitExpires(c)
  \/ HelperExitSeen(c) \/ ResultRead(c) \/ DeleteStep(c)
  \/ ControllerFails(c) \/ Killed(c)

Helper == CheckStop \/ HelperWorks \/ HelperFails \/ HelperReports

CtrlNext ==
  \/ \E c \in Controllers : Controller(c)
  \/ ElevatedLate \/ Helper \/ HelperKilled \/ BackendEnds

\* The watchdog thread ends the helper and the system ends a killed Job.
CtrlSpec ==
  CtrlInit /\ [][CtrlNext]_ctrlVars /\ WF_ctrlVars(HelperKilled) /\ WF_ctrlVars(BackendEnds)

-----------------------------------------------------------------------------
CtlStates == {"idle", "compiling", "checking", "checked", "marked", "elevating", "waiting",
              "cancelling", "reading", "deleting", "exited"}
Texts == {"nothing", "build", "error", "kept", "removed", "discarded"}

TypeOK ==
  /\ files \subseteq FileNames /\ locker \in Controllers \cup {Nobody}
  /\ ctl \in [Controllers -> CtlStates] /\ mode \in [Controllers -> Modes]
  /\ finished \in [Controllers -> BOOLEAN] /\ printed \in [Controllers -> Texts]
  /\ asked \in Nat /\ parent \in Controllers \cup {Nobody}
  /\ helper \in {"none", "boot", "configured", "created", "polling", "completing",
                 "failing", "reported", "exited"}
  /\ cleared \in BOOLEAN /\ exitCode \in {0, 1, 124, NoExit}
  /\ backend \in {"none", "suspended", "running", "exited", "crashed", "dying", "gone"}
  /\ receipt \in {"none", "Completed", "Failed", "partial"}

\* "Single UAC attempt; no automatic retry": however many controllers are started on
\* a prepared workspace, and whichever are killed, elevation is requested once.
SingleElevation == asked <= 1

\* Files are deleted only by the holder of the exclusive lock, and only when no elevated
\* process can still use them: never asked for (discard), or the helper observed to
\* exit with the backend exited before it.
RemovalIsSafe ==
  \A c \in Controllers : ctl[c] = "deleting" =>
    /\ locker = c
    /\ IF mode[c] = "discard" THEN asked = 0
       ELSE helper = "exited" /\ backend \notin {"suspended", "running", "dying"}

\* A reported removal is a removal, and stays one: only the lock file is left, and no
\* other controller or late helper puts anything back.
RemovedIsTrue ==
  \A c \in Controllers : printed[c] \in {"removed", "discarded"} => files = {"lock"}

\* helper_exit_confirmed is true only of this controller's own helper, really exited.
ConfirmedIsReal ==
  \A c \in Controllers : finished[c] => parent = c /\ helper = "exited"

\* When the controller that asked for it has gone, however it went, neither the helper
\* nor the backend outlives it for good.
OrphansEnd ==
  \A c \in Controllers :
    (parent = c /\ ctl[c] = "exited") ~>
      (~HelperLive /\ backend \notin {"suspended", "running", "dying"})
=============================================================================
