------------------------- MODULE DefenderCheckProofs -------------------------
(***************************************************************************)
(* What DefenderController promises of one workspace, proved for any set   *)
(* of controller processes; then what the whole terminal check promises:   *)
(* its processes keep that invariant, each is started by the one await     *)
(* that owns it (SpawnInv), the data outlive everyone who may still use    *)
(* them (DataInv), and the outcome was read from the controller that       *)
(* reached it (OutcomeInv).  On these the check implements the one-shot    *)
(* promise of OneShotCheck, step by step.  Last, the promise the check     *)
(* takes from the executor: a captured child settles once, whatever it     *)
(* does, and an output that is accepted is whole (CapInv).                 *)
(***************************************************************************)
EXTENDS DefenderCheck, ControllerCapture, TLAPS

USE DEF Modes, Texts, CtlStates, NoExit

\* What leaving a controller through its finally block does to the shared state.
LEMMA ExitTyped ==
  ASSUME TypeOK, NEW c \in Controllers, NEW text \in Texts, Exit(c, text)
  PROVE  /\ files' \subseteq FileNames /\ locker' \in Controllers \cup {Nobody}
         /\ ctl' \in [Controllers -> CtlStates] /\ printed' \in [Controllers -> Texts]
BY DEF TypeOK, Exit, Attempted, Goto, FileNames

\* The helper ends with one of its codes and closes the Job of the backend.
LEMMA HelperExitsTyped ==
  ASSUME TypeOK, NEW code \in {0, 1, 124}, HelperExits(code)
  PROVE  /\ helper' = "exited" /\ exitCode' \in {0, 1, 124} /\ cleared' = FALSE
         /\ backend' \in {"none", "suspended", "running", "exited", "crashed", "dying", "gone"}
BY DEF TypeOK, HelperExits, JobClosed, BackendLive

\* No step of a controller breaks a type.
LEMMA ControllerTyped ==
  ASSUME TypeOK, NEW c \in Controllers, Controller(c)
  PROVE  TypeOK'
<1>1. CASE PrepareStarts(c)
  BY <1>1 DEF TypeOK, PrepareStarts, Goto, FileNames, PreparedNames, helperVars
<1>2. CASE PrepareStep(c)
  <2>1. CASE Exit(c, "build")
    BY <1>2, <2>1, ExitTyped DEF TypeOK, PrepareStep, helperVars
  <2>2. CASE \E f \in PreparedNames : files' = files \cup {f} /\ UNCHANGED <<locker, ctl, printed>>
    BY <1>2, <2>2 DEF TypeOK, PrepareStep, FileNames, helperVars
  <2>3. QED BY <1>2, <2>1, <2>2 DEF PrepareStep, PreparedNames
<1>3. ASSUME NEW m \in Modes, UseStarts(c, m) PROVE TypeOK'
  <2>1. CASE MayLock
    BY <1>3, <2>1 DEF TypeOK, UseStarts, Goto, helperVars
  <2>2. CASE ~MayLock
    BY <1>3, <2>2, ExitTyped DEF TypeOK, UseStarts, helperVars
  <2>3. QED BY <2>1, <2>2
<1>4. CASE UseChecked(c)
  BY <1>4 DEF TypeOK, UseChecked, Goto, helperVars
<1>5. CASE UseActs(c)
  BY <1>5 DEF TypeOK, UseActs, Goto, FileNames, helperVars
<1>6. CASE Elevated(c)
  BY <1>6 DEF TypeOK, Elevated, Goto
<1>7. CASE WaitExpires(c)
  BY <1>7 DEF TypeOK, WaitExpires, Goto, FileNames, helperVars
<1>8. CASE HelperExitSeen(c)
  BY <1>8 DEF TypeOK, HelperExitSeen, Goto, helperVars
<1>9. CASE ResultRead(c)
  <2>1. CASE \E text \in {"error", "kept"} : Exit(c, text)
    BY <1>9, <2>1, ExitTyped DEF TypeOK, ResultRead, helperVars
  <2>2. CASE Goto(c, "deleting") /\ UNCHANGED <<files, locker, printed>>
    BY <1>9, <2>2 DEF TypeOK, ResultRead, Goto, helperVars
  <2>3. QED BY <1>9, <2>1, <2>2 DEF ResultRead
<1>10. CASE DeleteStep(c)
  <2>1. CASE files = {"lock"}
    BY <1>10, <2>1, ExitTyped DEF TypeOK, DeleteStep, helperVars
  <2>2. CASE files # {"lock"}
    BY <1>10, <2>2 DEF TypeOK, DeleteStep, helperVars
  <2>3. QED BY <2>1, <2>2
<1>11. CASE ControllerFails(c)
  BY <1>11, ExitTyped DEF TypeOK, ControllerFails, helperVars
<1>12. CASE Killed(c)
  BY <1>12 DEF TypeOK, Killed, Goto, helperVars
<1>13. CASE AskElevation(c)
  BY <1>13 DEF TypeOK, AskElevation, Goto
<1>14. QED
  BY <1>1, <1>2, <1>3, <1>4, <1>5, <1>6, <1>7, <1>8, <1>9, <1>10, <1>11, <1>12, <1>13 DEF Controller

\* No step of the elevation dialog, the helper or the backend breaks a type.
LEMMA MachineTyped ==
  ASSUME TypeOK, ElevatedLate \/ Helper \/ HelperKilled \/ BackendEnds
  PROVE  TypeOK'
<1>1. CASE ElevatedLate
  BY <1>1 DEF TypeOK, ElevatedLate, controllerVars
<1>2. CASE CheckStop
  BY <1>2 DEF TypeOK, CheckStop, controllerVars
<1>3. CASE HelperWorks
  BY <1>3, ZenonT(40) DEF TypeOK, HelperWorks, FileNames, controllerVars
<1>4. CASE HelperFails
  <2>1. CASE HelperExits(1)
    BY <1>4, <2>1, HelperExitsTyped DEF TypeOK, HelperFails, controllerVars
  <2>2. CASE helper' = "failing" /\ cleared' = FALSE /\ backend' = JobClosed /\ UNCHANGED exitCode
    BY <1>4, <2>2 DEF TypeOK, HelperFails, JobClosed, BackendLive, controllerVars
  <2>3. QED BY <1>4, <2>1, <2>2 DEF HelperFails
<1>5. CASE HelperReports
  <2>1. CASE helper = "reported"
    BY <1>5, <2>1, HelperExitsTyped, ZenonT(40) DEF TypeOK, HelperReports, controllerVars
  <2>2. CASE helper # "reported"
    BY <1>5, <2>2 DEF TypeOK, HelperReports, FileNames, controllerVars
  <2>3. QED BY <2>1, <2>2
<1>6. CASE HelperKilled
  BY <1>6, HelperExitsTyped, ZenonT(40) DEF TypeOK, HelperKilled, FileNames, controllerVars
<1>7. CASE BackendEnds
  BY <1>7 DEF TypeOK, BackendEnds, controllerVars
<1>8. QED
  BY <1>1, <1>2, <1>3, <1>4, <1>5, <1>6, <1>7 DEF Helper

\* The initial values have their types.
LEMMA InitTyped == CtrlInit => TypeOK
<1>1. CtrlInit => finished \in [Controllers -> BOOLEAN]
  BY DEF CtrlInit
<1>2. CtrlInit => /\ ctl \in [Controllers -> CtlStates] /\ mode \in [Controllers -> Modes]
                  /\ printed \in [Controllers -> Texts]
  BY DEF CtrlInit
<1>3. CtrlInit => cleared \in BOOLEAN
  BY Zenon DEF CtrlInit
<1>4. CtrlInit => /\ files \subseteq FileNames /\ locker \in Controllers \cup {Nobody}
                  /\ asked \in Nat /\ parent \in Controllers \cup {Nobody}
                  /\ helper = "none" /\ exitCode = NoExit /\ backend = "none"
                  /\ receipt = "none"
  BY DEF CtrlInit
<1>5. QED BY <1>1, <1>2, <1>3, <1>4 DEF TypeOK

\* No step breaks a type.
LEMMA StepTyped == TypeOK /\ [CtrlNext]_ctrlVars => TypeOK'
<1>1. CASE UNCHANGED ctrlVars
  BY <1>1 DEF TypeOK, ctrlVars, controllerVars, helperVars
<1>2. CASE CtrlNext
  BY <1>2, ControllerTyped, MachineTyped DEF CtrlNext
<1>3. QED BY <1>1, <1>2

\* Every variable keeps its type, for any set of controllers: the places a controller,
\* the helper and the backend can be in, and the exit codes a reader may meet.
THEOREM Typing == CtrlSpec => []TypeOK
BY InitTyped, StepTyped, PTL DEF CtrlSpec

-----------------------------------------------------------------------------
\* One controller at a time is past the lock.
LockInv == \A c \in Controllers : Live(c) => locker = c

\* A workspace that does not exist was never touched; afterwards the lock file stays.
NewInv ==
  /\ files = {} => asked = 0 /\ \A c \in Controllers : ctl[c] = "idle"
  /\ files # {} => "lock" \in files

\* What each place in a controller says of the elevation.
StageInv ==
  \A c \in Controllers :
    /\ ctl[c] = "compiling" =>
         asked = 0 /\ \A d \in Controllers : printed[d] \notin {"removed", "discarded"}
    /\ ctl[c] \in {"checking", "checked"} => mode[c] # "prepare"
    /\ ctl[c] = "checked" => asked = 0 /\ Fresh(files)
    /\ ctl[c] = "marked" => mode[c] = "run" /\ asked = 0 /\ "attempted" \in files
    /\ ctl[c] \in {"elevating", "waiting", "cancelling", "reading"} =>
         mode[c] = "run" /\ asked = 1 /\ parent = c
    /\ ctl[c] = "reading" => finished[c]
    /\ ctl[c] = "deleting" =>
         IF mode[c] = "discard" THEN asked = 0
         ELSE mode[c] = "run" /\ asked = 1 /\ finished[c] /\ receipt = "Completed"
    /\ printed[c] # "nothing" => ctl[c] = "exited"

\* The mark of the attempt outlives the prepared files.
AttemptInv ==
  /\ asked <= 1
  /\ asked = 0 => /\ helper = "none" /\ parent = Nobody
                  /\ files \subseteq PreparedNames \cup {"lock", "attempted", "cancel"}
  /\ asked = 1 => "attempted" \in files \/ files \cap PreparedNames = {}

\* A completed receipt is written last, by a helper whose backend has exited.
HelperInv ==
  /\ helper = "none" => receipt = "none"
  /\ helper = "completing" => backend = "exited"
  /\ receipt # "none" => helper \in {"reported", "exited"}
  /\ receipt = "Completed" => backend = "exited"

RemovedInv ==
  \A c \in Controllers :
    /\ printed[c] = "removed" => files = {"lock"} /\ finished[c]
    /\ printed[c] = "discarded" => files = {"lock"} /\ asked = 0

\* The inductive invariant.
IInv ==
  TypeOK /\ LockInv /\ NewInv /\ StageInv /\ AttemptInv /\ HelperInv
    /\ RemovedInv /\ ConfirmedIsReal

\* Every step of a controller keeps the invariant.
LEMMA ControllerKeeps ==
  ASSUME IInv, TypeOK', NEW c \in Controllers, Controller(c)
  PROVE  IInv'
<1>1. CASE PrepareStarts(c)
  <2>1. LockInv'
    BY <1>1, ControllersAssumption DEF IInv, PrepareStarts, Goto, helperVars, TypeOK, LockInv,
       Live, StageInv, Fresh, AttemptInv, PreparedNames, NewInv, FileNames
  <2>2. NewInv'
    BY <1>1 DEF IInv, PrepareStarts, Goto, helperVars, NewInv
  <2>3. StageInv'
    BY <1>1, ControllersAssumption DEF IInv, PrepareStarts, Goto, helperVars, TypeOK, StageInv,
       Fresh, AttemptInv, PreparedNames, LockInv, Live, NewInv, FileNames
  <2>4. AttemptInv'
    BY <1>1 DEF IInv, PrepareStarts, Goto, helperVars, AttemptInv, PreparedNames
  <2>5. HelperInv'
    BY <1>1 DEF IInv, PrepareStarts, Goto, helperVars, HelperInv
  <2>6. RemovedInv'
    BY <1>1 DEF IInv, PrepareStarts, Goto, helperVars, RemovedInv
  <2>7. ConfirmedIsReal'
    BY <1>1 DEF IInv, PrepareStarts, Goto, helperVars, ConfirmedIsReal
  <2>8. QED BY <2>1, <2>2, <2>3, <2>4, <2>5, <2>6, <2>7 DEF IInv
<1>2. CASE PrepareStep(c)
  <2>1. LockInv'
    BY <1>2, ControllersAssumption DEF IInv, PrepareStep, Exit, Attempted, Goto, helperVars, PreparedNames,
       TypeOK, LockInv, Live
  <2>2. NewInv'
    BY <1>2 DEF IInv, PrepareStep, Exit, Attempted, Goto, helperVars, PreparedNames, NewInv
  <2>3. StageInv'
    BY <1>2, ControllersAssumption DEF IInv, PrepareStep, Exit, Attempted, Goto, helperVars, PreparedNames,
       TypeOK, StageInv, Fresh
  <2>4. AttemptInv'
    BY <1>2, ControllersAssumption DEF IInv, PrepareStep, Exit, Attempted, Goto, helperVars, PreparedNames,
       TypeOK, AttemptInv, StageInv, Fresh
  <2>5. HelperInv'
    BY <1>2 DEF IInv, PrepareStep, Exit, Attempted, Goto, helperVars, PreparedNames, HelperInv
  <2>6. RemovedInv'
    BY <1>2, ControllersAssumption DEF IInv, PrepareStep, Exit, Attempted, Goto, helperVars, PreparedNames,
       TypeOK, RemovedInv, StageInv, Fresh
  <2>7. ConfirmedIsReal'
    BY <1>2 DEF IInv, PrepareStep, Exit, Attempted, Goto, helperVars, PreparedNames, ConfirmedIsReal
  <2>8. QED BY <2>1, <2>2, <2>3, <2>4, <2>5, <2>6, <2>7 DEF IInv
<1>3. ASSUME NEW m \in Modes, UseStarts(c, m) PROVE IInv'
  <2>1. LockInv'
    BY <1>3, ControllersAssumption DEF IInv, UseStarts, Exit, Attempted, Goto, MayLock, Modes, helperVars,
       TypeOK, LockInv, Live
  <2>2. NewInv'
    BY <1>3 DEF IInv, UseStarts, Exit, Attempted, Goto, MayLock, Modes, helperVars, NewInv
  <2>3. StageInv'
    BY <1>3, ControllersAssumption DEF IInv, UseStarts, Exit, Attempted, Goto, MayLock, Modes, helperVars,
       TypeOK, StageInv, Fresh
  <2>4. AttemptInv'
    BY <1>3 DEF IInv, UseStarts, Exit, Attempted, Goto, MayLock, Modes, helperVars, AttemptInv, PreparedNames
  <2>5. HelperInv'
    BY <1>3 DEF IInv, UseStarts, Exit, Attempted, Goto, MayLock, Modes, helperVars, HelperInv
  <2>6. RemovedInv'
    BY <1>3, ControllersAssumption DEF IInv, UseStarts, Exit, Attempted, Goto, MayLock, Modes, helperVars,
       TypeOK, RemovedInv
  <2>7. ConfirmedIsReal'
    BY <1>3 DEF IInv, UseStarts, Exit, Attempted, Goto, MayLock, Modes, helperVars, ConfirmedIsReal
  <2>8. QED BY <2>1, <2>2, <2>3, <2>4, <2>5, <2>6, <2>7 DEF IInv
<1>4. CASE UseChecked(c)
  <2>1. LockInv'
    BY <1>4 DEF IInv, UseChecked, Goto, Fresh, helperVars, LockInv, Live
  <2>2. NewInv'
    BY <1>4 DEF IInv, UseChecked, Goto, Fresh, helperVars, NewInv
  <2>3. StageInv'
    BY <1>4, ControllersAssumption DEF IInv, UseChecked, Goto, Fresh, helperVars, TypeOK,
       StageInv, AttemptInv, PreparedNames
  <2>4. AttemptInv'
    BY <1>4 DEF IInv, UseChecked, Goto, Fresh, helperVars, AttemptInv, PreparedNames
  <2>5. HelperInv'
    BY <1>4 DEF IInv, UseChecked, Goto, Fresh, helperVars, HelperInv
  <2>6. RemovedInv'
    BY <1>4 DEF IInv, UseChecked, Goto, Fresh, helperVars, RemovedInv
  <2>7. ConfirmedIsReal'
    BY <1>4 DEF IInv, UseChecked, Goto, Fresh, helperVars, ConfirmedIsReal
  <2>8. QED BY <2>1, <2>2, <2>3, <2>4, <2>5, <2>6, <2>7 DEF IInv
<1>5. CASE UseActs(c)
  <2>1. LockInv'
    BY <1>5, ControllersAssumption DEF IInv, UseActs, Goto, helperVars, TypeOK, LockInv, Live
  <2>2. NewInv'
    BY <1>5 DEF IInv, UseActs, Goto, helperVars, NewInv
  <2>3. StageInv'
    <3>1. \A d \in Controllers \ {c} : ~Live(d)
      BY <1>5 DEF IInv, LockInv, UseActs, Live
    <3>2. asked = 0 /\ Fresh(files) /\ printed[c] = "nothing"
      BY <1>5 DEF IInv, StageInv, UseActs
    <3>3. CASE mode[c] = "discard"
      BY <1>5, <3>1, <3>2, <3>3 DEF IInv, TypeOK, StageInv, UseActs, Goto, helperVars, Live
    <3>4. CASE mode[c] # "discard"
      BY <1>5, <3>1, <3>2, <3>4 DEF IInv, TypeOK, StageInv, UseActs, Goto, helperVars, Live
    <3>5. QED BY <3>3, <3>4
  <2>4. AttemptInv'
    BY <1>5, ControllersAssumption DEF IInv, UseActs, Goto, helperVars, TypeOK, AttemptInv, PreparedNames,
       StageInv, Fresh
  <2>5. HelperInv'
    BY <1>5 DEF IInv, UseActs, Goto, helperVars, HelperInv
  <2>6. RemovedInv'
    BY <1>5, ControllersAssumption DEF IInv, UseActs, Goto, helperVars, TypeOK, RemovedInv, StageInv, Fresh,
       AttemptInv, PreparedNames
  <2>7. ConfirmedIsReal'
    BY <1>5, ControllersAssumption DEF IInv, UseActs, Goto, helperVars, TypeOK, ConfirmedIsReal, StageInv,
       Fresh, AttemptInv, PreparedNames
  <2>8. QED BY <2>1, <2>2, <2>3, <2>4, <2>5, <2>6, <2>7 DEF IInv
<1>6. CASE Elevated(c)
  <2>1. LockInv'
    BY <1>6 DEF IInv, Elevated, Goto, LockInv, Live
  <2>2. NewInv'
    BY <1>6 DEF IInv, Elevated, Goto, NewInv
  <2>3. StageInv'
    BY <1>6 DEF IInv, Elevated, Goto, StageInv, Fresh
  <2>4. AttemptInv'
    BY <1>6, ControllersAssumption DEF IInv, Elevated, Goto, TypeOK, AttemptInv, PreparedNames,
       StageInv, Fresh
  <2>5. HelperInv'
    BY <1>6 DEF IInv, Elevated, Goto, HelperInv
  <2>6. RemovedInv'
    BY <1>6 DEF IInv, Elevated, Goto, RemovedInv
  <2>7. ConfirmedIsReal'
    BY <1>6 DEF IInv, Elevated, Goto, ConfirmedIsReal
  <2>8. QED BY <2>1, <2>2, <2>3, <2>4, <2>5, <2>6, <2>7 DEF IInv
<1>7. CASE WaitExpires(c)
  <2>1. LockInv'
    BY <1>7 DEF IInv, WaitExpires, Goto, helperVars, LockInv, Live
  <2>2. NewInv'
    BY <1>7 DEF IInv, WaitExpires, Goto, helperVars, NewInv
  <2>3. StageInv'
    BY <1>7 DEF IInv, WaitExpires, Goto, helperVars, StageInv, Fresh
  <2>4. AttemptInv'
    BY <1>7, ControllersAssumption DEF IInv, WaitExpires, Goto, helperVars, TypeOK, AttemptInv,
       PreparedNames, StageInv, Fresh
  <2>5. HelperInv'
    BY <1>7 DEF IInv, WaitExpires, Goto, helperVars, HelperInv
  <2>6. RemovedInv'
    BY <1>7, ControllersAssumption DEF IInv, WaitExpires, Goto, helperVars, TypeOK, RemovedInv,
       StageInv, Fresh, AttemptInv, PreparedNames, ConfirmedIsReal
  <2>7. ConfirmedIsReal'
    BY <1>7 DEF IInv, WaitExpires, Goto, helperVars, ConfirmedIsReal
  <2>8. QED BY <2>1, <2>2, <2>3, <2>4, <2>5, <2>6, <2>7 DEF IInv
<1>8. CASE HelperExitSeen(c)
  <2>1. LockInv'
    BY <1>8 DEF IInv, HelperExitSeen, Goto, ExitObserved, helperVars, LockInv, Live
  <2>2. NewInv'
    BY <1>8 DEF IInv, HelperExitSeen, Goto, ExitObserved, helperVars, NewInv
  <2>3. StageInv'
    BY <1>8, ControllersAssumption DEF IInv, HelperExitSeen, Goto, ExitObserved, helperVars,
       TypeOK, StageInv, Fresh
  <2>4. AttemptInv'
    BY <1>8 DEF IInv, HelperExitSeen, Goto, ExitObserved, helperVars, AttemptInv, PreparedNames
  <2>5. HelperInv'
    BY <1>8 DEF IInv, HelperExitSeen, Goto, ExitObserved, helperVars, HelperInv
  <2>6. RemovedInv'
    BY <1>8 DEF IInv, HelperExitSeen, Goto, ExitObserved, helperVars, RemovedInv
  <2>7. ConfirmedIsReal'
    BY <1>8, ControllersAssumption DEF IInv, HelperExitSeen, Goto, ExitObserved, helperVars,
       TypeOK, ConfirmedIsReal, StageInv, Fresh
  <2>8. QED BY <2>1, <2>2, <2>3, <2>4, <2>5, <2>6, <2>7 DEF IInv
<1>9. CASE ResultRead(c)
  <2>1. LockInv'
    BY <1>9, ControllersAssumption DEF IInv, ResultRead, Exit, Attempted, Goto, MayClean, helperVars,
       TypeOK, LockInv, Live
  <2>2. NewInv'
    BY <1>9 DEF IInv, ResultRead, Exit, Attempted, Goto, MayClean, helperVars, NewInv
  <2>3. StageInv'
    BY <1>9, ControllersAssumption DEF IInv, ResultRead, Exit, Attempted, Goto, MayClean, helperVars,
       TypeOK, StageInv, Fresh
  <2>4. AttemptInv'
    BY <1>9 DEF IInv, ResultRead, Exit, Attempted, Goto, MayClean, helperVars, AttemptInv, PreparedNames
  <2>5. HelperInv'
    BY <1>9 DEF IInv, ResultRead, Exit, Attempted, Goto, MayClean, helperVars, HelperInv
  <2>6. RemovedInv'
    BY <1>9, ControllersAssumption DEF IInv, ResultRead, Exit, Attempted, Goto, MayClean, helperVars,
       TypeOK, RemovedInv
  <2>7. ConfirmedIsReal'
    BY <1>9 DEF IInv, ResultRead, Exit, Attempted, Goto, MayClean, helperVars, ConfirmedIsReal
  <2>8. QED BY <2>1, <2>2, <2>3, <2>4, <2>5, <2>6, <2>7 DEF IInv
<1>10. CASE DeleteStep(c)
  <2>1. LockInv'
    BY <1>10, ControllersAssumption DEF IInv, DeleteStep, Exit, Attempted, Goto, NextNames, helperVars,
       TypeOK, LockInv, Live
  <2>2. NewInv'
    BY <1>10, ControllersAssumption DEF IInv, DeleteStep, Exit, Attempted, Goto, NextNames, helperVars,
       TypeOK, NewInv, StageInv, Fresh, AttemptInv, PreparedNames
  <2>3. StageInv'
    BY <1>10, ControllersAssumption DEF IInv, DeleteStep, Exit, Attempted, Goto, NextNames, helperVars,
       TypeOK, StageInv, Fresh, LockInv, Live
  <2>4. AttemptInv'
    BY <1>10 DEF IInv, DeleteStep, Exit, Attempted, Goto, NextNames, helperVars, AttemptInv, PreparedNames
  <2>5. HelperInv'
    BY <1>10 DEF IInv, DeleteStep, Exit, Attempted, Goto, NextNames, helperVars, HelperInv
  <2>6. RemovedInv'
    BY <1>10, ControllersAssumption DEF IInv, DeleteStep, Exit, Attempted, Goto, NextNames, helperVars,
       TypeOK, RemovedInv, StageInv, Fresh
  <2>7. ConfirmedIsReal'
    BY <1>10 DEF IInv, DeleteStep, Exit, Attempted, Goto, NextNames, helperVars, ConfirmedIsReal
  <2>8. QED BY <2>1, <2>2, <2>3, <2>4, <2>5, <2>6, <2>7 DEF IInv
<1>11. CASE ControllerFails(c)
  <2>1. LockInv'
    BY <1>11, ControllersAssumption DEF IInv, ControllerFails, Exit, Attempted, Goto, Live, helperVars,
       TypeOK, LockInv
  <2>2. NewInv'
    BY <1>11 DEF IInv, ControllerFails, Exit, Attempted, Goto, Live, helperVars, NewInv
  <2>3. StageInv'
    BY <1>11, ControllersAssumption DEF IInv, ControllerFails, Exit, Attempted, Goto, Live, helperVars,
       TypeOK, StageInv, LockInv, Fresh
  <2>4. AttemptInv'
    BY <1>11, ControllersAssumption DEF IInv, ControllerFails, Exit, Attempted, Goto, Live, helperVars,
       TypeOK, AttemptInv, PreparedNames, StageInv, Fresh
  <2>5. HelperInv'
    BY <1>11 DEF IInv, ControllerFails, Exit, Attempted, Goto, Live, helperVars, HelperInv
  <2>6. RemovedInv'
    BY <1>11, ControllersAssumption DEF IInv, ControllerFails, Exit, Attempted, Goto, Live, helperVars,
       TypeOK, RemovedInv, StageInv, Fresh, AttemptInv, PreparedNames, ConfirmedIsReal
  <2>7. ConfirmedIsReal'
    BY <1>11 DEF IInv, ControllerFails, Exit, Attempted, Goto, Live, helperVars, ConfirmedIsReal
  <2>8. QED BY <2>1, <2>2, <2>3, <2>4, <2>5, <2>6, <2>7 DEF IInv
<1>12. CASE Killed(c)
  <2>1. LockInv'
    BY <1>12, ControllersAssumption DEF IInv, Killed, Goto, Live, helperVars, TypeOK, LockInv
  <2>2. NewInv'
    BY <1>12 DEF IInv, Killed, Goto, Live, helperVars, NewInv
  <2>3. StageInv'
    BY <1>12 DEF IInv, Killed, Goto, Live, helperVars, StageInv, Fresh
  <2>4. AttemptInv'
    BY <1>12 DEF IInv, Killed, Goto, Live, helperVars, AttemptInv, PreparedNames
  <2>5. HelperInv'
    BY <1>12 DEF IInv, Killed, Goto, Live, helperVars, HelperInv
  <2>6. RemovedInv'
    BY <1>12 DEF IInv, Killed, Goto, Live, helperVars, RemovedInv
  <2>7. ConfirmedIsReal'
    BY <1>12 DEF IInv, Killed, Goto, Live, helperVars, ConfirmedIsReal
  <2>8. QED BY <2>1, <2>2, <2>3, <2>4, <2>5, <2>6, <2>7 DEF IInv
<1>13. CASE AskElevation(c)
  <2>1. LockInv'
    BY <1>13 DEF IInv, AskElevation, Goto, LockInv, Live
  <2>2. NewInv'
    BY <1>13, ControllersAssumption DEF IInv, AskElevation, Goto, NewInv, StageInv
  <2>3. StageInv'
    <3>1. \A d \in Controllers \ {c} : ~Live(d)
      BY <1>13 DEF IInv, LockInv, AskElevation, Live
    <3>2. asked = 0 /\ mode[c] = "run" /\ printed[c] = "nothing"
      BY <1>13 DEF IInv, StageInv, AskElevation
    <3>3. QED BY <1>13, <3>1, <3>2 DEF IInv, TypeOK, StageInv, AskElevation, Goto, Live
  <2>4. AttemptInv'
    BY <1>13 DEF IInv, AskElevation, Goto, TypeOK, AttemptInv, StageInv
  <2>5. HelperInv'
    BY <1>13 DEF IInv, AskElevation, Goto, HelperInv
  <2>6. RemovedInv'
    BY <1>13 DEF IInv, AskElevation, Goto, TypeOK, RemovedInv, StageInv
  <2>7. ConfirmedIsReal'
    BY <1>13, ControllersAssumption DEF IInv, AskElevation, Goto, TypeOK, ConfirmedIsReal, StageInv, AttemptInv
  <2>8. QED BY <2>1, <2>2, <2>3, <2>4, <2>5, <2>6, <2>7 DEF IInv
<1>14. QED
  BY <1>1, <1>2, <1>3, <1>4, <1>5, <1>6, <1>7, <1>8, <1>9, <1>10, <1>11, <1>12, <1>13 DEF Controller

\* Every step of the elevation dialog, the helper and the backend keeps it.
LEMMA MachineKeeps ==
  ASSUME IInv, TypeOK', ElevatedLate \/ Helper \/ HelperKilled \/ BackendEnds
  PROVE  IInv'
<1>1. CASE ElevatedLate
  <2>1. LockInv'
    BY <1>1 DEF IInv, ElevatedLate, controllerVars, LockInv, Live
  <2>2. NewInv'
    BY <1>1 DEF IInv, ElevatedLate, controllerVars, NewInv
  <2>3. StageInv'
    BY <1>1 DEF IInv, ElevatedLate, controllerVars, StageInv, Fresh
  <2>4. AttemptInv'
    BY <1>1 DEF IInv, ElevatedLate, controllerVars, AttemptInv, PreparedNames
  <2>5. HelperInv'
    BY <1>1 DEF IInv, ElevatedLate, controllerVars, HelperInv
  <2>6. RemovedInv'
    BY <1>1 DEF IInv, ElevatedLate, controllerVars, RemovedInv
  <2>7. ConfirmedIsReal'
    BY <1>1 DEF IInv, ElevatedLate, controllerVars, ConfirmedIsReal
  <2>8. QED BY <2>1, <2>2, <2>3, <2>4, <2>5, <2>6, <2>7 DEF IInv
<1>2. CASE CheckStop
  <2>1. LockInv'
    BY <1>2 DEF IInv, CheckStop, controllerVars, LockInv, Live
  <2>2. NewInv'
    BY <1>2 DEF IInv, CheckStop, controllerVars, NewInv
  <2>3. StageInv'
    BY <1>2 DEF IInv, CheckStop, controllerVars, StageInv, Fresh
  <2>4. AttemptInv'
    BY <1>2 DEF IInv, CheckStop, controllerVars, AttemptInv, PreparedNames
  <2>5. HelperInv'
    BY <1>2 DEF IInv, CheckStop, controllerVars, HelperInv
  <2>6. RemovedInv'
    BY <1>2 DEF IInv, CheckStop, controllerVars, RemovedInv
  <2>7. ConfirmedIsReal'
    BY <1>2 DEF IInv, CheckStop, controllerVars, ConfirmedIsReal
  <2>8. QED BY <2>1, <2>2, <2>3, <2>4, <2>5, <2>6, <2>7 DEF IInv
<1>3. CASE HelperWorks
  <2>1. LockInv'
    BY <1>3 DEF IInv, HelperWorks, Drained, controllerVars, LockInv, Live
  <2>2. NewInv'
    BY <1>3, ControllersAssumption DEF IInv, HelperWorks, Drained, controllerVars, TypeOK,
       NewInv, StageInv, Fresh, AttemptInv, PreparedNames
  <2>3. StageInv'
    BY <1>3, ControllersAssumption DEF IInv, HelperWorks, Drained, controllerVars, TypeOK,
       StageInv, Fresh, AttemptInv, PreparedNames
  <2>4. AttemptInv'
    BY <1>3 DEF IInv, HelperWorks, Drained, controllerVars, AttemptInv, PreparedNames
  <2>5. HelperInv'
    BY <1>3 DEF IInv, HelperWorks, Drained, controllerVars, HelperInv
  <2>6. RemovedInv'
    BY <1>3, ControllersAssumption DEF IInv, HelperWorks, Drained, controllerVars, TypeOK,
       RemovedInv, StageInv, Fresh, AttemptInv, PreparedNames, ConfirmedIsReal
  <2>7. ConfirmedIsReal'
    BY <1>3 DEF IInv, HelperWorks, Drained, controllerVars, ConfirmedIsReal
  <2>8. QED BY <2>1, <2>2, <2>3, <2>4, <2>5, <2>6, <2>7 DEF IInv
<1>4. CASE HelperFails
  <2>1. LockInv'
    BY <1>4 DEF IInv, HelperFails, HelperExits, JobClosed, BackendLive, controllerVars, LockInv,
       Live
  <2>2. NewInv'
    BY <1>4 DEF IInv, HelperFails, HelperExits, JobClosed, BackendLive, controllerVars, NewInv
  <2>3. StageInv'
    BY <1>4 DEF IInv, HelperFails, HelperExits, JobClosed, BackendLive, controllerVars,
       StageInv, Fresh
  <2>4. AttemptInv'
    BY <1>4 DEF IInv, HelperFails, HelperExits, JobClosed, BackendLive, controllerVars,
       AttemptInv, PreparedNames
  <2>5. HelperInv'
    BY <1>4 DEF IInv, HelperFails, HelperExits, JobClosed, BackendLive, controllerVars, HelperInv
  <2>6. RemovedInv'
    BY <1>4 DEF IInv, HelperFails, HelperExits, JobClosed, BackendLive, controllerVars, RemovedInv
  <2>7. ConfirmedIsReal'
    BY <1>4 DEF IInv, HelperFails, HelperExits, JobClosed, BackendLive, controllerVars,
       ConfirmedIsReal
  <2>8. QED BY <2>1, <2>2, <2>3, <2>4, <2>5, <2>6, <2>7 DEF IInv
<1>5. CASE HelperReports
  <2>1. LockInv'
    BY <1>5 DEF IInv, HelperReports, HelperExits, JobClosed, BackendLive, controllerVars,
       LockInv, Live
  <2>2. NewInv'
    BY <1>5, ControllersAssumption DEF IInv, HelperReports, HelperExits, JobClosed, BackendLive,
       controllerVars, TypeOK, NewInv, StageInv, Fresh, AttemptInv, PreparedNames
  <2>3. StageInv'
    BY <1>5, ControllersAssumption DEF IInv, HelperReports, HelperExits, JobClosed, BackendLive,
       controllerVars, TypeOK, StageInv, Fresh, AttemptInv, PreparedNames, ConfirmedIsReal
  <2>4. AttemptInv'
    BY <1>5 DEF IInv, HelperReports, HelperExits, JobClosed, BackendLive, controllerVars,
       AttemptInv, PreparedNames
  <2>5. HelperInv'
    BY <1>5 DEF IInv, HelperReports, HelperExits, JobClosed, BackendLive, controllerVars,
       HelperInv
  <2>6. RemovedInv'
    BY <1>5, ControllersAssumption DEF IInv, HelperReports, HelperExits, JobClosed, BackendLive,
       controllerVars, TypeOK, RemovedInv, StageInv, Fresh, AttemptInv, PreparedNames,
       ConfirmedIsReal
  <2>7. ConfirmedIsReal'
    BY <1>5 DEF IInv, HelperReports, HelperExits, JobClosed, BackendLive, controllerVars,
       ConfirmedIsReal
  <2>8. QED BY <2>1, <2>2, <2>3, <2>4, <2>5, <2>6, <2>7 DEF IInv
<1>6. CASE HelperKilled
  <2>1. LockInv'
    BY <1>6 DEF IInv, HelperKilled, HelperExits, JobClosed, BackendLive, HelperLive,
       controllerVars, LockInv, Live
  <2>2. NewInv'
    BY <1>6, ControllersAssumption DEF IInv, HelperKilled, HelperExits, JobClosed, BackendLive,
       HelperLive, controllerVars, TypeOK, NewInv, StageInv, Fresh, AttemptInv, PreparedNames
  <2>3. StageInv'
    BY <1>6, ControllersAssumption DEF IInv, HelperKilled, HelperExits, JobClosed, BackendLive,
       HelperLive, controllerVars, TypeOK, StageInv, Fresh, AttemptInv, PreparedNames,
       ConfirmedIsReal
  <2>4. AttemptInv'
    BY <1>6 DEF IInv, HelperKilled, HelperExits, JobClosed, BackendLive, HelperLive,
       controllerVars, AttemptInv, PreparedNames
  <2>5. HelperInv'
    BY <1>6 DEF IInv, HelperKilled, HelperExits, JobClosed, BackendLive, HelperLive,
       controllerVars, HelperInv
  <2>6. RemovedInv'
    BY <1>6, ControllersAssumption DEF IInv, HelperKilled, HelperExits, JobClosed, BackendLive,
       HelperLive, controllerVars, TypeOK, RemovedInv, StageInv, Fresh, AttemptInv,
       PreparedNames, ConfirmedIsReal
  <2>7. ConfirmedIsReal'
    BY <1>6 DEF IInv, HelperKilled, HelperExits, JobClosed, BackendLive, HelperLive,
       controllerVars, ConfirmedIsReal
  <2>8. QED BY <2>1, <2>2, <2>3, <2>4, <2>5, <2>6, <2>7 DEF IInv
<1>7. CASE BackendEnds
  <2>1. LockInv'
    BY <1>7 DEF IInv, BackendEnds, controllerVars, LockInv, Live
  <2>2. NewInv'
    BY <1>7 DEF IInv, BackendEnds, controllerVars, NewInv
  <2>3. StageInv'
    BY <1>7 DEF IInv, BackendEnds, controllerVars, StageInv, Fresh
  <2>4. AttemptInv'
    BY <1>7 DEF IInv, BackendEnds, controllerVars, AttemptInv, PreparedNames
  <2>5. HelperInv'
    BY <1>7 DEF IInv, BackendEnds, controllerVars, HelperInv
  <2>6. RemovedInv'
    BY <1>7 DEF IInv, BackendEnds, controllerVars, RemovedInv
  <2>7. ConfirmedIsReal'
    BY <1>7 DEF IInv, BackendEnds, controllerVars, ConfirmedIsReal
  <2>8. QED BY <2>1, <2>2, <2>3, <2>4, <2>5, <2>6, <2>7 DEF IInv
<1>8. QED
  BY <1>1, <1>2, <1>3, <1>4, <1>5, <1>6, <1>7 DEF Helper

\* Initially nothing exists.
LEMMA InitKeeps == CtrlInit => IInv
<1> SUFFICES ASSUME CtrlInit PROVE IInv
  OBVIOUS
<1>1. TypeOK
  BY InitTyped
<1>2. /\ files = {} /\ asked = 0 /\ parent = Nobody /\ helper = "none" /\ receipt = "none"
      /\ \A c \in Controllers : ctl[c] = "idle" /\ printed[c] = "nothing"
  BY DEF CtrlInit
<1>3. \A c \in Controllers : ~finished[c]
  BY DEF CtrlInit
<1>4. LockInv /\ NewInv /\ StageInv /\ AttemptInv /\ HelperInv /\ RemovedInv
  BY <1>2 DEF LockInv, NewInv, StageInv, AttemptInv, HelperInv, RemovedInv, Live
<1>5. ConfirmedIsReal
  BY <1>3 DEF ConfirmedIsReal
<1>6. QED BY <1>1, <1>4, <1>5 DEF IInv

\* Every step of the workspace, by whichever process, keeps the invariant.
LEMMA StepKeeps == IInv /\ [CtrlNext]_ctrlVars => IInv'
<1>1. CASE UNCHANGED ctrlVars
  BY <1>1 DEF IInv, TypeOK, LockInv, NewInv, StageInv, AttemptInv, HelperInv, RemovedInv,
              ConfirmedIsReal, Live, Fresh, ctrlVars, controllerVars, helperVars
<1>2. ASSUME IInv, CtrlNext PROVE IInv'
  <2>1. TypeOK'
    BY <1>2, StepTyped DEF IInv
  <2>2. QED BY <1>2, <2>1, ControllerKeeps, MachineKeeps DEF CtrlNext
<1>3. QED BY <1>1, <1>2

\* The invariant holds of every reachable state.
THEOREM Invariance == CtrlSpec => []IInv
BY StepKeeps, InitKeeps, PTL DEF CtrlSpec

\* "Single UAC attempt; no automatic retry": whatever controllers are started, fail or
\* are killed, elevation is requested at most once on a workspace.
THEOREM OneElevation == CtrlSpec => []SingleElevation
<1>1. IInv => SingleElevation
  BY DEF IInv, AttemptInv, SingleElevation
<1>2. QED BY <1>1, Invariance, PTL

\* Remove-OwnedDataFiles runs only under the exclusive lock, and never while an elevated
\* process can still use the files.
THEOREM SafeRemoval == CtrlSpec => []RemovalIsSafe
<1>1. IInv => RemovalIsSafe
  BY DEF IInv, LockInv, StageInv, HelperInv, ConfirmedIsReal, RemovalIsSafe, Live
<1>2. QED BY <1>1, Invariance, PTL

\* A controller that reports data_files_removed has left the lock file only, for good.
THEOREM TrueRemoval == CtrlSpec => []RemovedIsTrue
<1>1. IInv => RemovedIsTrue
  BY DEF IInv, RemovedInv, RemovedIsTrue
<1>2. QED BY <1>1, Invariance, PTL

\* helper_exit_confirmed is never true of a helper that may still run.
THEOREM RealConfirmation == CtrlSpec => []ConfirmedIsReal
<1>1. IInv => ConfirmedIsReal
  BY DEF IInv
<1>2. QED BY <1>1, Invariance, PTL

-----------------------------------------------------------------------------
(* The terminal check                                                      *)

HIDE DEF Modes, Texts, CtlStates, NoExit

\* Where the workflow waits for an operation or an answer.
Waits == {"preparing", "prompting", "discarding", "rescuing", "running"}

\* What each await of the workflow says of the calls made so far.
FlowInv ==
  /\ pc \in Waits \cup {"idle", "settled"}
  /\ calls \in [Operations -> {0, 1}]
  /\ build \in BOOLEAN /\ runStarted \in BOOLEAN /\ discardAttempted \in BOOLEAN
  /\ pc = "idle" => calls["prepare"] = 0
  /\ pc \in {"idle", "preparing"} => ~build
  /\ pc \in {"idle", "preparing", "prompting"} => ~runStarted /\ ~discardAttempted
  /\ pc \in {"prompting", "discarding", "rescuing"} => build /\ ~runStarted
  /\ pc \in {"discarding", "rescuing"} => discardAttempted
  /\ pc = "running" => runStarted
  /\ calls["run"] = 1 => runStarted
  /\ calls["discard"] = 1 <=> discardAttempted
  /\ runStarted \/ discardAttempted => build
  /\ ~(runStarted /\ discardAttempted)
  /\ pc # "settled" => exit = Unsettled
  /\ pc = "settled" => exit \in {0, 1, 2, 3}

\* A controller exists only if the workflow has called for it; the elevation is the run's,
\* and the run is the phrase's.
SpawnInv ==
  /\ ctl["run"] # "idle" => runStarted
  /\ ctl["discard"] # "idle" => discardAttempted
  /\ \A c \in Controllers : ctl[c] # "idle" => mode[c] = c
  /\ \A c \in Controllers : ctl[c] = "compiling" => c = "prepare"
  /\ asked > 0 => ctl["run"] # "idle"
  /\ runStarted => typed = Phrase

\* A reported build is there until a controller takes it over; the mark of the attempt is there
\* while the helper or the controller that waits for it may still write.
DataInv ==
  /\ printed["prepare"] = "build" /\ ctl["run"] = "idle" /\ ctl["discard"] = "idle" => "build" \in files
  /\ asked > 0 /\ helper # "exited" => "attempted" \in files
  /\ \A c \in Controllers : ctl[c] \in Attempted => "attempted" \in files
  /\ \A c \in Controllers :
       (ctl[c] = "deleting" /\ mode[c] = "run") \/ printed[c] = "removed" =>
         exitCode = 0 /\ receipt = "Completed" /\ helper = "exited"

\* An outcome other than a failure was reported by the controller that reached it.
OutcomeInv ==
  /\ build => printed["prepare"] = "build"
  /\ exit \in {0, 2} => runStarted /\ printed["run"] = "removed"
  /\ exit = 3 => discardAttempted /\ printed["discard"] = "discarded"
  /\ cliExit # Unsettled => pc = "settled" /\ cliExit \in {1, exit}

\* The inductive invariant of the terminal check with its processes.
CheckInv == IInv /\ FlowInv /\ SpawnInv /\ DataInv /\ OutcomeInv

-----------------------------------------------------------------------------
(* Which steps there are                                                   *)

\* A step of the workflow with the microtasks and the promise behind it.
FlowStep ==
  \/ BeginCheck \/ PrepareSettles \/ DiscardSettles \/ RunSettles \/ PromptSettles

\* A step of the processes.
ProcessStep ==
  \/ \E c \in Controllers : ControllerStep(c)
  \/ ElevatedLate \/ Helper \/ HelperKilled \/ BackendEnds

\* Every step is one of the workflow, of the command's end, of a process, or the start of one.
LEMMA StepKinds ==
  ASSUME [Next]_vars
  PROVE  \/ FlowStep /\ UNCHANGED ctrlVars /\ UNCHANGED cliExit
         \/ (Abort \/ CliExits) /\ UNCHANGED <<flowVars, ctrlVars, typed>>
         \/ ProcessStep /\ UNCHANGED <<flowVars, cliVars>>
         \/ (\E op \in Operations : StartController(op)) /\ UNCHANGED <<flowVars, cliVars>>
         \/ UNCHANGED vars
<1>1. CASE BeginCheck \/ Settles
  BY <1>1 DEF Settles, FlowStep, BeginCheck, PrepareSettles, DiscardSettles, RunSettles, PromptSettles, cliVars
<1>2. CASE Abort \/ CliExits
  BY <1>2 DEF Abort, CliExits
<1>3. CASE Machine
  BY <1>3 DEF Machine, ProcessStep
<1>4. ASSUME NEW op \in Operations, StartController(op)
      PROVE  (\E o \in Operations : StartController(o)) /\ UNCHANGED <<flowVars, cliVars>>
  BY <1>4 DEF StartController
<1> QED BY <1>1, <1>2, <1>3, <1>4 DEF Next

\* Started by a call of the workflow or going on, a controller takes no step of its own that
\* DefenderController does not describe.
LEMMA ProcessesAreModelled == [Next]_vars => [CtrlNext]_ctrlVars
<1>1. ASSUME ProcessStep PROVE CtrlNext
  <2>1. ASSUME NEW c \in Controllers, ControllerStep(c) PROVE Controller(c)
    BY <2>1 DEF ControllerStep, Controller
  <2> QED BY <1>1, <2>1 DEF ProcessStep, CtrlNext
<1>2. ASSUME NEW op \in Operations, StartController(op) PROVE CtrlNext
  <2>1. op \in Controllers /\ op \in Modes
    BY CheckAssumption DEF Operations, Modes
  <2>2. Controller(op)
    BY <1>2, <2>1 DEF StartController, Controller
  <2> QED BY <2>1, <2>2 DEF CtrlNext
<1>3. UNCHANGED vars => UNCHANGED ctrlVars
  BY DEF vars
<1> QED BY <1>1, <1>2, <1>3, StepKinds

-----------------------------------------------------------------------------
(* The workflow                                                            *)

\* Whether a result is accepted is decided by its text.
LEMMA Decides ==
  ASSUME NEW op, NEW text
  PROVE  Accepts(op, text) \in BOOLEAN
BY Zenon DEF Accepts

\* Each step of the workflow keeps what its awaits say of the calls.
LEMMA FlowKeeps ==
  ASSUME FlowInv, [Next]_vars
  PROVE  FlowInv'
<1> USE DEF FlowInv, Waits, Operations, Call, Settle, Catch, MayRescue, Unsettled
<1> DEFINE told == said
<1> HIDE DEF told
<1>1. CASE BeginCheck
  <2>1. Begin(told)
    BY <1>1 DEF BeginCheck, told
  <2>2. CASE told
    BY <2>1, <2>2 DEF Begin
  <2>3. CASE ~told
    BY <2>1, <2>3 DEF Begin
  <2> QED BY <2>2, <2>3
<1>2. CASE PrepareSettles
  <2>1. PICK ok \in BOOLEAN : Prepared(ok, told)
    <3>1. PICK ok \in {Accepts("prepare", "build"), FALSE} : Prepared(ok, told)
      BY <1>2 DEF PrepareSettles, told
    <3>2. Accepts("prepare", "build") \in BOOLEAN
      BY Decides
    <3>3. ok \in BOOLEAN
      BY <3>1, <3>2
    <3> QED BY <3>1, <3>3
  <2>2. CASE ok /\ told
    BY <2>1, <2>2 DEF Prepared
  <2>3. CASE ok /\ ~told
    BY <2>1, <2>3 DEF Prepared
  <2>4. CASE ~ok
    BY <2>1, <2>4 DEF Prepared
  <2> QED BY <2>2, <2>3, <2>4
<1>3. CASE DiscardSettles
  <2>1. PICK ok \in BOOLEAN : Discarded(ok, told)
    <3>1. PICK ok \in {Accepts("discard", "discarded"), FALSE} : Discarded(ok, told)
      BY <1>3 DEF DiscardSettles, told
    <3>2. Accepts("discard", "discarded") \in BOOLEAN
      BY Decides
    <3>3. ok \in BOOLEAN
      BY <3>1, <3>2
    <3> QED BY <3>1, <3>3
  <2> QED BY <2>1 DEF Discarded
<1>4. CASE RunSettles
  <2>1. PICK o \in RunOutcomes : RunEnded(o, told)
    BY <1>4 DEF RunSettles, RunOutcomes, told
  <2> QED BY <2>1 DEF RunEnded, RunExit
<1>5. CASE PromptSettles
  <2>1. PICK a \in Answers \cup {NoAnswer} : Decline(a) \/ Accept(a, told)
    BY <1>5 DEF PromptSettles, told
  <2>2. CASE Decline(a)
    BY <2>2 DEF Decline
  <2>3. CASE Accept(a, told)
    BY <2>3 DEF Accept
  <2> QED BY <2>1, <2>2, <2>3
<1>6. CASE UNCHANGED flowVars
  BY <1>6 DEF flowVars
<1> QED BY <1>1, <1>2, <1>3, <1>4, <1>5, <1>6, StepKinds DEF FlowStep, vars

\* What a step of the workflow adds to its history, and on whose word.
\* What the processes can see of a step of the workflow: an outcome appears only together
\* with the accepted result that justifies it.
FlowView ==
  /\ runStarted => runStarted'
  /\ discardAttempted => discardAttempted'
  /\ build' => build \/ Accepts("prepare", "build")
  /\ runStarted' => typed' = Phrase
  /\ exit' \in {0, 2} => exit' = exit \/ (runStarted' /\ Accepts("run", "removed"))
  /\ exit' = 3 => exit' = exit \/ (discardAttempted' /\ Accepts("discard", "discarded"))
  /\ pc = "settled" => pc' = "settled" /\ exit' = exit

\* Every step of the workflow is seen that way.
LEMMA FlowViews ==
  ASSUME FlowInv, SpawnInv, FlowStep
  PROVE  FlowView
<1>1. runStarted => typed = Phrase
  BY DEF SpawnInv
<1> USE DEF FlowView, FlowInv, Settle, Catch, MayRescue, Unsettled
<1> DEFINE told == said
<1> HIDE DEF told
<1>2. CASE BeginCheck
  <2>1. Begin(told) /\ typed' = typed
    BY <1>2 DEF BeginCheck, told, cliVars
  <2>2. exit' \in {exit, 1} /\ UNCHANGED <<runStarted, build>> /\ pc = "idle" /\ ~discardAttempted
    BY <2>1 DEF Begin
  <2> QED BY <1>1, <2>1, <2>2
<1>3. CASE PrepareSettles
  <2>1. PICK ok \in {Accepts("prepare", "build"), FALSE} : Prepared(ok, told) /\ typed' = typed
    BY <1>3 DEF PrepareSettles, told, cliVars
  <2>2. build' = ok /\ exit' \in {exit, 1} /\ UNCHANGED runStarted /\ pc = "preparing" /\ ~discardAttempted
    BY <2>1 DEF Prepared
  <2>3. build' => Accepts("prepare", "build")
    <3>1. ok => Accepts("prepare", "build")
      BY <2>1, Zenon
    <3> QED BY <2>2, <3>1
  <2> QED BY <1>1, <2>1, <2>2, <2>3
<1>4. CASE DiscardSettles
  <2>1. PICK ok \in {Accepts("discard", "discarded"), FALSE} : Discarded(ok, told) /\ typed' = typed
    BY <1>4 DEF DiscardSettles, told, cliVars
  <2>2. ok => Accepts("discard", "discarded")
    BY <2>1, Zenon
  <2>3. /\ exit' \in {exit, 1} \/ (exit' = 3 /\ ok)
        /\ UNCHANGED <<runStarted, build>> /\ pc \in {"discarding", "rescuing"} /\ discardAttempted'
    BY <2>1 DEF Discarded
  <2> QED BY <1>1, <2>1, <2>2, <2>3
<1>5. CASE RunSettles
  <2>1. /\ typed' = typed
        /\ \/ Accepts("run", "removed") /\ \E o \in {"Useful", "NotTested"} : RunEnded(o, told)
           \/ RunEnded("Kept", told)
           \/ RunEnded("Rejected", told)
    BY <1>5 DEF RunSettles, told, cliVars
  <2>2. ASSUME NEW o \in RunOutcomes, RunEnded(o, told)
        PROVE  /\ UNCHANGED <<runStarted, build>> /\ pc = "running" /\ runStarted /\ ~discardAttempted
               /\ exit' \in {exit, 1} \/ (exit' = RunExit(o) /\ o # "Rejected")
    BY <2>2 DEF RunEnded
  <2>3. CASE Accepts("run", "removed") /\ \E o \in {"Useful", "NotTested"} : RunEnded(o, told)
    <3>1. PICK o \in {"Useful", "NotTested"} : RunEnded(o, told)
      BY <2>3
    <3>2. o \in RunOutcomes /\ RunExit(o) \in {0, 2}
      BY DEF RunOutcomes, RunExit
    <3> QED BY <1>1, <2>1, <2>2, <2>3, <3>1, <3>2
  <2>4. ASSUME NEW o \in {"Kept", "Rejected"}, RunEnded(o, told) PROVE FlowView
    <3>1. o \in RunOutcomes /\ RunExit(o) = 1
      BY DEF RunOutcomes, RunExit
    <3> QED BY <1>1, <2>1, <2>2, <2>4, <3>1
  <2> QED BY <2>1, <2>3, <2>4
<1>6. CASE PromptSettles
  <2>1. PICK a \in Answers \cup {NoAnswer} : typed' = a /\ (Decline(a) \/ Accept(a, told))
    BY <1>6 DEF PromptSettles, told
  <2>2. CASE Decline(a)
    BY <2>2 DEF Decline
  <2>3. CASE Accept(a, told)
    <3>1. typed' = Phrase /\ pc = "prompting" /\ exit' \in {exit, 1} /\ UNCHANGED build /\ runStarted' /\ ~discardAttempted
      BY <2>1, <2>3 DEF Accept, Confirms
    <3> QED BY <3>1
  <2> QED BY <2>1, <2>2, <2>3
<1> QED BY <1>2, <1>3, <1>4, <1>5, <1>6 DEF FlowStep

\* A step of the workflow keeps the links between the calls, the data and the outcome.
LEMMA FlowStepKeeps ==
  ASSUME CheckInv, FlowInv', FlowStep, UNCHANGED ctrlVars, UNCHANGED cliExit
  PROVE  SpawnInv' /\ DataInv' /\ OutcomeInv'
<1>1. FlowView
  BY FlowViews DEF CheckInv
<1>2. /\ UNCHANGED <<files, ctl, mode, printed, asked, parent, helper, exitCode, receipt>>
      /\ UNCHANGED cliExit
  BY DEF ctrlVars, controllerVars, helperVars
<1>3. SpawnInv'
  BY <1>1, <1>2 DEF CheckInv, SpawnInv, FlowView
<1>4. DataInv'
  BY <1>2 DEF CheckInv, DataInv
<1>5. OutcomeInv'
  BY <1>1, <1>2 DEF CheckInv, OutcomeInv, FlowView, Accepts
<1> QED BY <1>3, <1>4, <1>5

\* The end of the command changes none of them.
LEMMA EndKeeps ==
  ASSUME CheckInv, UNCHANGED vars \/ ((Abort \/ CliExits) /\ UNCHANGED <<flowVars, ctrlVars, typed>>)
  PROVE  SpawnInv' /\ DataInv' /\ OutcomeInv'
<1>1. UNCHANGED <<pc, build, runStarted, discardAttempted, exit, typed,
                  files, ctl, mode, printed, asked, parent, helper, exitCode, receipt>>
  BY DEF vars, cliVars, flowVars, ctrlVars, controllerVars, helperVars
<1>2. UNCHANGED cliExit \/ (pc = "settled" /\ cliExit' \in {1, exit})
  BY DEF vars, cliVars, Abort, CliExits
<1>3. SpawnInv' /\ DataInv'
  BY <1>1 DEF CheckInv, SpawnInv, DataInv
<1>4. OutcomeInv'
  BY <1>1, <1>2 DEF CheckInv, OutcomeInv
<1> QED BY <1>3, <1>4

-----------------------------------------------------------------------------
(* The processes                                                           *)

\* What a step of the controller c may touch: itself, names it adds or, deleting, removes,
\* and the count of elevations, from the one place where it asks.
Deletes(c) == ctl[c] = "deleting" /\ (\E f \in files : files' = files \ {f}) /\ UNCHANGED <<ctl, printed, asked>>
\* The controller c asks for elevation, having left the mark of the attempt.
Asks(c) ==
  ctl[c] = "marked" /\ ctl'[c] = "elevating" /\ asked' = asked + 1 /\ UNCHANGED <<files, printed>>
\* The controller c adds files at most.
Adds(c) ==
  files \subseteq files' /\ (files' = files \/ ctl[c] \in {"compiling", "checked"} \cup Attempted)
\* What a step of the controller c leaves alone.
Frame(c) ==
  /\ ctl[c] \notin {"idle", "exited"} /\ ctl'[c] # "idle" /\ UNCHANGED <<mode, exitCode, receipt>>
  /\ \A d \in Controllers \ {c} : ctl'[d] = ctl[d] /\ printed'[d] = printed[d]
  /\ ctl'[c] = "compiling" => ctl[c] = "compiling"
  /\ Deletes(c) \/ Asks(c) \/ (Adds(c) /\ asked' = asked)
  /\ helper' = helper \/ (helper = "none" /\ helper' = "boot")

\* A controller that exits only reports.
LEMMA ExitFrame ==
  ASSUME TypeOK, NEW c \in Controllers, NEW text \in Texts, Exit(c, text)
  PROVE  /\ ctl' = [ctl EXCEPT ![c] = "exited"] /\ printed' = [printed EXCEPT ![c] = text]
         /\ Adds(c)
         /\ ctl'[c] = "exited" /\ printed'[c] = text
         /\ \A d \in Controllers \ {c} : ctl'[d] = ctl[d] /\ printed'[d] = printed[d]
BY DEF Exit, Attempted, Goto, TypeOK, Adds

\* Every step of a controller stays within its frame.
LEMMA ControllerFrame ==
  ASSUME TypeOK, NEW c \in Controllers, ControllerStep(c)
  PROVE  Frame(c)
<1> USE DEF Frame, TypeOK, Goto, helperVars
<1>1. CASE PrepareStep(c)
  <2>1. "build" \in Texts
    BY DEF Texts
  <2> QED BY <1>1, <2>1, ExitFrame DEF PrepareStep, Adds
<1>2. CASE UseChecked(c)
  BY <1>2 DEF UseChecked, Adds
<1>3. CASE UseActs(c) \/ AskElevation(c)
  BY <1>3 DEF UseActs, AskElevation, Asks, Adds
<1>4. CASE Elevated(c)
  BY <1>4 DEF Elevated, Adds
<1>5. CASE WaitExpires(c) \/ HelperExitSeen(c)
  BY <1>5 DEF WaitExpires, HelperExitSeen, Adds, Attempted
<1>6. CASE ResultRead(c)
  <2>1. "error" \in Texts /\ "kept" \in Texts
    BY DEF Texts
  <2> QED BY <1>6, <2>1, ExitFrame DEF ResultRead, Adds
<1>7. CASE DeleteStep(c)
  <2>1. "removed" \in Texts /\ "discarded" \in Texts
    BY DEF Texts
  <2>2. CASE files = {"lock"}
    BY <1>7, <2>1, <2>2, ExitFrame DEF DeleteStep
  <2>3. CASE files # {"lock"}
    BY <1>7, <2>3 DEF DeleteStep, Deletes, NextNames
  <2> QED BY <2>2, <2>3
<1>8. CASE ControllerFails(c)
  <2>1. "error" \in Texts /\ "kept" \in Texts
    BY DEF Texts
  <2> QED BY <1>8, <2>1, ExitFrame DEF ControllerFails, Live
<1>9. CASE Killed(c)
  BY <1>9 DEF Killed, Live, Adds
<1> QED BY <1>1, <1>2, <1>3, <1>4, <1>5, <1>6, <1>7, <1>8, <1>9 DEF ControllerStep

\* The dialog, the helper and the backend add names only while the helper is alive.
LEMMA MachineFrame ==
  ASSUME TypeOK, ElevatedLate \/ Helper \/ HelperKilled \/ BackendEnds
  PROVE  /\ UNCHANGED <<ctl, mode, printed, asked>> /\ files \subseteq files'
         /\ helper = "exited" => UNCHANGED <<helper, exitCode, receipt>>
         /\ files' = files \/ HelperLive
         /\ helper' = "none" => helper = "none"
<1> USE DEF controllerVars, TypeOK, HelperExits, JobClosed, HelperLive
<1>1. CASE ElevatedLate
  BY <1>1 DEF ElevatedLate
<1>2. CASE Helper
  BY <1>2 DEF Helper, CheckStop, HelperWorks, HelperFails, HelperReports
<1>3. CASE HelperKilled
  BY <1>3 DEF HelperKilled
<1>4. CASE BackendEnds
  BY <1>4 DEF BackendEnds
<1> QED BY <1>1, <1>2, <1>3, <1>4

\* A controller starts only when its call is awaited, under the name of the call.
LEMMA StartFrame ==
  ASSUME TypeOK, FlowInv, NEW op \in Operations, StartController(op)
  PROVE  /\ op \in Controllers /\ ctl[op] = "idle" /\ ctl'[op] \in {"compiling", "checking", "exited"}
         /\ ctl'[op] = "compiling" => op = "prepare"
         /\ mode' = [mode EXCEPT ![op] = op] /\ mode'[op] = op
         /\ \A d \in Controllers \ {op} : ctl'[d] = ctl[d] /\ printed'[d] = printed[d] /\ mode'[d] = mode[d]
         /\ printed'[op] \in {printed[op], "error"}
         /\ op = "run" => runStarted
         /\ op = "discard" => discardAttempted
         /\ op = "prepare" => files = {}
         /\ files \ {"lock"} = files' \ {"lock"} /\ files \subseteq files'
         /\ UNCHANGED <<asked, parent, helper, exitCode, receipt>>
<1>1. op \in Controllers /\ op \in {"prepare", "run", "discard"}
  BY CheckAssumption DEF Operations
<1>2. (op = "run" => runStarted) /\ (op = "discard" => discardAttempted)
  BY DEF StartController, MayStart, FlowInv
<1>3. CASE op = "prepare"
  BY <1>1, <1>2, <1>3 DEF StartController, PrepareStarts, Goto, TypeOK, helperVars
<1>4. CASE op # "prepare"
  <2>1. UseStarts(op, op)
    BY <1>4 DEF StartController
  <2>2. CASE MayLock
    BY <1>1, <1>2, <1>4, <2>1, <2>2 DEF UseStarts, Goto, TypeOK, helperVars
  <2>3. CASE ~MayLock
    <3>1. Exit(op, "error") /\ ctl[op] = "idle" /\ "error" \in Texts
      BY <2>1, <2>3 DEF UseStarts, Texts
    <3>2. files' = files
      BY <3>1 DEF Exit, Attempted
    <3>3. /\ ctl' = [ctl EXCEPT ![op] = "exited"] /\ printed' = [printed EXCEPT ![op] = "error"]
          /\ ctl'[op] = "exited" /\ printed'[op] = "error"
          /\ \A d \in Controllers \ {op} : ctl'[d] = ctl[d] /\ printed'[d] = printed[d]
      BY <1>1, <3>1, ExitFrame
    <3> QED BY <1>1, <1>2, <1>4, <2>1, <2>3, <3>1, <3>2, <3>3 DEF UseStarts, TypeOK, helperVars
  <2> QED BY <2>2, <2>3
<1> QED BY <1>3, <1>4

\* The facts of the workspace each of the following steps starts from.
LEMMA Workspace ==
  ASSUME CheckInv
  PROVE  /\ TypeOK /\ asked \in {0, 1}
         /\ "prepare" \in Controllers /\ "run" \in Controllers /\ "discard" \in Controllers
         /\ \A c \in Controllers : c \in {"prepare", "run", "discard"}
         /\ \A c, d \in Controllers : Live(c) /\ Live(d) => c = d
         /\ \A c \in Controllers : printed[c] # "nothing" => ctl[c] = "exited"
         /\ \A c \in Controllers : ctl[c] = "checked" => mode[c] # "prepare" /\ asked = 0 /\ Fresh(files)
         /\ \A c \in Controllers : ctl[c] = "marked" => mode[c] = "run" /\ asked = 0 /\ "attempted" \in files
         /\ \A c \in Controllers : ctl[c] = "deleting" =>
              IF mode[c] = "discard" THEN asked = 0
              ELSE mode[c] = "run" /\ asked = 1 /\ exitCode = 0 /\ receipt = "Completed" /\ helper = "exited"
         /\ \A c \in Controllers : ctl[c] = "reading" => helper = "exited"
<1>1. TypeOK /\ LockInv /\ StageInv /\ AttemptInv /\ ConfirmedIsReal /\ DataInv
  BY DEF CheckInv, IInv
<1>2. asked \in {0, 1}
  BY <1>1 DEF TypeOK, AttemptInv
<1>3. Controllers = {"prepare", "run", "discard"}
  BY CheckAssumption DEF Operations
<1>4. \A c, d \in Controllers : Live(c) /\ Live(d) => c = d
  BY <1>1 DEF LockInv
<1>5. \A c \in Controllers : ctl[c] = "reading" => helper = "exited"
  BY <1>1 DEF StageInv, ConfirmedIsReal
<1>6. \A c \in Controllers : ctl[c] = "deleting" =>
        IF mode[c] = "discard" THEN asked = 0
        ELSE mode[c] = "run" /\ asked = 1 /\ exitCode = 0 /\ receipt = "Completed" /\ helper = "exited"
  BY <1>1 DEF StageInv, DataInv
<1> QED BY <1>1, <1>2, <1>3, <1>4, <1>5, <1>6 DEF StageInv

\* A controller never starts another operation.
LEMMA ControllerSpawn ==
  ASSUME CheckInv, NEW c \in Controllers, ControllerStep(c), UNCHANGED <<flowVars, cliVars>>
  PROVE  SpawnInv'
<1>1. Frame(c) /\ SpawnInv
  BY Workspace, ControllerFrame DEF CheckInv
<1>2. UNCHANGED <<runStarted, discardAttempted, typed>> /\ c \in {"prepare", "run", "discard"}
  BY Workspace DEF flowVars, cliVars
<1>3. \A d \in Controllers : ctl'[d] # "idle" <=> ctl[d] # "idle"
  BY <1>1 DEF Frame
<1>4. asked' > 0 => ctl'["run"] # "idle"
  <2>1. CASE asked' = asked
    BY <1>1, <1>3, <2>1, Workspace DEF SpawnInv
  <2>2. CASE Asks(c)
    <3>1. c = "run"
      BY <1>1, <1>2, <2>2, Workspace DEF Asks, SpawnInv, Frame
    <3> QED BY <2>2, <3>1 DEF Asks
  <2> QED BY <1>1, <2>1, <2>2 DEF Frame, Deletes
<1> QED BY <1>1, <1>2, <1>3, <1>4, Workspace DEF SpawnInv, Frame

\* Data are only deleted by the controller that owns them, after a completed check.
LEMMA ControllerData ==
  ASSUME CheckInv, NEW c \in Controllers, ControllerStep(c)
  PROVE  DataInv'
<1>1. /\ Frame(c) /\ SpawnInv /\ DataInv /\ c \in {"prepare", "run", "discard"}
      /\ asked \in {0, 1} /\ TypeOK /\ (helper = "exited" => helper' = "exited")
      /\ UNCHANGED <<exitCode, receipt, mode>>
  BY Workspace, ControllerFrame DEF CheckInv, Frame
<1>2. printed'["prepare"] = "build" /\ ctl'["run"] = "idle" /\ ctl'["discard"] = "idle" => "build" \in files'
  <2> SUFFICES ASSUME printed'["prepare"] = "build", ctl'["run"] = "idle", ctl'["discard"] = "idle"
               PROVE  "build" \in files'
    OBVIOUS
  <2>1. c = "prepare" /\ ctl["run"] = "idle" /\ ctl["discard"] = "idle" /\ ctl[c] # "deleting" /\ ctl[c] # "checked"
    BY <1>1, Workspace DEF Frame, SpawnInv
  <2>2. files \subseteq files'
    BY <1>1, <2>1 DEF Frame, Adds, Deletes, Asks
  <2>3. printed[c] = "nothing"
    BY <1>1, Workspace DEF Frame
  <2>4. "build" \in files
    BY <1>1, <2>1, <2>3 DEF ControllerStep, PrepareStep, Exit, UseChecked, UseActs, AskElevation, Elevated, WaitExpires, HelperExitSeen,
       ResultRead, DeleteStep, ControllerFails, Killed, TypeOK, Goto
  <2> QED BY <2>2, <2>4
<1>3. asked' > 0 /\ helper' # "exited" => "attempted" \in files'
  BY <1>1, Workspace DEF Frame, Adds, Deletes, Asks, DataInv
<1>4. \A d \in Controllers : ctl'[d] \in Attempted => "attempted" \in files'
  <2> SUFFICES ASSUME NEW d \in Controllers, ctl'[d] \in Attempted
               PROVE  "attempted" \in files'
    OBVIOUS
  <2>1. CASE d # c
    <3>1. ctl[d] = ctl'[d] /\ Live(d) /\ Live(c)
      BY <1>1, <2>1 DEF Frame, Live, Attempted
    <3> QED BY <2>1, <3>1, Workspace
  <2>2. CASE d = c
    <3>1. ctl[c] \in Attempted \/ UseActs(c)
      BY <1>1, <2>2 DEF ControllerStep, PrepareStep, Exit, UseChecked, AskElevation, Elevated, WaitExpires,
         HelperExitSeen, ResultRead, DeleteStep, ControllerFails, Killed, TypeOK, Goto, Attempted, helperVars
    <3>2. CASE UseActs(c)
      BY <1>1, <2>2, <3>2 DEF UseActs, Goto, TypeOK, Attempted
    <3>3. CASE ctl[c] \in Attempted
      BY <1>1, <3>3 DEF Frame, Adds, Deletes, Asks, DataInv, Attempted
    <3> QED BY <3>1, <3>2, <3>3
  <2> QED BY <2>1, <2>2
<1>5. \A d \in Controllers : (ctl'[d] = "deleting" /\ mode'[d] = "run") \/ printed'[d] = "removed" =>
        exitCode' = 0 /\ receipt' = "Completed" /\ helper' = "exited"
  <2> SUFFICES ASSUME NEW d \in Controllers, (ctl'[d] = "deleting" /\ mode'[d] = "run") \/ printed'[d] = "removed"
               PROVE  exitCode = 0 /\ receipt = "Completed" /\ helper = "exited"
    BY <1>1
  <2>1. CASE (ctl[d] = "deleting" /\ mode[d] = "run") \/ printed[d] = "removed"
    BY <1>1, <2>1 DEF DataInv
  <2>2. CASE ~((ctl[d] = "deleting" /\ mode[d] = "run") \/ printed[d] = "removed")
    <3>1. d = c
      BY <1>1, <2>2 DEF Frame
    <3>2. ResultRead(c) /\ MayClean(exitCode, receipt) /\ ctl[c] = "reading"
      BY <1>1, <2>2, <3>1 DEF ControllerStep, PrepareStep, Exit, UseChecked, UseActs, AskElevation, Elevated, WaitExpires, HelperExitSeen,
         ResultRead, DeleteStep, ControllerFails, Killed, TypeOK, Goto
    <3> QED BY <3>2, Workspace DEF MayClean
  <2> QED BY <2>1, <2>2
<1> QED BY <1>2, <1>3, <1>4, <1>5 DEF DataInv

\* A reported outcome stands whatever other controllers do.
LEMMA ControllerOutcome ==
  ASSUME CheckInv, NEW c \in Controllers, ControllerStep(c), UNCHANGED <<flowVars, cliVars>>
  PROVE  OutcomeInv'
<1>1. \A d \in Controllers : printed[d] # "nothing" => printed'[d] = printed[d]
  BY Workspace, ControllerFrame DEF Frame
<1>2. UNCHANGED <<pc, build, exit, runStarted, discardAttempted, cliExit>>
  BY DEF flowVars, cliVars
<1> QED BY <1>1, <1>2, Workspace DEF CheckInv, OutcomeInv

\* The elevated processes touch no outcome.
LEMMA MachineKeepsCheck ==
  ASSUME CheckInv, ElevatedLate \/ Helper \/ HelperKilled \/ BackendEnds, UNCHANGED <<flowVars, cliVars>>
  PROVE  SpawnInv' /\ DataInv' /\ OutcomeInv'
<1>1. /\ UNCHANGED <<ctl, mode, printed, asked>> /\ files \subseteq files'
      /\ helper = "exited" => UNCHANGED <<helper, exitCode, receipt>>
  BY Workspace, MachineFrame
<1>2. UNCHANGED <<pc, build, exit, runStarted, discardAttempted, typed, cliExit>>
  BY DEF flowVars, cliVars
<1>3. SpawnInv' /\ OutcomeInv'
  BY <1>1, <1>2 DEF CheckInv, SpawnInv, OutcomeInv
<1>4. DataInv'
  BY <1>1 DEF CheckInv, DataInv
<1> QED BY <1>3, <1>4

\* Only a recorded call starts a controller, and only once.
LEMMA StartKeeps ==
  ASSUME CheckInv, NEW op \in Operations, StartController(op), UNCHANGED <<flowVars, cliVars>>
  PROVE  SpawnInv' /\ DataInv' /\ OutcomeInv'
<1>1. /\ op \in Controllers /\ ctl[op] = "idle" /\ ctl'[op] \in {"compiling", "checking", "exited"}
      /\ ctl'[op] = "compiling" => op = "prepare"
      /\ mode'[op] = op
      /\ \A d \in Controllers \ {op} : ctl'[d] = ctl[d] /\ printed'[d] = printed[d] /\ mode'[d] = mode[d]
      /\ printed'[op] \in {printed[op], "error"} /\ printed[op] = "nothing"
      /\ op = "run" => runStarted
      /\ op = "discard" => discardAttempted
      /\ files \subseteq files'
      /\ UNCHANGED <<asked, parent, helper, exitCode, receipt>>
  BY StartFrame, Workspace DEF CheckInv
<1>2. UNCHANGED <<pc, build, exit, runStarted, discardAttempted, typed, cliExit>>
  BY DEF flowVars, cliVars
<1>3. SpawnInv'
  BY <1>1, <1>2, Workspace DEF CheckInv, SpawnInv
<1>4. DataInv'
  BY <1>1, Workspace DEF CheckInv, DataInv, Attempted
<1>5. OutcomeInv'
  BY <1>1, <1>2, Workspace DEF CheckInv, OutcomeInv
<1> QED BY <1>3, <1>4, <1>5

-----------------------------------------------------------------------------
(* The invariant                                                           *)

\* The invariant holds when the command starts.
LEMMA CheckInit == Init => CheckInv
<1> SUFFICES ASSUME Init PROVE CheckInv
  OBVIOUS
<1>1. IInv
  BY InitKeeps DEF Init
<1>2. FlowInv
  <2>1. calls = [op \in Operations |-> 0] /\ pc = "idle" /\ ~build /\ exit = Unsettled /\ ~runStarted /\ ~discardAttempted
    BY DEF Init, FlowInit
  <2>2. calls \in [Operations -> {0, 1}] /\ calls["prepare"] = 0 /\ ~(calls["run"] = 1) /\ ~(calls["discard"] = 1)
    BY <2>1 DEF Operations
  <2>3. build \in BOOLEAN /\ runStarted \in BOOLEAN /\ discardAttempted \in BOOLEAN
    BY DEF Init, FlowInit
  <2> QED BY <2>1, <2>2, <2>3 DEF FlowInv
<1>3. /\ ctl = [c \in Controllers |-> "idle"] /\ printed = [c \in Controllers |-> "nothing"] /\ asked = 0
      /\ ~runStarted /\ ~build /\ exit = Unsettled /\ cliExit = Unsettled /\ pc = "idle"
      /\ "prepare" \in Controllers /\ "run" \in Controllers /\ "discard" \in Controllers
  BY CheckAssumption DEF Init, FlowInit, CtrlInit, Operations
<1>4. SpawnInv /\ DataInv /\ OutcomeInv
  BY <1>3 DEF SpawnInv, DataInv, OutcomeInv, Unsettled, Attempted
<1> QED BY <1>1, <1>2, <1>4 DEF CheckInv

\* Every step of the system keeps it.
LEMMA CheckStep == CheckInv /\ [Next]_vars => CheckInv'
<1> SUFFICES ASSUME CheckInv, [Next]_vars PROVE CheckInv'
  OBVIOUS
<1>1. IInv'
  BY ProcessesAreModelled, StepKeeps DEF CheckInv
<1>2. FlowInv'
  BY FlowKeeps DEF CheckInv
<1>3. SpawnInv' /\ DataInv' /\ OutcomeInv'
  <2>1. CASE FlowStep /\ UNCHANGED ctrlVars /\ UNCHANGED cliExit
    BY <1>2, <2>1, FlowStepKeeps
  <2>2. CASE UNCHANGED vars \/ ((Abort \/ CliExits) /\ UNCHANGED <<flowVars, ctrlVars, typed>>)
    BY <2>2, EndKeeps
  <2>3. CASE ProcessStep /\ UNCHANGED <<flowVars, cliVars>>
    BY <2>3, ControllerSpawn, ControllerData, ControllerOutcome, MachineKeepsCheck DEF ProcessStep
  <2>4. CASE (\E op \in Operations : StartController(op)) /\ UNCHANGED <<flowVars, cliVars>>
    BY <2>4, StartKeeps
  <2> QED BY <2>1, <2>2, <2>3, <2>4, StepKinds
<1> QED BY <1>1, <1>2, <1>3 DEF CheckInv

\* The inductive invariant of the terminal check with all its processes.
THEOREM CheckInvariance == Spec => []CheckInv
BY CheckInit, CheckStep, PTL DEF Spec

\* From the typed phrase to the exit code: nothing elevated exists before the prompt returned
\* exactly the phrase, and exit codes 0, 2 and 3 say the truth of what is left on the machine.
THEOREM CommandTruth == Spec => []CommandIsTrue
<1>1. CheckInv => CommandIsTrue
  <2> SUFFICES ASSUME CheckInv PROVE CommandIsTrue
    OBVIOUS
  <2>1. ElevationNeedsPhrase
    <3>1. asked > 0 \/ helper # "none" => asked > 0
      BY Workspace DEF CheckInv, IInv, AttemptInv
    <3> QED BY <3>1 DEF CheckInv, SpawnInv, ElevationNeedsPhrase
  <2>2. ASSUME cliExit \in {0, 2}
        PROVE  /\ files = {"lock"} /\ helper = "exited" /\ exitCode = 0
               /\ backend = "exited" /\ ctl["run"] = "exited"
    <3>1. printed["run"] = "removed"
      BY <2>2 DEF CheckInv, OutcomeInv, Unsettled
    <3>2. exitCode = 0 /\ receipt = "Completed" /\ helper = "exited" /\ ctl["run"] = "exited"
      BY <3>1, Workspace DEF CheckInv, DataInv
    <3> QED BY <3>1, <3>2, Workspace DEF CheckInv, IInv, RemovedInv, HelperInv
  <2>3. ASSUME cliExit = 3
        PROVE  files = {"lock"} /\ asked = 0 /\ ctl["discard"] = "exited"
    <3>1. printed["discard"] = "discarded"
      BY <2>3 DEF CheckInv, OutcomeInv, Unsettled
    <3> QED BY <3>1, Workspace DEF CheckInv, IInv, RemovedInv
  <2> QED BY <2>1, <2>2, <2>3 DEF CommandIsTrue, ExitMeansClean
<1> QED BY <1>1, CheckInvariance, PTL

-----------------------------------------------------------------------------
(* The one-shot promise                                                    *)

\* What a check leaves on the machine beside its lock.
Data == files \ {"lock"}

\* What a settled outcome says to the user.
LEMMA Verdicts ==
  ASSUME CheckInv
  PROVE  /\ pc # "settled" => Verdict = "open"
         /\ Verdict = "open" <=> exit = Unsettled
         /\ Verdict = "reported" <=> exit \in {0, 2}
         /\ Verdict = "cancelled" <=> exit = 3
         /\ Verdict = "failed" <=> exit = 1
         /\ exit \in {0, 1, 2, 3, Unsettled}
BY DEF CheckInv, FlowInv, Verdict, Unsettled

\* The same after a step.
LEMMA VerdictsNext ==
  ASSUME CheckInv'
  PROVE  /\ Verdict' = "open" <=> exit' = Unsettled
         /\ Verdict' = "reported" <=> exit' \in {0, 2}
         /\ Verdict' = "cancelled" <=> exit' = 3
         /\ Verdict' = "failed" <=> exit' = 1
BY DEF CheckInv, FlowInv, Verdict, Unsettled

\* The prepared data are there until consent or discard is acted on by a controller.
LEMMA BuiltIsPresent ==
  ASSUME CheckInv, printed["prepare"] = "build", ~runStarted, ~discardAttempted
  PROVE  DataState = "present"
BY DEF CheckInv, SpawnInv, DataInv, DataState

\* The state of the data depends on these alone.
LEMMA DataSame ==
  ASSUME UNCHANGED <<files, asked>>, calls'["discard"] = calls["discard"] \/ Data # {}
  PROVE  DataState' = DataState
BY DEF DataState, Data

\* A step of the workflow is a step of the promise, or none.
LEMMA FlowPromise ==
  ASSUME CheckInv, CheckInv', FlowStep, UNCHANGED ctrlVars
  PROVE  [Promise!Next]_(Promise!vars)
<1> DEFINE told == said
<1> HIDE DEF told
<1> USE DEF Settle, Catch, MayRescue, Unsettled, Call
<1>1. UNCHANGED <<files, asked, printed, ctl>> /\ FlowInv /\ OutcomeInv
      /\ calls \in [Operations -> {0, 1}]
  BY DEF ctrlVars, controllerVars, CheckInv, FlowInv
<1> DEFINE Same == UNCHANGED <<runStarted, asked>> /\ DataState' = DataState
<1>2. ASSUME Same, exit' = exit PROVE UNCHANGED Promise!vars
  BY <1>2, Verdicts, VerdictsNext DEF Promise!vars, Verdict
<1>3. ASSUME Same, exit = Unsettled, exit' = 1 PROVE Promise!Next
  BY <1>3, Verdicts, VerdictsNext DEF Promise!Next, Promise!Decide, Promise!Fail
<1> HIDE DEF Same
<1>4. CASE BeginCheck
  <2>1. Begin(told)
    BY <1>4 DEF BeginCheck, told
  <2>2. /\ calls'["discard"] = calls["discard"] /\ UNCHANGED runStarted
        /\ exit = Unsettled /\ exit' \in {exit, 1}
    BY <1>1, <2>1 DEF Begin, FlowInv, Operations
  <2>3. Same
    BY <1>1, <2>2, DataSame DEF Same
  <2> QED BY <1>2, <1>3, <2>2, <2>3
<1>5. CASE PrepareSettles
  <2>1. PICK ok \in {Accepts("prepare", "build"), FALSE} : Prepared(ok, told)
    BY <1>5 DEF PrepareSettles, told
  <2>2. pc = "preparing" /\ build' = ok /\ UNCHANGED runStarted /\ exit = Unsettled /\ exit' \in {exit, 1} /\ ~runStarted /\ ~discardAttempted
    BY <1>1, <2>1 DEF Prepared, FlowInv
  <2>3. Same
    <3>1. CASE build'
      <4>1. printed["prepare"] = "build"
        BY <1>1, <3>1 DEF CheckInv, OutcomeInv
      <4>2. Data # {}
        BY <2>2, <4>1 DEF CheckInv, SpawnInv, DataInv, Data
      <4> QED BY <1>1, <2>2, <4>2, DataSame DEF Same
    <3>2. CASE ~build'
      <4>1. calls' = calls
        BY <2>1, <2>2, <3>2 DEF Prepared
      <4> QED BY <1>1, <2>2, <4>1, DataSame DEF Same
    <3> QED BY <3>1, <3>2
  <2> QED BY <1>2, <1>3, <2>2, <2>3
<1>6. CASE DiscardSettles
  <2>1. PICK ok \in {Accepts("discard", "discarded"), FALSE} : Discarded(ok, told)
    BY <1>6 DEF DiscardSettles, told
  <2>2. /\ calls' = calls /\ UNCHANGED runStarted /\ ~runStarted /\ discardAttempted /\ exit = Unsettled
        /\ exit' \in {1, 3}
    BY <1>1, <2>1 DEF Discarded, FlowInv
  <2>3. Same
    BY <1>1, <2>2, DataSame DEF Same
  <2>4. CASE exit' = 3
    <3>1. printed["discard"] = "discarded"
      BY <1>1, <2>4 DEF CheckInv, OutcomeInv
    <3>2. files = {"lock"} /\ calls["discard"] = 1
      BY <1>1, <2>2, <3>1, Workspace DEF CheckInv, IInv, RemovedInv, FlowInv
    <3>3. DataState = "removed"
      BY <3>2 DEF DataState
    <3> QED BY <2>2, <2>3, <2>4, <3>3, Verdicts, VerdictsNext DEF Same, Promise!Next, Promise!Decide, Promise!Cancel
  <2> QED BY <1>3, <2>2, <2>3, <2>4
<1>7. CASE RunSettles
  <2>1. PICK o \in RunOutcomes : RunEnded(o, told)
    BY <1>7 DEF RunSettles, RunOutcomes, told
  <2>2. /\ calls' = calls /\ UNCHANGED runStarted /\ runStarted /\ exit = Unsettled
        /\ exit' \in {0, 1, 2}
    BY <1>1, <2>1 DEF RunEnded, RunExit, FlowInv
  <2>3. Same
    BY <1>1, <2>2, DataSame DEF Same
  <2>4. CASE exit' \in {0, 2}
    <3>1. printed["run"] = "removed"
      BY <1>1, <2>4 DEF CheckInv, OutcomeInv
    <3>2. files = {"lock"} /\ finished["run"]
      BY <3>1, Workspace DEF CheckInv, IInv, RemovedInv
    <3>3. asked > 0
      BY <3>2, Workspace, ControllersAssumption DEF CheckInv, IInv, AttemptInv, ConfirmedIsReal
    <3>4. DataState = "removed"
      BY <3>2, <3>3 DEF DataState
    <3> QED BY <2>2, <2>3, <2>4, <3>3, <3>4, Verdicts, VerdictsNext DEF Same, Promise!Next, Promise!Decide, Promise!Report
  <2> QED BY <1>3, <2>2, <2>3, <2>4
<1>8. CASE PromptSettles
  <2>1. PICK a \in Answers \cup {NoAnswer} : Decline(a) \/ Accept(a, told)
    BY <1>8 DEF PromptSettles, told
  <2>2. pc = "prompting" /\ exit = Unsettled /\ ~runStarted /\ ~discardAttempted /\ printed["prepare"] = "build"
    BY <1>1, <2>1 DEF Decline, Accept, FlowInv, OutcomeInv
  <2>3. DataState = "present" /\ DataState' = DataState
    <3>1. DataState = "present"
      BY <2>2, BuiltIsPresent
    <3>2. Data # {}
      BY <3>1 DEF DataState, Data
    <3> QED BY <1>1, <3>1, <3>2, DataSame
  <2>4. CASE Decline(a)
    <3>1. UNCHANGED runStarted /\ exit' = exit
      BY <2>4 DEF Decline
    <3> QED BY <1>1, <1>2, <2>3, <3>1 DEF Same
  <2>5. CASE Accept(a, told)
    <3>1. runStarted' = TRUE /\ exit' \in {exit, 1}
      BY <2>5 DEF Accept
    <3>2. Promise!Consent
      BY <1>1, <2>2, <2>3, <3>1, Verdicts, VerdictsNext DEF Promise!Consent, CheckInv, FlowInv
    <3> QED BY <3>2 DEF Promise!Next
  <2> QED BY <2>1, <2>4, <2>5
<1> QED BY <1>4, <1>5, <1>6, <1>7, <1>8 DEF FlowStep

\* A step of a process is not one of the workflow: only the data and the elevation can change.
LEMMA ProcessStutters ==
  ASSUME UNCHANGED <<flowVars, cliVars>>, (asked' > 0) = (asked > 0), DataState' = DataState
  PROVE  UNCHANGED Promise!vars
BY DEF flowVars, Promise!vars, Verdict

\* A controller moves the promise by an elevation or by a deletion, and then after consent.
LEMMA ControllerPromise ==
  ASSUME CheckInv, NEW c \in Controllers, ControllerStep(c), UNCHANGED <<flowVars, cliVars>>
  PROVE  [Promise!Next]_(Promise!vars)
<1>1. /\ Frame(c) /\ c \in {"prepare", "run", "discard"} /\ asked \in {0, 1}
      /\ calls' = calls /\ calls \in [Operations -> {0, 1}] /\ UNCHANGED <<runStarted, exit>> /\ runStarted \in BOOLEAN
      /\ Verdict' = Verdict /\ SpawnInv /\ DataInv /\ OutcomeInv /\ FlowInv
      /\ "lock" # "attempted" /\ "build" # "lock"
  BY Workspace, ControllerFrame DEF flowVars, Verdict, CheckInv, FlowInv
<1>2. CASE Deletes(c)
  <2>1. asked' = asked /\ ctl[c] = "deleting" /\ Data' \subseteq Data
    BY <1>2 DEF Deletes, Data
  <2>2. CASE DataState' = DataState
    BY <2>1, <2>2, ProcessStutters
  <2>3. CASE DataState' # DataState
    <3>1. Data # {} /\ Data' = {}
      BY <1>1, <2>1, <2>3 DEF DataState, Data
    <3>2. /\ IF mode[c] = "discard" THEN asked = 0 ELSE mode[c] = "run" /\ asked = 1
          /\ mode[c] = c
      BY <1>1, <2>1, Workspace DEF SpawnInv
    <3>3. CASE c = "discard"
      <4>1. asked = 0 /\ discardAttempted /\ ~runStarted /\ calls["discard"] = 1
        BY <1>1, <2>1, <3>2, <3>3, Workspace DEF SpawnInv, FlowInv
      <4>2. DataState = "present" /\ DataState' = "removed"
        BY <1>1, <2>1, <3>1, <4>1 DEF DataState, Data
      <4>3. runStarted = (asked > 0) /\ (asked' > 0) = (asked > 0)
        BY <1>1, <2>1, <4>1
      <4> QED BY <1>1, <4>2, <4>3 DEF Promise!Next, Promise!Remove
    <3>4. CASE c # "discard"
      <4>1. asked = 1 /\ runStarted
        BY <1>1, <2>1, <3>2, <3>4, Workspace DEF SpawnInv
      <4>2. DataState = "present" /\ DataState' = "removed"
        BY <1>1, <2>1, <3>1, <4>1 DEF DataState, Data
      <4>3. runStarted = (asked > 0) /\ (asked' > 0) = (asked > 0)
        <5>1. runStarted = TRUE
          BY <1>1, <4>1, Zenon
        <5>2. (asked > 0) = TRUE /\ asked' = asked
          BY <2>1, <4>1
        <5> QED BY <5>1, <5>2
      <4> QED BY <1>1, <4>2, <4>3 DEF Promise!Next, Promise!Remove
    <3> QED BY <3>3, <3>4
  <2> QED BY <2>2, <2>3
<1>3. CASE Asks(c)
  <2>1. ctl[c] = "marked" /\ asked = 0 /\ asked' = 1 /\ c = "run" /\ files' = files /\ "attempted" \in files
    BY <1>1, <1>3, Workspace DEF Asks, SpawnInv
  <2>2. runStarted
    BY <1>1, <2>1, Workspace DEF SpawnInv
  <2>3. Data # {} /\ Data' # {}
    BY <2>1 DEF Data
  <2>4. DataState = "present" /\ DataState' = "present"
    BY <2>3 DEF DataState, Data
  <2>5. exit \notin {0, 2, 3}
    <3>1. files # {"lock"}
      BY <2>3 DEF Data
    <3> QED BY <1>1, <3>1, Workspace DEF OutcomeInv, CheckInv, IInv, RemovedInv
  <2>6. Verdict \in {"open", "failed"}
    BY <2>5, Verdicts
  <2> QED BY <1>1, <2>1, <2>2, <2>4, <2>6 DEF Promise!Next, Promise!Elevate
<1>4. CASE Adds(c) /\ asked' = asked
  <2>1. CASE DataState' = DataState
    BY <1>4, <2>1, ProcessStutters
  <2>2. CASE DataState' # DataState
    <3>1. Data = {} /\ Data' # {} /\ files' # files /\ files \subseteq files'
      BY <1>1, <1>4, <2>2 DEF DataState, Data, Adds
    <3>2. ctl[c] \notin {"checked"} \cup Attempted
      BY <1>1, <3>1, Workspace DEF DataInv, Data, Fresh, PreparedNames
    <3>3. ctl[c] = "compiling" /\ c = "prepare"
      BY <1>1, <1>4, <3>1, <3>2 DEF Adds, SpawnInv
    <3>4. asked = 0 /\ printed["prepare"] # "build"
      BY <3>3, Workspace DEF CheckInv, IInv, StageInv
    <3>5. ~runStarted /\ ~discardAttempted /\ calls["discard"] # 1
      BY <1>1, <3>4 DEF OutcomeInv, FlowInv
    <3>6. calls["discard"] = 0
      BY <1>1, <3>5 DEF Operations
    <3>7. DataState = "none" /\ DataState' = "present"
      BY <3>1, <3>4, <3>6 DEF DataState, Data
    <3> QED BY <1>1, <1>4, <3>5, <3>7 DEF Promise!Next, Promise!Prepare
  <2> QED BY <2>1, <2>2
<1> QED BY <1>1, <1>2, <1>3, <1>4 DEF Frame

\* The elevated processes are invisible to the promise.
LEMMA MachinePromise ==
  ASSUME CheckInv, ElevatedLate \/ Helper \/ HelperKilled \/ BackendEnds, UNCHANGED <<flowVars, cliVars>>
  PROVE  UNCHANGED Promise!vars
<1>1. UNCHANGED asked /\ files \subseteq files' /\ (files' = files \/ HelperLive) /\ calls' = calls
  BY Workspace, MachineFrame DEF flowVars
<1>2. CASE files' = files
  BY <1>1, <1>2, ProcessStutters DEF DataState
<1>3. CASE HelperLive
  <2>1. asked > 0 /\ helper # "exited"
    BY <1>3, Workspace DEF HelperLive, CheckInv, IInv, AttemptInv
  <2>2. "attempted" \in files \ {"lock"}
    BY <2>1 DEF CheckInv, DataInv
  <2>3. DataState = "present" /\ DataState' = "present"
    BY <1>1, <2>2 DEF DataState
  <2> QED BY <1>1, <2>3, ProcessStutters
<1> QED BY <1>1, <1>2, <1>3

\* Every step of the check is a step of the promise or none.
LEMMA PromiseStep == CheckInv /\ CheckInv' /\ [Next]_vars => [Promise!Next]_(Promise!vars)
<1> SUFFICES ASSUME CheckInv, CheckInv', [Next]_vars PROVE [Promise!Next]_(Promise!vars)
  OBVIOUS
<1>1. CASE FlowStep /\ UNCHANGED ctrlVars
  BY <1>1, FlowPromise
<1>2. CASE UNCHANGED <<flowVars, ctrlVars>>
  <2>1. UNCHANGED <<runStarted, exit, calls, files, asked>>
    BY <1>2 DEF flowVars, ctrlVars, controllerVars
  <2> QED BY <2>1 DEF Promise!vars, DataState, Verdict
<1>3. CASE ProcessStep /\ UNCHANGED <<flowVars, cliVars>>
  BY <1>3, ControllerPromise, MachinePromise DEF ProcessStep
<1>4. ASSUME NEW op \in Operations, StartController(op), UNCHANGED <<flowVars, cliVars>>
      PROVE  UNCHANGED Promise!vars
  <2>1. files \ {"lock"} = files' \ {"lock"} /\ asked' = asked /\ calls' = calls
    BY <1>4, StartFrame, Workspace DEF CheckInv, flowVars
  <2>2. DataState' = DataState
    BY <2>1 DEF DataState
  <2> QED BY <1>4, <2>1, <2>2, ProcessStutters
<1>5. UNCHANGED vars => UNCHANGED <<flowVars, ctrlVars>>
  BY DEF vars
<1> QED BY <1>1, <1>2, <1>3, <1>4, <1>5, StepKinds

\* The check with all its processes, whichever of them fail or are killed, is a one-shot check:
\* nothing elevated before consent, one elevation at most, and no cancellation or report of data
\* that are still there.
THEOREM OneShot == Spec => IsOneShot
<1>1. Init => Promise!Init
  BY DEF Init, FlowInit, CtrlInit, Promise!Init, DataState, Verdict, Unsettled, Operations
<1> QED BY <1>1, PromiseStep, CheckInvariance, PTL DEF Spec, IsOneShot, Promise!Spec

-------------------------------------------------------------------------------
(* The capture of one controller                                           *)

Sizes   == [Pipes -> 0..MaxSent]
\* The ways a captured operation ends.
Results == [closed : BOOLEAN, status : Statuses \cup {NoStatus}, flags : SUBSET Flags, size : Sizes]

\* What was received was written.
SizeInv == \A p \in Pipes : size[p] <= sent[p]

\* The child has a status once it has exited; only a requested kill shows as a signal.
ChildInv ==
  /\ child # "exited" => status = NoStatus
  /\ status.signal => killed
  /\ closed => done /\ child \in {"exited", "failed"}

\* Whatever asked for the kill left its mark, a flag or a byte of stderr; and without a
\* mark nothing received was dropped.
MarkInv ==
  /\ grace => killed
  /\ ~done /\ killed => flags # {} \/ size["err"] > 0
  /\ ~done /\ flags = {} => size = sent

\* What the promise settled with, and what stays true of it afterwards.
ResultInv ==
  done =>
    /\ result \in Results
    /\ result.closed => closed /\ (result.status = status)
    /\ result.closed /\ result.flags = {} => result.size = sent
    /\ result.closed /\ result.flags = {} /\ result.size["err"] = 0 => ~killed

\* The inductive invariant of the capture.
CapInv == CapTypeOK /\ SizeInv /\ ChildInv /\ MarkInv /\ ResultInv /\ NothingLeftArmed

-----------------------------------------------------------------------------
\* The marker of a pending promise is no value it can settle with.
LEMMA SettledDiffers == NotSettled \notin Results
<1>1. {"none"} \notin SUBSET Flags  BY DEF Flags
<1> QED BY <1>1 DEF NotSettled, Results

\* finish() keeps a settled promise, and settles a pending one with nothing left armed.
LEMMA FinishEffect ==
  ASSUME NothingLeftArmed, NEW c \in BOOLEAN, NEW s \in Statuses \cup {NoStatus}, NEW fl \in SUBSET Flags,
         NEW sz \in Sizes, Finish(c, s, fl, sz)
  PROVE  /\ done' /\ (timer' = FALSE) /\ (grace' = FALSE) /\ (listening' = FALSE)
         /\ result' = IF done THEN result ELSE [closed |-> c, status |-> s, flags |-> fl, size |-> sz]
<1>1. [closed |-> c, status |-> s, flags |-> fl, size |-> sz] \in Results
  BY DEF Results
<1> QED BY <1>1, SettledDiffers DEF Finish, done, NothingLeftArmed

\* stop() records its arguments; it kills at most once, and what settles then is open.
LEMMA StopEffect ==
  ASSUME CapTypeOK, NothingLeftArmed, MarkInv, NEW fl \in SUBSET Flags, NEW sz \in Sizes, Stop(fl, sz)
  PROVE  /\ flags' = fl /\ size' = sz
         /\ \/ (done \/ grace) /\ UNCHANGED <<killed, grace, timer, listening, result>>
            \/ ~done /\ (killed' = TRUE) /\ (grace' = TRUE) /\ UNCHANGED <<timer, listening, result>>
            \/ /\ ~done /\ (killed' = TRUE) /\ done' /\ (timer' = FALSE) /\ (grace' = FALSE) /\ (listening' = FALSE)
               /\ result' = [closed |-> FALSE, status |-> NoStatus, flags |-> fl, size |-> sz]
<1>1. CASE done \/ grace
  BY <1>1 DEF Stop
<1>2. CASE ~(done \/ grace) /\ grace' = TRUE /\ UNCHANGED <<timer, listening, result>>
  BY <1>2 DEF Stop, KillChild
<1>3. CASE ~(done \/ grace) /\ Finish(FALSE, NoStatus, fl, sz)
  BY <1>3, FinishEffect DEF Stop, KillChild
<1> QED BY <1>1, <1>2, <1>3 DEF Stop, KillChild

\* Asking the child to stop keeps the invariant.
LEMMA StopKeeps ==
  ASSUME CapInv, NEW fl \in SUBSET Flags, NEW sz \in Sizes, Stop(fl, sz),
         fl # {} \/ sz["err"] > 0, \A p \in Pipes : sz[p] <= sent'[p], sent' \in Sizes,
         sz["out"] <= Limit, sz["err"] <= ErrLimit, fl = {} => sz = sent',
         closed => sent' = sent, UNCHANGED <<child, status, closed>>, aborting' \in BOOLEAN
  PROVE  CapInv' /\ (done => result' = result)
<1> DEFINE R == [closed |-> FALSE, status |-> NoStatus, flags |-> fl, size |-> sz]
<1>1. R \in Results /\ R.closed = FALSE
  BY DEF Results
<1> HIDE DEF R
<1>a. /\ flags' = fl /\ size' = sz
      /\ \/ (done \/ grace) /\ UNCHANGED <<killed, grace, timer, listening, result>>
         \/ ~done /\ (killed' = TRUE) /\ (grace' = TRUE) /\ UNCHANGED <<timer, listening, result>>
         \/ /\ ~done /\ (killed' = TRUE) /\ done' /\ (timer' = FALSE) /\ (grace' = FALSE) /\ (listening' = FALSE)
            /\ result' = R
  BY StopEffect DEF CapInv, R
<1>2. CapTypeOK'
  BY <1>a DEF CapTypeOK, CapInv, Sizes
<1>3. SizeInv'
  BY <1>a DEF SizeInv, CapInv
<1>4. ChildInv'
  BY <1>a DEF ChildInv, CapInv, done
<1>5. MarkInv'
  BY <1>a DEF MarkInv, CapInv, done
<1>6. ResultInv' /\ NothingLeftArmed' /\ (done => result' = result)
  BY <1>1, <1>a DEF ResultInv, NothingLeftArmed, CapInv, done
<1> QED BY <1>2, <1>3, <1>4, <1>5, <1>6 DEF CapInv

\* finish() with the state as it is, or as the listener that called it left it.
LEMMA FinishKeeps ==
  ASSUME CapInv, NEW c \in BOOLEAN, NEW s \in Statuses \cup {NoStatus}, NEW fl \in SUBSET Flags,
         Finish(c, s, fl, size'), c => fl = flags,
         UNCHANGED <<status, killed, sent, size>>, flags' \in SUBSET Flags,
         child' \in {"none", "running", "exited", "failed"}, child' # "exited" => child # "exited",
         child = "exited" => child' = "exited", aborting' \in BOOLEAN,
         closed' \in BOOLEAN, closed => closed', closed' => child' \in {"exited", "failed"},
         c => closed' /\ s = status
  PROVE  CapInv' /\ (done => result' = result)
<1> DEFINE R == [closed |-> c, status |-> s, flags |-> fl, size |-> size']
<1>1. size' \in Sizes
  BY DEF CapInv, CapTypeOK, Sizes
<1>2. R \in Results /\ R.closed = c /\ R.status = s /\ R.flags = fl /\ R.size = size'
  BY <1>1 DEF Results
<1>3. done' /\ (timer' = FALSE) /\ (grace' = FALSE) /\ (listening' = FALSE) /\ result' = IF done THEN result ELSE R
  BY <1>1, FinishEffect DEF CapInv, R
<1> HIDE DEF R
<1>4. CapTypeOK' /\ SizeInv' /\ ChildInv' /\ MarkInv' /\ NothingLeftArmed'
  BY <1>3 DEF CapInv, CapTypeOK, SizeInv, ChildInv, MarkInv, NothingLeftArmed
<1>5. ResultInv'
  <2>1. CASE done
    BY <1>3, <2>1 DEF CapInv, ResultInv
  <2>2. CASE ~done
    BY <1>2, <1>3, <2>2 DEF CapInv, ResultInv, MarkInv
  <2> QED BY <2>1, <2>2
<1> QED BY <1>3, <1>4, <1>5 DEF CapInv

-----------------------------------------------------------------------------
\* The invariant holds before the child is spawned.
LEMMA InitInv == CapInit => CapInv
<1> SUFFICES ASSUME CapInit PROVE CapInv
  OBVIOUS
<1>1. ~done
  BY DEF CapInit, done
<1>2. CapTypeOK
  <2>1. sent \in [Pipes -> 0..MaxSent] /\ size \in [Pipes -> 0..MaxSent] /\ size["out"] = 0 /\ size["err"] = 0
    BY CaptureAssumption DEF CapInit, Pipes
  <2>2. 0 <= Limit /\ 0 <= ErrLimit
    BY CaptureAssumption
  <2> QED BY <2>1, <2>2 DEF CapInit, CapTypeOK
<1>3. SizeInv /\ ChildInv
  <2>1. SizeInv
    BY DEF CapInit, SizeInv
  <2>2. NoStatus.signal = FALSE
    BY DEF NoStatus
  <2> QED BY <2>1, <2>2 DEF CapInit, ChildInv
<1>4. MarkInv /\ ResultInv /\ NothingLeftArmed
  BY <1>1 DEF CapInit, MarkInv, ResultInv, NothingLeftArmed
<1> QED BY <1>2, <1>3, <1>4 DEF CapInv

\* Every step keeps the invariant.
LEMMA Step == CapInv /\ [CapNext]_capVars => CapInv' /\ (done => result' = result)
<1> SUFFICES ASSUME CapInv, [CapNext]_capVars PROVE CapInv' /\ (done => result' = result)
  OBVIOUS
<1>1. CASE Spawn
  <2>1. ASSUME NEW fl \in {{"aborted"}, {}}, Finish(FALSE, NoStatus, fl, size), flags' \in {fl, flags}, UNCHANGED <<child, killed, size>>
        PROVE  CapInv' /\ (done => result' = result)
    <3>1. fl \in SUBSET Flags /\ flags' \in SUBSET Flags
      BY <2>1 DEF Flags, CapInv, CapTypeOK
    <3> QED BY <1>1, <2>1, <3>1, FinishKeeps DEF Spawn, CapInv, CapTypeOK, ChildInv
  <2>2. CASE child' \in {"running", "failed"} /\ UNCHANGED <<killed, flags, size, grace, result>> /\ timer' /\ listening'
    BY <1>1, <2>2 DEF Spawn, CapInv, CapTypeOK, SizeInv, ChildInv, MarkInv, ResultInv, NothingLeftArmed, done
  <2> QED BY <1>1, <2>1, <2>2 DEF Spawn
<1>2. CASE StreamError
  <2>1. flags \cup {"ioError"} \in SUBSET Flags /\ flags \cup {"ioError"} # {} /\ size \in Sizes
    BY DEF CapInv, CapTypeOK, Flags, Sizes
  <2> QED BY <1>2, <2>1, StopKeeps DEF StreamError, CapInv, CapTypeOK, SizeInv, Sizes
<1>3. CASE ChildError
  BY <1>3, FinishKeeps DEF ChildError, ClosedOnError, CapInv, CapTypeOK, ChildInv
<1>4. CASE ChildClose
  BY <1>4, FinishKeeps DEF ChildClose, CapInv, CapTypeOK, Listening
<1>5. CASE AbortEvent
  <2>1. flags \cup {"aborted"} \in SUBSET Flags /\ flags \cup {"aborted"} # {} /\ size \in Sizes /\ sent \in Sizes
    BY DEF CapInv, CapTypeOK, Flags, Sizes
  <2>2. CASE listening
    BY <1>5, <2>1, <2>2, StopKeeps DEF AbortEvent, CapInv, CapTypeOK, SizeInv
  <2>3. CASE ~listening
    BY <1>5, <2>3 DEF AbortEvent, CapInv, CapTypeOK, SizeInv, ChildInv, MarkInv, ResultInv, NothingLeftArmed, done
  <2> QED BY <2>2, <2>3
<1>6. CASE Deadline
  <2>1. flags \cup {"timedOut"} \in SUBSET Flags /\ flags \cup {"timedOut"} # {} /\ size \in Sizes
    BY DEF CapInv, CapTypeOK, Flags, Sizes
  <2> QED BY <1>6, <2>1, StopKeeps DEF Deadline, CapInv, CapTypeOK, SizeInv, Sizes
<1>7. CASE GraceEnds
  BY <1>7, FinishKeeps DEF GraceEnds, CapInv, CapTypeOK, ChildInv
<1>8. CASE ChildExits
  BY <1>8 DEF ChildExits, CapInv, CapTypeOK, SizeInv, ChildInv, MarkInv, ResultInv, NothingLeftArmed, Statuses, NoStatus, done
<1>9. CASE Stopped \/ UNCHANGED capVars
  BY <1>9 DEF Stopped, capVars, CapInv, CapTypeOK, SizeInv, ChildInv, MarkInv, ResultInv, NothingLeftArmed, done
<1>10. ASSUME NEW p \in Pipes, NEW n \in 1..MaxSent, Receive(p, n) PROVE CapInv' /\ (done => result' = result)
  <2>1. /\ sent' \in Sizes /\ sent \in Sizes /\ size \in Sizes /\ \A q \in Pipes : sent[q] <= sent'[q]
        /\ sent'[p] = sent[p] + n /\ n \in Nat \ {0} /\ ~closed
    BY <1>10, CaptureAssumption DEF Receive, Listening, CapInv, CapTypeOK, Sizes
  <2>2. CASE done
    BY <1>10, <2>1, <2>2 DEF Receive, CapInv, CapTypeOK, SizeInv, ChildInv, MarkInv, ResultInv, NothingLeftArmed, done
  <2>3. CASE ~done /\ n > LimitOf(p) - size[p]
    <3>1. Stop(flags \cup {"overflow"}, size)
      BY <1>10, <2>3 DEF Receive, OverflowFlags
    <3>2. flags \cup {"overflow"} \in SUBSET Flags /\ flags \cup {"overflow"} # {}
      BY DEF CapInv, CapTypeOK, Flags
    <3>3. \A q \in Pipes : size[q] <= sent'[q]
      BY <2>1 DEF CapInv, SizeInv, Sizes
    <3> QED BY <1>10, <2>1, <3>1, <3>2, <3>3, StopKeeps DEF Receive, CapInv, CapTypeOK
  <2>4. CASE ~done /\ ~(n > LimitOf(p) - size[p])
    <3> DEFINE sz == [size EXCEPT ![p] = @ + n]
    <3>a. sz \in [Pipes -> Nat] /\ sz[p] = size[p] + n /\ \A q \in Pipes : q # p => sz[q] = size[q]
      BY <2>1, CaptureAssumption DEF Sizes
    <3>b. sent' = [sent EXCEPT ![p] = @ + n]
      BY <1>10 DEF Receive
    <3>c. \A q \in Pipes : sz[q] <= sent'[q]
      BY <2>1, <3>a, <3>b, CaptureAssumption DEF CapInv, SizeInv, Sizes
    <3>1. /\ sz \in [Pipes -> Nat] /\ sz[p] = size[p] + n /\ \A q \in Pipes : sz[q] <= sent'[q]
          /\ size = sent => sz = sent'
      BY <3>a, <3>b, <3>c
    <3>2. sz \in Sizes
      BY <2>1, <3>1, CaptureAssumption DEF Sizes
    <3>3. sz["out"] <= Limit /\ sz["err"] <= ErrLimit
      BY <2>1, <2>4, CaptureAssumption DEF CapInv, CapTypeOK, Sizes, LimitOf, Pipes
    <3>4. CASE p = "err"
      <4>1. Stop(flags, sz) /\ sz["err"] > 0
        BY <1>10, <2>1, <2>4, <3>1, <3>4 DEF Receive, Sizes
      <4> HIDE DEF sz
      <4> QED BY <1>10, <2>1, <2>4, <3>1, <3>2, <3>3, <4>1, StopKeeps DEF Receive, CapInv, CapTypeOK, MarkInv
    <3>5. CASE p # "err"
      <4>1. size' = sz /\ UNCHANGED <<flags, killed, timer, grace, listening, result>>
        BY <1>10, <2>4, <3>5 DEF Receive
      <4>2. size'["err"] = size["err"]
        BY <3>5, <4>1, <2>1 DEF Sizes, Pipes
      <4> HIDE DEF sz
      <4> QED BY <1>10, <2>1, <2>4, <3>1, <3>2, <3>3, <4>1, <4>2
          DEF Receive, CapInv, CapTypeOK, SizeInv, ChildInv, MarkInv, ResultInv, NothingLeftArmed, done, Sizes
    <3> QED BY <3>4, <3>5
  <2> QED BY <2>2, <2>3, <2>4
<1> QED BY <1>1, <1>2, <1>3, <1>4, <1>5, <1>6, <1>7, <1>8, <1>9, <1>10 DEF CapNext

-----------------------------------------------------------------------------
\* The inductive invariant holds of every capture.
THEOREM CaptureInvariance == CapSpec => []CapInv
BY InitInv, Step, PTL DEF CapSpec

\* After a settled capture nothing stays armed, and a child it calls closed is gone.
THEOREM CaptureIsOver == CapSpec => []SettledIsOver
<1>1. CapInv => SettledIsOver
  BY DEF CapInv, SettledIsOver, ClosedIsReal, ChildInv, ResultInv
<1> QED BY <1>1, CaptureInvariance, PTL

\* What the workflow accepts is the whole output of a child that ended by itself.
THEOREM AcceptedOutputIsWhole == CapSpec => []AcceptedIsWhole
<1>1. CapInv => AcceptedIsWhole
  <2> SUFFICES ASSUME CapInv, done, TransportAccepted(result, {0, 1}) PROVE child = "exited" /\ ~killed /\ result.size = sent
    BY DEF AcceptedIsWhole
  <2>1. result.closed /\ result.flags = {} /\ result.size["err"] = 0 /\ result.status.code \in {0, 1}
    BY DEF TransportAccepted
  <2>2. result.status = status /\ ~killed /\ result.size = sent
    BY <2>1 DEF CapInv, ResultInv
  <2>3. status # NoStatus
    BY <2>1, <2>2 DEF NoStatus
  <2> QED BY <2>2, <2>3 DEF CapInv, ChildInv
<1> QED BY <1>1, CaptureInvariance, PTL

\* The promise settles once: no later event changes what it settled with.
THEOREM CaptureSettlesOnce == CapSpec => SettlesOnce
<1>1. CapInv /\ [CapNext]_capVars => [done => result' = result]_capVars
  BY Step
<1> QED BY <1>1, CaptureInvariance, PTL DEF CapSpec, SettlesOnce
=============================================================================
