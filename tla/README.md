# A verification of SecApp in TLA+

SecApp runs one optional Microsoft Defender check through an elevated helper, imports
and judges audit packages, and carries reference models of the maintenance it will do
later. Its difficulty is of three kinds: processes that may fail, be killed or be closed
at the wrong moment around a single, never repeated elevation; storage that must survive
a crash between any two writes; and several verifiers of the same data, written apart,
that must not disagree. These modules model that logic from the source, check it with
TLC on small instances, and prove with TLAPS the safety of nearly all of it. Paths below are relative to
the repository.

## 1. The system's parts

| Part | State it keeps | Operations | Interacts with | What makes it correct |
|---|---|---|---|---|
| Window (`tools/ui/Show-DefenderWindow.ps1`) | its copy of the session state, enabled controls, a wish to close | clicks, closing, lines read by a timer | owner, by two pipes | the outcome shown is the real one; closing ends |
| Owner and session (`tools/secapp.mjs`, `src/ui/defender-desktop-session.mjs`) | state, open prompt, timer, connection, exit code | commands, disconnect, prompt timer | window, workflow | first answer decides; a lost window never runs; exit code is true |
| Workflow (`src/backend/defender-interactive-flow.mjs`) | build receipt, what was started and attempted | prepare, prompt, run or discard, catch | executor | one effect after consent, data withdrawn only before it |
| Executor (`tools/lib/defender-control-executor.mjs`) | child, timers, buffers, flags | data, error, close, abort, deadline, kill | controller process | settles exactly once, never accepts a truncated output |
| Controller (`tools/backend/defender-control/Invoke-DefenderControl.ps1`) | workspace files, exclusive lock, attempt mark | prepare, run, discard, removal | helper, other controllers | one elevation per workspace; removal safe and truly reported |
| Helper and backend (`DefenderControl.cs`) | Job, backend process, result file | checks, create, resume, poll, report, watchdog | controller, by files and exit code | no orphan; result and exit code agree |
| Terminal check (`tools/check-defender.mjs`) | a console prompt, an abort signal | signals, prompt | workflow | as the desktop check |
| Output gate and preview (`src/backend/direct-defender-*.mjs`) | buffered output, what has been told | chunks, end, exit, abort | backend, report | a preview is made of a whole clean output or not at all |
| Deployment model (`tools/lib/deployment-model.mjs`) | one operation on an installation, consumed nonces | request, stages, failures | the other maintenance models | one confirmation, one operation; nothing ambiguous is shown |
| Maintenance protocol (`tools/lib/maintenance-protocol-model.mjs`) | session state, offer, admission, intake, store, deadlines | messages, local events, lost replies | the store | only what was confirmed is published; a lost reply freezes |
| Maintenance persistence (`tools/lib/maintenance-persistence-model.mjs`) | journal, head, checkpoint, watermarks | a dozen events, restart | later sessions | restarts agree, floors survive, recovery never trapped |
| Maintenance recovery (`tools/lib/maintenance-recovery-model.mjs`) | the same, with offers, candidates and reserved room | operations, compaction, reconciliation, restart | later sessions | what is admitted can end; two candidates never contradict |
| Source read and archive (`src/import/audit-package-importer.mjs`, `import-zip.mjs`) | handle, two examinations; members read so far | bounded read; directory walk | file system | one version of one file; no byte unaccounted for |
| Import of records (`src/import/`, `tools/lib/import-command.mjs`) | records, validators, result | parse, split, judge, report | validators supplied by the caller | what is accepted was judged as it stands |
| Package and cross-object rules (`import-manifest.mjs`, `tools/lib/xobj-*.mjs`, `application-rules.mjs`) | an immutable graph | eighteen rules, pass and log rules | each other: the same facts are checked twice | accepted graphs are forests in one run; verifiers agree |
| Canonical text and digests (`tools/lib/jcs.mjs`, `order.mjs`) | none | text, exclusion, ordering | every verifier | equal texts only of equal values |
| Assessment (`src/assessment/windows-protection.mjs`) | none | one verdict per rule | import, preview | nothing is made up; no dependence on order |
| Compatibility probes (`tools/compatibility/`) | child, timers, limits, observer files | data, limits, timeout, taskkill, close | child, observer | the summary is true; framings lose nothing |
| Synthetic launch (`tools/backend/native-synthetic/`) | Job, two pipes, deadlines, checks passed | create suspended, resume, poll, terminate, clean up | child and leaf | a passed case happened; nothing survives a case |
| Trust launch prototype, contracts, schemas, validation commands | | | | not modelled, section 7 |

`PROJECT.json` lists every component with its status and reason, and every hazard at
its line with the properties that cover it.

## 2. The modules

| Module | Models | Composed with |
|---|---|---|
| `DefenderFlow` | `runDefenderCheckSession`: one action per await | DefenderDesktop, DefenderCheck |
| `DefenderDesktop` | window, pipes, owner, session | extends DefenderFlow |
| `ControllerCapture` | `captureController`: one child, its callbacks and timers | its promise is used by DefenderCheck |
| `DefenderController` | controllers, helper and backend on one workspace | DefenderCheck |
| `OneShotCheck` | abstract: what one check promises | implemented by DefenderCheck |
| `DefenderCheck` | the terminal command over workflow, controllers and helper | extends DefenderFlow and DefenderController |
| `DirectOutputGate` | the gate in front of a preview | |
| `MaintenanceLedger` | abstract: what all maintenance promises of one installation | implemented by the next four |
| `MaintenanceTuples` | selections, shared by protocol and deployment | |
| `DeploymentModel` | scenarios of the deployment model, one after the other | extends MaintenanceTuples |
| `MaintenanceProtocol` | sessions of the protocol model on what storage may hold | extends MaintenanceTuples |
| `MaintenancePersistence` | the persistence simulator over any number of sessions | |
| `MaintenanceRecovery` | the second store model over any number of sessions | |
| `SourceRead` | the bounded read of a file that others change | |
| `ImportZip` | the restricted archive reader of the import | |
| `PackageProbe` | the archive reader of the probe, on the same archives | extends ImportZip |
| `AuditImport` | the import command and its pipeline | |
| `CrossObject`, `ImportPackage`, `AuditGraph` | the rules, the import's checks of a package, and the graphs both are given | each extends the one before |
| `ActionLog` | the three verifiers of an action log | |
| `CanonicalText`, `ManifestOrder` | canonical text, exclusion of a field, digested lists | |
| `JsonScan`, `StructuredFraming` | three readers of one JSON text; how outputs are cut into records | |
| `ProtectionAssessment` | assessment and preview of one snapshot | |
| `ProcessProbe` | the bounded process probe | |
| `SyntheticLaunch` | one case of the synthetic launch suite | |
| `DefenderDesktopProofs`, `MaintenanceRecoveryProofs` | theorems | extend their modules |
| `DefenderCheckProofs` | theorems about controllers, check and capture | extends DefenderCheck and ControllerCapture |
| `MaintenancePersistenceProofs` | theorems about the first store and the ledger | extends MaintenancePersistence |
| `MaintenanceProofs`, `IntakeProofs`, `VerifiersProofs`, `SupervisionProofs` | theorems about all parts of a run | extend MCMaintenance, MCIntake, MCVerifiers, MCSupervision |

### The modules that are run
An `MC...` module gives constants their values and states what a run checks. The two stores
need no other constants than model values and numbers, so their cfg names the module itself.
Modules that hand each other finished values
are run together, because none of them can disturb another: `part` says which of them moves,
and the others stay in one idle state. The combined properties are conjunctions of the
properties named in the modules, each guarded by its part.

| Module run | Parts |
|---|---|
| `MCDefenderDesktop`, `MCDefenderController`, `MCDefenderCheck`, `MCControllerCapture` | the module of that name |
| `MaintenancePersistence`, `MaintenanceRecovery` | the module itself |
| `MCMaintenance` | `MaintenanceProtocol`, `DeploymentModel` |
| `MCIntake` | `SourceRead`, `PackageProbe` over `ImportZip`, `AuditImport`, `JsonScan`, `StructuredFraming`, `ProtectionAssessment`, `DirectOutputGate` |
| `MCVerifiers` | `AuditGraph` over `ImportPackage` and `CrossObject`, `ActionLog`, `CanonicalText`, `ManifestOrder` |
| `MCSupervision` | `SyntheticLaunch`, `ProcessProbe` with descendants and without |

`MCArchives` and `MCGraphs` hold data only: the archives, and the five complete graphs
with the values their fields may be changed to (`scenario` names the graph).
A cfg not named after its module is a further question asked of the same instance.

### DefenderFlow
`pc` is the await in which the workflow is suspended (`preparing`, `prompting`,
`discarding`, `rescuing` for the discard of the catch block, `running`). An action is
what happens between two awaits: `Begin`, `Prepared`, `Decline`, `Accept`,
`Discarded`, `RunEnded`. `Catch` is the catch block. `calls` counts the calls of the
executor; `exit` is the value the workflow returns. Texts written to the user are
left out, since the only thing they can do to the control is throw; the last
argument of the actions says whether that happened.

### DefenderDesktop
`toWindow` and `toOwner` are the pipes. `state`, `prompting`, `answer`, `connected`
and `code` are the closure variables of the session; `broken`, `ended`, `ownerExit`
those of `secapp.mjs`; `wstate`, `controls`, `closing`, `windowOpen` those of the
window. A resolved prompt is a value in `answer` that the workflow takes in a step of
its own (`Resume`), as a promise continuation runs after the handler that resolved
it; nothing else of the owner runs in between (`~Resolved`). With `EmitMayFail`
the message function may fail while `publish` runs, which re-enters `Disconnect`.

### ControllerCapture
Sizes are counted in units against `Limit` and `ErrLimit`. `Stop` and `Finish` are
the functions of the same name; `KillChild` includes the case that `kill()` emits
`error` before it returns. `ChildExits` is the child's own end. A settled promise
may still receive callbacks, so that "settles once" says something.

### DefenderController
`files` is the set of names in the workspace, `locker` the process that has
`controller.lock` open, `ctl[c]` the place of controller `c` in the script. The
helper's `CheckStop` and the operation it protects are two steps (`cleared`), and so are
a controller's mark of the attempt (`UseActs`) and its request for elevation
(`AskElevation`). `Exit` is `exit` through the `finally` block, whose cancel request may
fail to be written unnoticed.
`Killed(c)` ends a controller without its `finally` block; `HelperKilled` is the
watchdog or a crash, and may leave a partial `result.json`; a killed Job ends its
backend later (`dying`). `ElevatedLate` is the dialog accepted after its controller
is gone. Of `run`, the path with `-CleanupOnSuccess` is modelled, the only one the
executor uses. Every failing check or file operation is the one action
`ControllerFails` or `HelperFails`: which error was reported makes no difference
to any property.

### DefenderCheck and OneShotCheck
`DefenderCheck` puts the workflow over real controllers: an executor call starts the
controller named for the operation, and settles either with what that controller
printed, or with a failure at any time (deadline, abort, limit), after which the
controller may have been killed or may live on. That is the promise `ControllerCapture`
is checked for: an accepted output is whole, and a "closed" child has really closed.
The refinement to `OneShotCheck` maps consent to the workflow having accepted the
phrase, elevation to `asked`, data to the workspace files, and the verdict to the exit code.

### MaintenanceLedger and the four models below it
The ledger is six variables: a transaction counter, the selected generation and the
highest that may have been published, the security floor, the selection, and the phase of
the transaction under way. Each model maps its own store to them: persistence what is
durable (`Durable`, with a write in flight counted once it may have happened), protocol
its `store`, recovery its `s`, deployment its snapshot and floor. "Blocked" is a publication whose
outcome is not known. What the four implement they inherit: section 5 proves the two
properties of the ledger.

### DeploymentModel
`simulateDeployment` runs one scenario; `Request` starts one on the last projected
snapshot with the nonces consumed so far, and a confirmation that may be fresh, old,
foreign, expired or missing. One action per stage; a failure event in a stage is the
same action with another outcome (deferral, rejection, pending cleanup, required recovery).

### MaintenanceProtocol
One action per accepted event of a session; which check refuses an event changes only the
reported reason, so every refusal is `Refuse`. `now` moves freely between events and the
deadlines are compared as the code does (at or past). `disk` holds what the storage may
contain when a session is lost, and `NextSession` starts on any of it. `Fail` is the one
function that classifies failures by state, admission and journal.

### MaintenancePersistence
One action per event of the simulator with all its outcomes; `EndSession` is a crash,
a refused event, a lost coordinator or the end of the list; `Open` starts the next
session on the storage and watermarks the last one left, with a new intent, the old
one again or none. `Replay` is `replay()`: a recursive function over the journal.
A digest is what it binds, so a chain is identified by its sequence number and
whether it starts at an anchor or a record. `finished` is a history variable:
the transactions whose lineage has completed. While a write is in flight or the head lags
(`Recovering`) a status query answers for no transaction, finished ones included. `MaxCounter`, `MaxGen` and
`MaxSeq` stand for `Number.MAX_SAFE_INTEGER`, so the overflow branches are reached.

### MaintenanceRecovery
The second store model: every operation is admitted by an offer bound to all that was
observed; admission reserves room for its remaining records; a compaction writes a
candidate checkpoint beside the old one, and a reconciliation interrupted in its turn
leaves either head with both. `Reconstruct` is what the code rebuilds from the
storage, historical offers included, and `RestartAgrees` compares it with what a session left.

### SourceRead, ImportZip, PackageProbe
`SourceRead` has one action per call of `readBoundedSource` (examine path, open, examine
handle, read a piece, examine both again) and one per change others make: write, truncate,
replace, link. A block of content is who wrote it and when, so that a mixture of two
versions is visible. `ImportZip` walks the directory of an archive in which each place
holds whatever the directory claims, true or not; one unit is a header with its name, and
stored bytes are counted. `PackageProbe` reads the same archive afterwards with the probe's
own order of checks.

### AuditImport
The command from its arguments to its exit code. Reading, archive, members and texts each
succeed or fail here, since the modules above and below say when. Validators and
assessment belong to the caller: they may throw, answer anything and change what they are
given, which is why a value is "own" or "altered".

### CrossObject, ImportPackage, AuditGraph
A graph is a record of collections of records. `CrossObject` has one operator per rule,
`Through(g)` the number of rules a graph passes in order; `ImportPackage` has
`finalizeAuditPackage` and `validatePassGraph`. `AuditGraph` starts from a complete graph,
changes it field by field (`Replace`, `Drop`, `Copy`), and freezes it before both verifiers
see it. Digests are no secrets: whoever produces the objects may state any version of
anything, so a mutation may also restate digests. `SchemaValid` is what the contract
schemas guarantee of the fields, since every verifier comes after them.

### ActionLog, CanonicalText, ManifestOrder
`ActionLog` numbers, links, names, orders and times the entries in every way and compares
the three verifiers. `CanonicalText` grows a heap of objects property by property, shared
and cyclic ones included, and may spoil it once with what JSON cannot hold; a text is its
sequence of tokens. `ManifestOrder` permutes the lists that are sorted before they are digested.

### JsonScan and StructuredFraming
`JsonScan` feeds one text, character by character, to the strict parser (a stack of open
containers), to the depth scan that must bound that parser's recursion beforehand, and to
the splitter of concatenated documents. Since each character is one step, texts of any
length are covered. `StructuredFraming` starts where documents have been found: which
framing takes which separators, and what the automatic choice does. White space beside a
document is allowed in every framing; on a line of its own JSON lines refuse it, and they
count it towards the size of its line.

### ProtectionAssessment and DirectOutputGate
The first starts from a complete snapshot and changes observations and executions; both
the import's assessment and the check's preview are computed from it. The second is the
gate's closure variables under calls in any order, late and repeated ones included.

### ProcessProbe
One action is one event of the probe's loop with the microtasks that follow it, or one
step of the child, its descendants, `taskkill` or the observer. `Request` is the one
termination request; `main` the await in which the probe is suspended. `Summarize` may fail
in any of its writes or in the second hash of the executable and leave no summary.
Descendants that inherit the pipes hold the close event back, as they do on the platform.
`TerminationIsComplete` leaves out a termination for a pid file that could not be written:
requested after the close, it is one nobody awaits (`process-probe.mjs:316`).

### SyntheticLaunch
The supervisor is a program counter over its system calls; root, leaf and a console
process of the system run beside it, and it may be killed anywhere, upon which the
kill-on-close Job dooms its members. `PassedIsEarned` reads the checks the harness makes;
`ContractAgrees` those the test makes of its report. Deadlines are passed at any time.

## 3. The runs

| Run | Question | Properties |
|---|---|---|
| `desktop` | every order of window, pipes, owner, session, workflow | `ConsentDecides` (`TypeOK`, `FirstAnswerDecides`, `OneEffect`), `OutcomeIsTrue` (`ExitCodeIsTrue`, `WindowShowsOutcome`), `LostWindowNeverRuns`, `EveryoneEnds` (`OwnerSettles`, `CloseRequestEnds`) |
| `capture` | every order of a child's callbacks and timers | `AcceptedIsWhole`, `SettledIsOver` (`CapTypeOK`, `ClosedIsReal`, `NothingLeftArmed`), `CaptureSettles` (`SettlesOnce`, `AlwaysSettles`) |
| `controller` | three controllers, a helper and a backend on one workspace | `SingleElevation`, `RemovalIsSafe`, `RemovedIsTrue`, `ConfirmedIsReal`, `OrphansEnd` |
| `check` | does the composed check keep the one-shot promise, and end? | `CommandIsTrue` (`ElevationNeedsPhrase`, `ExitMeansClean`), `IsOneShot`, `EverythingEnds` |
| `persistence` | does the store survive sessions that end anywhere? | `StoreGoesOn` (`TypeOK`, `ReplayAgrees`, `HeadLags`, `NoFalseRegression`, `SnapshotKeeps`, `CanFinish`), `ReportsAreTrue` (`PublishedAtFloor`, `StatusIsTrue`), `ImplementsLedger` |
| `recovery` | does the second store, with compaction and reconciliation? | `StoreAgrees` (`TypeOK`, `RestartAgrees`, `SnapshotKeeps`, `CheckpointsAgree`), `AdmittedFits` (`AdmittedCanEnd`, `RoomToCompact`), `ReportsAreTrue` (`StatusIsTrue`, `KnownIsSettled`, `RetiredNeverShown`), `ImplementsLedger` |
| `maintenance` | protocol sessions refused, interrupted or lost after any event; deployment scenarios with every confirmation and failure | `StoresCanGoOn`, `OnlyCertainShown`, `ConfirmedOnce`, `LateIsRefused`, `BothImplementLedger` |
| `intake` | is what is accepted, judged, previewed and printed the file that was selected, whole and once? | `SourceIsOneVersion`, `ArchiveIsAccounted`, `OnlyJudgedIsShown`, `TextReadersAgree`, `AssessmentIsBacked`, `PreviewIsWhole` |
| `verifiers` | are accepted graphs forests bound together, accepted logs chains, digests those of values? do verifiers agree? | `GraphIsForest`, `GraphIsBound`, `LogIsOneChain`, `DigestIsOfTheValue` |
| `supervision` | did what the launch harness and the probe report happen, do they end, what survives? | `PassIsReal`, `SummaryIsReal`, `EverythingEnds` |

Two more runs each expect a violation, the first two disagreements of section 6:
`desktop_close` (`CloseIsDeferred`) and `package_references` (`ReferencesMatchMembers`).

Each property of a passing run has a mutant in `PROJECT.json`: a plausible bug in the
modelled code under which TLC finds the property violated. The mutated forms are the
definitions under "Plausible faults" in each module; no action uses them.

### Bounds and why they are enough
* Desktop: two texts (the phrase and another), four user commands. One check takes
  two commands; four leave room for a repeated, a late and a closing one.
* Capture: two units fit on stdout, one on stderr, three can be sent, so that a
  bound can be met exactly, exceeded at once and exceeded by a second chunk.
* Controller: three controllers, so that two race for a workspace which a third one
  prepared; the theorems of section 5 hold for any number.
* Check: one command with one controller per operation.
* Output gate: six calls, of chunks that fill the limit exactly or exceed it.
* Deployment: two manifests, two epochs, four nonces, three generations, times on both
  sides of an expiry: a confirmation can be replayed after an admission, a failure and
  an uninstallation.
* Protocol: every deadline is one or two ticks and three pass, so each can fire before,
  with and after the others; payloads of one and two members, whole and broken chunks;
  four transactions in lineages of three, three generations.
* Persistence: one digest with two epochs (selections are told apart by epoch, and
  two epochs make a rollback possible), four transactions with lineages of three,
  so that a recovery is recovered; three generations; seven records before
  the journal is full, ten sequence numbers across compactions.
* Recovery: six transactions, so that a lineage of three is followed by a compaction
  and its reconciliation; twelve records, the least that lets admission refuse for want of
  room and still admit; sixteen sequence numbers, which pass one whole compaction.
* Source read: two files of two blocks, a limit of two and a buffer of three, three
  changes by others between any two calls.
* Archives: three members, stored sizes to two, claimed sizes and real ones to
  three, under limits of two per member and three in all: each limit is met exactly,
  exceeded by a claim, exceeded only by the truth, and exceeded only by the sum.
* Import: two records, which suffice for repeated identities and for a bad record
  beside a good one.
* Graphs: two of everything that is linked (three passes in the scenario of passes), changed in two or three
  fields; a crossing of two chains takes two changes, a restated one three.
* Log: three entries, so that order, chain and repetition differ; one decimal of a second.
* Canonical text: two objects with four properties in all, which give sharing,
  cycles through the other and through itself, and two keys to be put in order.
* Manifest order: three rows of two values in each field.
* JSON: nesting to four, any length. Framing: three documents, one past each limit.
* Assessment: three changes, enough to break, restore and duplicate an observation.
* Probe: two bytes against limits of one, with and without descendants and cancellation.
* Launch: a pipe of one unit before a buffer of two, floods of four, every case of the suite:
  a flood overruns the buffer and then still fills the pipe.

### Deadlock
All these systems stop: a command exits, a counter is used up. The cfg files that
switch deadlock checking off are those; the liveness properties of `desktop`, `capture`,
`check` and `supervision` show that stopping is the right stop.
`MaintenancePersistence` also stops where the code gives up for good: an Unknown image is
never opened again. `CanFinish`, `PublicationCanFinish` and `AdmittedCanEnd` say of the
stores, without fairness, that a way to the end remains.

## 4. Fairness
Fairness is only assumed of steps which the platform owes:
* event loops run their callbacks, timers fire, and (desktop) executor promises settle,
  which `AlwaysSettles` shows of the capture;
* capture: the spawn call and the timers. Nothing is assumed of the child: it may hang,
  and `AlwaysSettles` then rests on the deadline and the grace timer alone;
* controller: the helper's watchdog thread runs, and the system terminates a killed
  Job. No controller, helper step or elevation answer is fair;
* check: the command's own steps, its settling promises, watchdog and Job;
* probe: the events of its loop, its timers, `taskkill` (which the code runs under a
  timeout), its waits for the observer (bounded in the code), and the death of a child
  the system has been told to kill. Nothing else of child, descendants or observer;
* launch: the supervisor's thread while it lives, time, and the death of processes the
  system has been told to terminate. Root and leaf may do nothing for ever.
Users, crashes, channel failures and kills are never fair. The maintenance models have no
fairness: they are driven by supplied events. The other modules are functions of their
input, built step by step.

## 5. What is proved
Eight modules hold theorems, about every value of the constants. Each states an inductive
invariant, which TLC checked as an invariant of the run before it was proved; has one lemma per
action, handler or actor that says what it keeps; and derives what the run checks. The
theorems about `P` are of the form `Spec => []P` (or `Spec => P` for an action property or
a refinement) with the very `P` of the run.

| Module | Theorems | Property of a run |
|---|---|---|
| `DefenderDesktopProofs` | `DesktopInvariance`, `ConsentIsDecided`, `OutcomesAreTrue`, `LostWindow` | `ConsentDecides`, `OutcomeIsTrue`, `LostWindowNeverRuns` |
| `DefenderCheckProofs` | `Typing`, `Invariance`, `OneElevation`, `SafeRemoval`, `TrueRemoval`, `RealConfirmation` | `SingleElevation`, `RemovalIsSafe`, `RemovedIsTrue`, `ConfirmedIsReal` |
| | `CheckInvariance`, `CommandTruth`, `OneShot` | `CommandIsTrue`, `IsOneShot` |
| | `CaptureInvariance`, `CaptureIsOver`, `AcceptedOutputIsWhole`, `CaptureSettlesOnce` | `SettledIsOver`, `AcceptedIsWhole`, the safety half of `CaptureSettles` |
| `MaintenancePersistenceProofs` | `PersistenceInvariance`, `StoreIsSound`, `ReportsAreSound`, `StoreImplementsLedger` | `StoreGoesOn`, `ReportsAreTrue`, `ImplementsLedger` |
| | `LedgerSettled`, `LedgerNeverBack` (of the ledger itself) | |
| `MaintenanceRecoveryProofs` | `RecoveryInvariance`, `StoreIsOneStory`, `CapacityIsReserved`, `ReportsAreSound`, `RecoveryImplementsLedger` | `StoreAgrees`, `AdmittedFits`, `ReportsAreTrue`, `ImplementsLedger` |
| `MaintenanceProofs` | `MaintenanceInvariance`, `SessionsLeaveValidStores`, `OnlyCertainIsShown`, `ConsentIsUsedOnce`, `LateMovesNothing`, `BothModelsImplementLedger` | `StoresCanGoOn`, `OnlyCertainShown`, `ConfirmedOnce`, `LateIsRefused`, `BothImplementLedger` |
| `IntakeProofs` | `SourceIsOne`, `ArchiveAccounts`, `ImportShowsTheJudged`, `TextsAreReadAlike`, `AssessmentBacked`, `GateIsWhole` | `SourceIsOneVersion`, `ArchiveIsAccounted`, `OnlyJudgedIsShown`, `TextReadersAgree`, `AssessmentIsBacked`, `PreviewIsWhole` |
| `VerifiersProofs` | `GraphsAreForests`, `GraphsAreBound`, `LogsAreOneChain`, `ListsMayBePermuted` | `GraphIsForest`, `GraphIsBound`, `LogIsOneChain`, and of `DigestIsOfTheValue` what it says of lists |
| `SupervisionProofs` | `PassesAreReal`, `SummariesAreReal` | `PassIsReal`, `SummaryIsReal` |

### The desktop (`DefenderDesktopProofs`)
For every set of texts with the phrase in it, any number of clicks and pipes of any length.
`FlowInv` says what each await implies of the calls made, `SessionInv` ties the prompt to
the session's state and to the await, `OwnerInv` is the end of the owner. The two parts that
carry the theorems are about messages under way. `RowInv`: every row in the pipe, however
late it is read, is still true when read, because outcomes are final and a question stays
asked. `AnswerInv`: while the prompt is open, the first answer the window ever sent is in the
pipe and no other answer is before it; so the one that resolves the prompt is the first.
`LostWindow` has the hypothesis `EmitMayFail = FALSE`, as the run has: with `TRUE` it is
false (section 6, item 3), and the other theorems need no such hypothesis. The two theorems of
safety hold with failing messages too.

### The controller (`DefenderCheckProofs`)
For every set of controllers with `Nobody \notin Controllers`, however many are started or
killed. None of the four properties is inductive by itself. `IInv` adds:
* `LockInv`: only the lock's holder can be past the opening of `controller.lock`; this is
  what makes a freshness check mean something to the step after it;
* `NewInv`: before preparation has finished no other controller can hold the lock;
* `StageInv`: what each stage of a controller says of the files and its mode; between the
  mark of the attempt and the dialog the attempt is marked and nobody has been asked;
* `AttemptInv`: before any elevation at most the mark of the attempt and a cancel request
  join the prepared files, and a requested elevation leaves `attempted.once` until the prepared files
  are gone. This is where the order of deletion matters: prepared files are deleted
  before the mark of the attempt, so that a removal broken half way never looks
  like a fresh preparation;
* `HelperInv`: the helper belongs to the controller that asked, and an exited one leaves
  no live backend except a dying one;
* `RemovedInv`: after a reported removal only the lock is left and no process can
  write again.

### The terminal check (`DefenderCheckProofs`)
The composed command keeps the controller's `IInv`, by `StepKeeps` and
`ProcessesAreModelled` (each of its steps is a step or a stutter of `CtrlNext`). `CheckInv`
adds `FlowInv`; `SpawnInv` (each controller was started by the one await that owns it, the
elevation is the run's, the run is the phrase's); `DataInv` (the prepared build is there until a
controller takes it over, and the attempt's mark while anybody may write); and
`OutcomeInv` (an exit code other than 1 was read from the controller that reached it). On
these, `OneShot` proves the refinement: `FlowPromise`, `ControllerPromise` and
`MachinePromise` map each kind of step to a step of `OneShotCheck` or a stutter. The
refinement is one of safety; `OneShotCheck` has no fairness.

### The capture (`DefenderCheckProofs`)
For every bound of the pipes and every size of chunk. "An accepted output is whole" is not
inductive: it speaks of a settled result only. `CapInv` adds what holds on the way there:
without a flag or a byte of stderr nothing received was dropped and nobody has asked for a
kill (`MarkInv`); a signal status comes only from a kill, and a close event only from a child
that is gone (`ChildInv`); and a result stays true after it was handed out, whatever late
callbacks do to the buffers (`ResultInv`).

### The store (`MaintenancePersistenceProofs`)
For every limit of counters, generations, sequence numbers, records and lineages, and any
selections; the constants' only assumptions are their types and that `None` is none of the
documents.

`Replay` is a recursive function over the journal. The library's induction theorems cannot be
used here (they take an operator as a parameter), so the module proves that every nonempty
set of naturals has a least element (`LeastNumber`, from the well-foundedness of finite
subsets) and argues by the least counterexample: `Unrolling` shows that the recursion is
defined for every length, and `ReplayAppend` that one more record is one more `Chained` step.
From there the proof never looks into the recursion again.

`Sound(s)` is what a replayed state can be: outside a publication a visible selection is
exactly at the security floor and the generation is the highest; under a publication
both floors were raised first, and the original and previous selections that recovery may
choose still satisfy them. `RecordAdvances` shows, per kind of record, that a record
which fits a sound state leads to a sound one and lowers nothing. `IInv` adds:
* `JournalInv`: the session's state is the replay of what is stored, and sound;
* `PendingInv`: a write in flight fits the state in which it was written;
* `HeadInv`: the head is that of the chain or of the checkpoint, or one record behind, and
  then the session knows it must publish it again;
* `MarksInv`: the watermarks cover the state the store will have when the write arrives, and
  are exactly it while the image is Known. Without the write in flight this is not inductive:
  a crash between write and answer leaves it to chance which of the two states is durable;
* `FinishedInv`: every transaction ever admitted is finished or in the active lineage;
* `TypeInv`, `SessionInv`: types, and when a checkpoint can be there.

`StoreImplementsLedger` shows that each step of a session is a step of `MaintenanceLedger`
under the mapping of the run, or a stutter; `StoredIsState` reduces the mapped state,
which counts a write in flight, to the session's. With `LedgerSettled` and
`LedgerNeverBack` it follows that no crash, lost write, repeated event or compaction of any
length lowers a floor or replaces a selection without a publication. The proof needs
that an intent of kind Maintenance names no recovery target, which the schema says
(`schemas/development/maintenance-persistence-scenario.schema.json`) and `simulatePersistence` itself does
not check again: with another intent an admission could start a lineage in the middle.

### The second store (`MaintenanceRecoveryProofs`)
For every limit and any selections. The assumptions on constants are that the limits are
positive, that a journal and the sequence numbers have room for one publication with its
compaction (six; the code has 64 and 2^53 - 1), and that `None` is none of the documents.

`Reconstruct` is unrolled as `Replay` is. What is new is that an admission carries its whole offer
and is rechecked at every restart, long after the head and the checkpoints it was offered on were
replaced. `FitsAgain` is why the recheck finds the same answer: an offer that was authorized
names the head, the candidate and the obsolete checkpoint that were on disk, and `Historical`
puts exactly these back, with the journal before the record. So `JournalGrows` keeps
"the session's state is what a restart reconstructs" whatever happens to head and checkpoints
later. With the published head alone instead of what the offer names, the run finds
the counterexample (the mutant `OnlyTheHead`).

`IInv` has eight parts:
* `JournalInv`: the journal reconstructs to the session's state, which is `Sound`, and has
  `Room`. `AdmittedCanEnd` and `RoomToCompact` are not inductive: what an operation may still
  write depends on its stage, and recoveries restart the count. `Reserve` is what every state
  still has to be able to write, the compaction after it included; admission pays for it once
  (`Costs`), and each record takes one of it;
* `CheckpointInv`: whatever is beside the journal shows the same deployment, and while
  it is there only its reconciliation can be under way;
* `HeadInv`: the head is that of the journal or of the candidate, or the session knows
  that it has to publish again; it is never above the journal;
* `MinInv`: the minimum covers the state a write in flight leads to, and is exactly it while
  the image is Known;
* `PendingInv`, `SessionInv`: a write in flight fits where it was written; what the flags of a
  session imply of the storage;
* `FinishedInv`: every transaction is finished or in the active lineage;
* `ShownInv`: what an offer in the journal names as its origin is older than its transaction,
  and what was retired is older than the active lineage. `RetiredNeverShown` quantifies over
  pairs of journalled records, and is kept because of the guard `!publication_seen`: without it in
  `Retirable` the proof fails as the run does.

`CheckpointKeeps` shows that no record can be written beside a checkpoint that would change the
deployment, and `SnapshotHolds` that any session leaves a snapshot the codec accepts.
`RecoveryImplementsLedger` is `LedgerStep`: a record is a step of the ledger, and everything else
(heads, checkpoints, the retirement of the journal, restarts) is a stutter.

### The protocol and the deployment model (`MaintenanceProofs`)
For every limit, deadline, chunk size, set of requests and set of nonces: everything the run
`maintenance` checks. The assumptions are `TuplesAssumption` and `ProtocolAssumption`: types,
members that are not empty (as the schema of a message says), and that `None` is no journal.

A store is `Sound` when its counters are in bounds and its journal explains the selection beside
it, phase by phase. Four lemmas say what the four ways to change a store do to a sound one
(`AdmitKeeps`, `BlockKeeps`, `CommitKeeps`, `CompleteKeeps`), and each names the step of the ledger
it is (`AdmitMove` to `CompleteMove`). None of the properties is inductive. `SessionsInv` adds:
* `DiskInv`: what may be stored is the session's store or one such step ahead of it, and the
  latter only in a session that has ended in doubt. A commit that may have happened was confirmed:
  this is what makes `OnlyConfirmed` true when a selection only shows up a session later;
* `ProposalInv`: a proposal stays permitted until it is reserved, and what was confirmed is the
  transaction under way;
* `WorkInv`: after the reservation the operation aims at the next generation, above both
  floors (`Aimed`). A recovery aims at the candidate or the previous selection of a
  publication that somebody else opened, so the journal has to remember that both satisfy the
  floor it reserved; this is also why `PublicationCanFinish` holds after any number of failures;
* `SessionInv`: before the reservation nothing was consumed or taken in.

`ScenariosInv` is the same for the deployment model: `StageInv` (a scenario that has not ended
aims above its snapshot; while its publication is open, above the floor it raised) and
`ReceiptInv` (an accepted request has a confirmation bound to it whose nonce was never used, and
one kept from a rejected request is still one of the nonces).

`SessionMoves` reduces every step of a session, a restart included, to one of the four moves or
none; `ConsentIsUsedOnce` and the first half of `BothModelsImplementLedger` follow from it. In the second half
the transaction counter is the number of nonces used, so that admission is a step because the nonce is new.

The proof turned up one thing in the model: `Fail` and `FailWith` had a CASE with overlapping
guards, of which TLC takes the first and the logic any. They are exclusive now, as the code's
chains of conditions are, in these and in the other modules.

### The ledger (`MaintenancePersistenceProofs`)
For any epochs, floors, counters and selections. `SettledAtFloor` is not inductive: a commit
takes over the highest generation, and that this one is above the selected one has to be
remembered from the step that blocked. `LedgerInv` adds it (`phase = "Blocked" => genFloor > gen`).

### The readers (`IntakeProofs`)
For any limits, archives, files, records, texts and sizes. `ZipAssumption` says that the fields
of an archive are numbers, `LimitAssumption` and `DocumentAssumption` that the limits are.
A step of one part leaves the variables of the others alone, so each part has its own
inductive invariant:
* `ZipInv`: what the import has read are the members of the directory in their places, each
  `Sound`; there are running totals of which the last is what was expanded (`Sums`); an
  accepted archive is tiled by its members in some order; and the probe has read a prefix of
  what the import accepted. `TilesHideNothing` shows that in such a tiling each byte belongs to
  exactly one member: the first one, in the order, that stops behind it;
* `SourceInv`: a write gives a file a time it never had (`DiskInv`); so while the time is that
  of the first examination the content is that of the opening, and what was read is a
  prefix of it (`VersionInv`). The second examination turns this into "one version";
* `ImportInv`: from the parser on all values are the source's own, those judged are the first of
  them, and a result stays what it was (`StageInv`, `ValuesInv`, `OutcomeInv`);
* `ScanInv`: while the parser accepts, the scan and the splitter know its depth, whether it is
  in a string and behind a backslash (`Marks`); where the parser fails, the splitter or the
  parser of the pieces has failed as well;
* `FramingInv`: what was written down of a text is what each reader makes of it. The records of a
  text and its pieces are recursive functions; they are unrolled by the least place at
  which the unrolling could fail;
* `AssessmentInv`: there are observations, and they are of the kind the collector makes; that the order
  is irrelevant is a property of the operators, proved for any permutation;
* `GateInv`: an open gate holds exactly what was delivered and nothing spoilt, a closed one nothing.

### The verifiers (`VerifiersProofs`)
For any graphs, changes, limits, logs, decimals and rows. `FormAssumption`: collections are lists of
objects whose list fields are lists and whose times are numbers, which the schemas guarantee and
no change takes away. `UnreadAssumption`: in the two scenarios that compare import and
rules, the objects which only the rules read are in order. `LogAssumption`: the logs have
the form of the schema. `VerifierInv` says that the graph stays formed and a verdict
is that of the graph it is kept with (`GraphInv`, `ReadInv`), and so of a log (`LogInv`). The
work is in what the operators mean:
* `ThroughIs`: a graph that passes eighteen rules passes each of them (`VerdictRules`);
* `Forest`: identities differ, what is listed names what lists it and what names its owner is
  listed by that one. `RulesForest` and `ImportForest` derive it from the two verifiers' quite
  different checks, and `ForestChains` derives the property from it alone;
* `PassVerdictsAgree`: the rules go through the passes in their own order, the import in that of the
  run's references. `RankedEnds` shows that with ranks which decrease along what a pass waits for
  nothing is left behind any pass after as many steps as there are passes (`Behind`). The place
  of a pass is such a rank for the rules (`OrderedEnds`); for the import it is the
  place of its reference, and there is one of each because as many kinds differ as there are
  passes (`ImportedEnds`);
* the log: `InOrder` is the stable sort, given by ranks. `Ranks` and `OrderIs` show it is a
  permutation, `CountedIs` that an order in which the numbers count from zero is the only
  one. A log is accepted exactly when some walk over its places is a chain (`ChainedIs`);
  `OneChain` follows the predecessors back from any entry, and `StoredChain` carries a chain over to the
  log in any other storage order;
* times: text order and date order are compared digit by digit (`TextCompares`, `ReadCompares`),
  so the verifiers agree where all fractions have one length that dates keep (`AgreeStep`);
* lists: of two rows which may stand in one list one is before the other (`RowsDiffer`), so each has
  a rank of its own (`RowsRanked`), and ranks move with the rows (`SortedIsOne`). `ListAssumption`:
  the fields that are sorted by have an order.

### The supervisors (`SupervisionProofs`)
For any limits, sizes of pipes and floods, and any numbers of bytes. `LaunchAssumption`: the
buffer takes at least the two lines a case writes, and a flood is larger than buffer and pipe
together, as in the code (a buffer of 4 KiB, a pipe, a flood of 1 MiB). `ProbeAssumption`: limits
are numbers.

`ProbeInv` relates what ended the wait to the child, the reason to the bytes seen, and the
bytes seen to those sent. A probe without descendants takes only steps of one with descendants, so
the invariant serves both.

`LaunchInv` is about evidence: the harness sees text, exit codes and counts, and concludes
what the processes did. What makes it inductive is that a child always has the end of its
own script still to do, unless it refused (`TreeInv`, `Follows`). So what was heard says
how far the speaker has come (`SpokenInv`), and stays true whatever the speaker does next. A
flood is conserved: what the root has still to write, what is in the pipe and what is in the
buffer are the flood, until something was dropped (`FloodInv`). The other parts say what the
supervisor may rely on in each phase: nobody writes to a stream that was closed (`BufferInv`), a
sleeping tree does not wake before its time (`Asleep`), nobody was killed before the
supervisor terminates (`Spared`), nothing ran before the resume (`Unresumed`), an exit code
is the root's own (`ExitInv`), an outcome has its evidence (`OutcomeInv`), and a passed case
its checks and an empty Job (`PassedInv`). `ChildEffect` is what one step of the children can do to
all this; it is proved once, child by child, and then the supervisor's calls are taken one by one.

### Only model-checked
* Liveness: `EveryoneEnds`, `OrphansEnd`, both `EverythingEnds`, `AlwaysSettles`. ENABLED and
  fairness are out of the prover's reach.
* `DigestIsOfTheValue`, apart from what it says of lists. The canonical text is defined by recursion over a graph of
  objects with the set of ancestors as its measure, and joins texts by a fold over an operator.
  A proof would need that nested texts can be read back in one way only: induction over
  trees, for which the library's theorems cannot be used and the least counterexample is too
  weak a tool to keep the proof readable. TLC compares all heaps of two objects with four properties.

Where a recursive function is over numbers (a replay, a total, a walk back), the least number
at which a claim could fail takes the place of induction: `LeastNumber` in three modules, from the
well-foundedness of finite subsets.


## 6. Disagreements found
Two are runs that expect a violation:

1. `desktop_close`. `docs/defender-desktop-mvp.md:49` says that closing during
   preparation is deferred in the UI. The handler (`Show-DefenderWindow.ps1:191`)
   decides on the window's own copy of the state, which remains `Ready` after the click
   on prepare until the owner's `Preparing` line is read; meanwhile the window
   closes freely. The owner then finishes and discards, so no promise about
   effects is broken: `OneEffect` and `OwnerSettles` hold.
2. `package_references`. The import compares the number of references of a run with the
   number of members and looks each reference up. A run that names one execution twice
   makes up for a member no reference names, although the rejection it would otherwise
   give says the reference set does not match. XOBJ-008 looks each reference up, too.

The others are stated as properties in their modules. None of the runs checks them; TLC
finds each violated when it is added to a cfg of the module's run, or of the module itself:

3. `LostWindowNeverRuns` (`DefenderDesktop`) with `EmitMayFail = TRUE`. The comment in
   `disconnect()` and a test's name say that a lost channel never starts a run. If the
   message that fails is the one announcing `Submitting` inside `finishPrompt`
   (`defender-desktop-session.mjs:50`), the answer has been taken already and is still
   resolved: the run starts. With `secapp.mjs` a message fails synchronously only above its
   size bounds, which one check's texts do not reach; so `desktop` assumes
   `EmitMayFail = FALSE` and the property holds there. The hazard at that line is
   covered no further than this.
4. `InternalErrorExits1` (`AuditImport`). The help of the import command gives internal
   errors exit code 1 (`tools/lib/import-command.mjs:25`), and `main` does for what it
   catches; but the pipeline turns an exception into a rejected result first, which exits with 2.
5. `DecreasingRejected` (`ActionLog`). The import compares timestamps as text, the
   cross-object rules as times: as text, `00:00:00.5Z` comes before `00:00:00Z`, so a log
   whose time decreases within a second is accepted.
6. `DigestGuardsInput` (`CanonicalText`). `docs/integrity-model.md:27` lists what is rejected
   before hashing. The canonical text does reject it, but a digest with an excluded field is
   taken of a clone, from which accessors, hidden properties and classes are gone. The
   callers in `src/` hand it parsed JSON, for which both agree (`ExcludesOnlyNamed`).
7. `ExcessRejected` (`StructuredFraming`). In the automatic mode an array with too many items
   on one line is refused as a document and then accepted as one line; the document says that
   excess records are rejected.
8. `CleanupEnds` (`ProcessProbe`). `docs/velociraptor-adapter-compatibility.md:506` says that
   cleanup waits are bounded. After a termination request the probe waits for the close event,
   which a descendant holding the pipes keeps back for as long as it lives.
9. `ExitPreserved` (`SyntheticLaunch`, `ConsoleHelper = FALSE`). The harness counts the Job's
   processes before it asks whether the root has exited; a root that exits in between is taken
   for its own descendant, and the case is reported as one with descendants. Without a
   console helper nothing else is in the Job.

## 7. Not modelled
* Text and bytes below the level of section 2: rendering and wording, byte encodings,
  digests (modelled by what they bind), checksums, inflation, number and date formats
  beyond the order of timestamps, JSON schemas.
* Windows access control, path and reparse checks: each may fail, nothing more. Running the
  controller by hand without `-CleanupOnSuccess`.
* The points inside `PrepareStarts`, between creating the workspace, its empty lock file and
  taking the lock. The identifier is new and printed only when preparation ends, so no other
  controller can name the workspace in between, and what a kill leaves there is never fresh.
* Maintenance models: schema validation of their input, byte limits, the status text and
  the frame and event counters of the protocol (a limit is one of its refusals). In the
  recovery model an interrupted control prefix stays blocked, as
  `docs/maintenance-recovery-model-v2.md` says; it is a state the model reaches and stops in.
* `SourceRead` assumes that every write in place moves the modification time. It covers
  file systems that report no identity.
* `CanonicalText` states `ExcludesOnlyNamed` of parsed documents, which are trees: in a value that
  shares objects the excluded field goes from each place the object stands in.
* `SyntheticLaunch` has no lag in the Job's accounting. The boundary harness beside it
  runs seven fixed scripts over the same Job, pipes and polling. `launch-plan.mjs` builds a plan that
  is always blocked.
* Consent, limit and projection rules of single objects in `application-rules.mjs`:
  each is one table lookup and a few comparisons.
* What the archive probe prints of each member and its check of one fixed result; the command lines of
  the probes, the sequential list of probes, and the decoding of OpenPGP packets, a
  conversion of bytes without state.
* The trust launch prototype: a preserved experiment which no command runs.
* The validation commands: sequential test drivers over fixed fixtures.

## 8. Plan
The models are complete as far as section 7 lets them be, and every safety invariant of the
runs but one is a theorem. What is left is the rest of `DigestIsOfTheValue`, for which
section 5 says what it would take.
