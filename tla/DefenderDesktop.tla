--------------------------- MODULE DefenderDesktop ---------------------------
(***************************************************************************)
(* The desktop front end of the check: the WinForms window                 *)
(* (Show-DefenderWindow.ps1), the owner process (secapp.mjs), the state    *)
(* machine between them (defender-desktop-session.mjs) and the two pipes,  *)
(* around the workflow of DefenderFlow with a fake executor: preparation,  *)
(* run and discard settle with any outcome.                                *)
(*                                                                         *)
(* An owner action is one event-loop callback with the microtasks it       *)
(* settles; a window action is one UI callback.  The only microtask that   *)
(* other work can precede is the continuation of an answered prompt: the   *)
(* reader hands over the rest of its chunk first, so "answer" holds the    *)
(* value the promise was resolved with until the workflow resumes.         *)
(***************************************************************************)
EXTENDS DefenderFlow, Sequences

CONSTANTS
  Unresolved,   \* the prompt promise has no value the workflow has not seen
  EmitMayFail,  \* whether emit may throw, or overflow and disconnect, inside publish
  MaxClicks     \* bound on the commands the user makes the window send

ASSUME DesktopAssumption ==
  /\ Unresolved \notin Answers \cup {NoAnswer}
  /\ EmitMayFail \in BOOLEAN /\ MaxClicks \in Nat

VARIABLES
  state, connected, prompting, answer, code,    \* the session
  broken, ended, ownerExit,                     \* the owner process
  toOwner, toWindow,                            \* the pipes
  wstate, wcode, controls, closing, windowOpen, \* the window
  clicks, answered                              \* bound; history of answers sent

session == <<state, connected, prompting, answer, code>>
owner   == <<broken, ended, ownerExit>>
window  == <<wstate, wcode, controls, closing, windowOpen, clicks, answered>>
vars    == <<flowVars, session, owner, toOwner, toWindow, window>>

Resolved == answer # Unresolved
Row(s, c) == [state |-> s, code |-> c]
NoCode == Unsettled

Init ==
  /\ FlowInit
  /\ state = "Connecting" /\ connected = TRUE /\ prompting = FALSE
  /\ answer = Unresolved /\ code = NoCode
  /\ broken = FALSE /\ ended = FALSE /\ ownerExit = NoCode
  /\ toOwner = << <<"ready">> >> /\ toWindow = <<>>
  /\ wstate = "Connecting" /\ wcode = NoCode /\ controls = {} /\ closing = FALSE
  /\ windowOpen = TRUE /\ clicks = 0 /\ answered = <<>>

-----------------------------------------------------------------------------
(* The session                                                             *)

\* Messages repeated without a change of state or code are kept only where the
\* window reacts to the repetition (AwaitingConfirmation).  A failing emit is a
\* disconnect: its nested finishPrompt finds no prompt, because every publish
\* happens before a prompt exists or after it was taken.
Publish(rows) ==
  \E n \in 0..Len(rows) :
    /\ n = Len(rows) \/ ~connected \/ EmitMayFail
    /\ toWindow' = IF connected THEN toWindow \o SubSeq(rows, 1, n) ELSE toWindow
    /\ connected' = (connected /\ n = Len(rows))
    /\ broken' = (broken \/ (connected /\ n < Len(rows)))

\* Plausible faults, used only to show that the properties can fail.
PromptIsLost(a)          == prompting' = FALSE /\ answer' = answer /\ state' = "Submitting"
ExitsEarly(p)            == TRUE
-----------------------------------------------------------------------------
\* finishPrompt: take the prompt, show Submitting, then resolve.
FinishPrompt(a) == prompting' = FALSE /\ answer' = a /\ state' = "Submitting"

FinalState(c) == IF c = 1 THEN "Failed" ELSE "Finished"

\* The .then of start(): code, final state, last message.
ShowSettled ==
  /\ code' = exit' /\ state' = FinalState(exit')
  /\ Publish(<<Row(state', exit')>>)

TakesAnswer(s, open) == s = "AwaitingConfirmation" /\ open

OwnerCommand ==
  LET c == Head(toOwner)
  IN  /\ toOwner # <<>> /\ ~ended
      /\ toOwner' = Tail(toOwner)
      /\ UNCHANGED <<window, ended, ownerExit>>
      /\ \/ /\ connected /\ c[1] = "ready" /\ state = "Connecting"
            /\ state' = "Ready" /\ Publish(<<Row("Ready", NoCode)>>)
            /\ UNCHANGED <<flowVars, prompting, answer, code>>
         \/ /\ connected /\ c[1] = "prepare" /\ state = "Ready"
            /\ Begin(TRUE)
            /\ state' = "Preparing" /\ Publish(<<Row("Preparing", NoCode)>>)
            /\ UNCHANGED <<prompting, answer, code>>
         \/ /\ connected /\ c[1] = "answer" /\ TakesAnswer(state, prompting)
            /\ FinishPrompt(c[2]) /\ Publish(<<Row("Submitting", NoCode)>>)
            /\ UNCHANGED <<flowVars, code>>
         \/ /\ \/ ~connected
               \/ c[1] = "ready" /\ state # "Connecting"
               \/ c[1] = "prepare" /\ state # "Ready"
               \/ c[1] = "answer" /\ ~TakesAnswer(state, prompting)
            /\ UNCHANGED <<flowVars, session, broken, toWindow>>

\* disconnect(): the channel is gone; an open prompt is answered with null.
Disconnect ==
  /\ connected' = FALSE
  /\ IF prompting THEN FinishPrompt(NoAnswer) ELSE UNCHANGED <<state, prompting, answer>>

\* The 120 s consent timer.
PromptExpires ==
  /\ prompting /\ ~Resolved
  /\ FinishPrompt(NoAnswer) /\ Publish(<<Row("Submitting", NoCode)>>)
  /\ UNCHANGED <<flowVars, code, ended, ownerExit, toOwner, window>>

\* io.prepare settles.  A prompt opened on a lost channel is answered at once.
PrepareEnds(ok) ==
  /\ ~Resolved
  /\ Prepared(ok, TRUE)
  /\ IF ok
     THEN /\ Publish([i \in 1..2 |-> Row("AwaitingConfirmation", NoCode)])
          /\ code' = code
          /\ IF connected'
             THEN state' = "AwaitingConfirmation" /\ prompting' = TRUE /\ answer' = answer
             ELSE FinishPrompt(NoAnswer)
     ELSE ShowSettled /\ UNCHANGED <<prompting, answer>>
  /\ UNCHANGED <<ended, ownerExit, toOwner, window>>

\* The workflow resumes from the answered prompt.
Resume ==
  /\ Resolved
  /\ \/ Decline(answer) /\ state' = "Discarding" /\ Publish(<<Row("Discarding", NoCode)>>)
     \/ Accept(answer, TRUE) /\ state' = "Running" /\ Publish(<<Row("Running", NoCode)>>)
  /\ answer' = Unresolved
  /\ UNCHANGED <<prompting, code, ended, ownerExit, toOwner, window>>

DiscardEnds(ok) ==
  /\ ~Resolved
  /\ Discarded(ok, TRUE) /\ ShowSettled
  /\ UNCHANGED <<prompting, answer, ended, ownerExit, toOwner, window>>

RunEnds(outcome) ==
  /\ ~Resolved
  /\ RunEnded(outcome, TRUE) /\ ShowSettled
  /\ UNCHANGED <<prompting, answer, ended, ownerExit, toOwner, window>>

-----------------------------------------------------------------------------
(* The owner process                                                       *)

\* A stream error, text on the window's stderr, a signal: disconnect() closes the
\* window's input, and what the pipe had not delivered may be lost.
ChannelFails ==
  /\ ~broken /\ ~ended /\ ~Resolved
  /\ broken' = TRUE
  /\ Disconnect
  /\ \E n \in 0..Len(toWindow) : toWindow' = SubSeq(toWindow, 1, n)
  /\ UNCHANGED <<flowVars, code, ended, ownerExit, toOwner, window>>

ExitOf(was, c) == IF was THEN 1 ELSE IF c = NoCode THEN 0 ELSE c

OwnerMayExit(p) == p \in {"idle", "settled"}

\* 'close' of the window process, once its output is read to the end.
WindowClosed ==
  /\ ~windowOpen /\ toOwner = <<>> /\ ~ended /\ ~Resolved
  /\ ended' = TRUE
  /\ Disconnect
  /\ UNCHANGED <<flowVars, code, broken, ownerExit, toOwner, toWindow, window>>

\* await session.settled(), then the exit code of the whole command.
OwnerExits ==
  /\ ended /\ ownerExit = NoCode /\ OwnerMayExit(pc)
  /\ ownerExit' = ExitOf(broken \/ wstate = "Crashed", code)
  /\ UNCHANGED <<flowVars, session, broken, ended, toOwner, toWindow, window>>

-----------------------------------------------------------------------------
(* The window                                                              *)

ControlsOf(s) ==
  CASE s = "Ready"                -> {"primary"}
    [] s = "AwaitingConfirmation" -> {"primary", "cancel"}
    [] OTHER                      -> {}

ClosesFreely(s) == s \in {"Ready", "Finished", "Failed", "Connecting"}

Send(c) == toOwner' = Append(toOwner, c)
Click   == windowOpen /\ clicks < MaxClicks /\ clicks' = clicks + 1

\* Apply-State for one line of the pipe.
WindowReads ==
  /\ windowOpen /\ toWindow # <<>> /\ wstate # "Lost"
  /\ wstate' = Head(toWindow).state /\ wcode' = Head(toWindow).code
  /\ toWindow' = Tail(toWindow)
  /\ controls' = ControlsOf(wstate')
  /\ windowOpen' = ~(closing /\ wstate' = "Finished" /\ wcode' = 3)
  /\ UNCHANGED <<flowVars, session, owner, toOwner, closing, clicks, answered>>

\* End of input: Show-Failure.  "Lost" is the window's Failed after Show-Failure,
\* where the reading timer is stopped.
WindowLosesOwner ==
  /\ windowOpen /\ toWindow = <<>> /\ broken /\ wstate # "Lost"
  /\ wstate' = "Lost" /\ wcode' = NoCode /\ controls' = {}
  /\ UNCHANGED <<flowVars, session, owner, toOwner, toWindow, closing, windowOpen, clicks, answered>>

ClickPrimary ==
  /\ Click /\ "primary" \in controls
  /\ \/ /\ wstate = "Ready" /\ controls' = controls \ {"primary"}
        /\ Send(<<"prepare">>) /\ UNCHANGED answered
     \/ /\ wstate = "AwaitingConfirmation" /\ controls' = {}
        /\ \E a \in Answers : Send(<<"answer", a>>) /\ answered' = Append(answered, a)
  /\ UNCHANGED <<flowVars, session, owner, toWindow, wstate, wcode, closing, windowOpen>>

ClickCancel ==
  /\ Click /\ "cancel" \in controls
  /\ controls' = controls \ {"primary", "cancel"}
  /\ Send(<<"answer", NoAnswer>>) /\ answered' = Append(answered, NoAnswer)
  /\ UNCHANGED <<flowVars, session, owner, toWindow, wstate, wcode, closing, windowOpen>>

\* FormClosing: free, turned into a cancel, or refused with a message box.
CloseWindow ==
  /\ Click
  /\ \/ /\ ClosesFreely(wstate) \/ wstate = "Lost"
        /\ windowOpen' = FALSE /\ UNCHANGED <<closing, toOwner, answered>>
     \/ /\ wstate = "AwaitingConfirmation" /\ ~ClosesFreely(wstate)
        /\ closing' = TRUE
        /\ Send(<<"answer", NoAnswer>>) /\ answered' = Append(answered, NoAnswer)
        /\ UNCHANGED windowOpen
  /\ UNCHANGED <<flowVars, session, owner, toWindow, wstate, wcode, controls>>

\* The window process dies, with a code other than 0.
WindowCrashes ==
  /\ windowOpen /\ windowOpen' = FALSE /\ wstate' = "Crashed"
  /\ UNCHANGED <<flowVars, session, owner, toOwner, toWindow, wcode, controls, closing, clicks, answered>>

-----------------------------------------------------------------------------
Executor ==
  \/ \E ok \in BOOLEAN : PrepareEnds(ok) \/ DiscardEnds(ok)
  \/ \E o \in RunOutcomes : RunEnds(o)

OwnerStep  == OwnerCommand \/ Resume \/ WindowClosed \/ OwnerExits
WindowStep == WindowReads \/ WindowLosesOwner
User       == ClickPrimary \/ ClickCancel \/ CloseWindow

Next ==
  \/ OwnerStep \/ Executor \/ PromptExpires \/ ChannelFails
  \/ WindowStep \/ User \/ WindowCrashes

\* The event loops run, every executor promise settles (ControllerCapture shows
\* why) and the consent timer fires.  Users, crashes and channel failures owe nothing.
Fairness ==
  /\ WF_vars(OwnerStep) /\ WF_vars(Executor) /\ WF_vars(PromptExpires) /\ WF_vars(WindowStep)

Spec == Init /\ [][Next]_vars /\ Fairness

-----------------------------------------------------------------------------
States == {"Connecting", "Ready", "Preparing", "AwaitingConfirmation", "Submitting",
           "Running", "Discarding", "Finished", "Failed"}
Commands == {<<"ready">>, <<"prepare">>} \cup ({"answer"} \X (Answers \cup {NoAnswer}))
Codes == {0, 1, 2, 3, NoCode}

TypeOK ==
  /\ pc \in {"idle", "preparing", "prompting", "discarding", "rescuing", "running", "settled"}
  /\ {build, runStarted, discardAttempted, connected, prompting, broken, ended,
      closing, windowOpen} \subseteq BOOLEAN
  /\ exit \in Codes /\ code \in Codes /\ ownerExit \in Codes /\ wcode \in Codes
  /\ calls \in [Operations -> Nat]
  /\ state \in States /\ answer \in Answers \cup {NoAnswer, Unresolved}
  /\ toOwner \in Seq(Commands) /\ toWindow \in Seq([state : States, code : Codes])
  /\ wstate \in States \cup {"Lost", "Crashed"} /\ controls \subseteq {"primary", "cancel"}
  /\ clicks \in 0..MaxClicks /\ answered \in Seq(Answers \cup {NoAnswer})

\* Whatever the user clicks, however often and however late, the elevated run is
\* requested only if the very first answer the window ever sent was the phrase:
\* an answer is used once, and a later one is never kept for a later prompt.
FirstAnswerDecides == calls["run"] > 0 => answered # <<>> /\ answered[1] = Phrase

\* One window prepares at most once, and afterwards either runs or discards, once:
\* no path through the catch block repeats a discard or discards what was started.
OneEffect == calls["prepare"] <= 1 /\ calls["run"] + calls["discard"] <= 1

\* The exit code of the command: 0 is promised only if nothing was ever prepared or
\* the run gave a useful reading with its data removed; 3 only after a discard, 2 or
\* 3 never on a broken channel.
ExitCodeIsTrue ==
  /\ ownerExit = 0 => calls["prepare"] = 0 \/ exit = 0
  /\ ownerExit = 3 => calls["discard"] = 1 /\ calls["run"] = 0
  /\ ownerExit \notin {1, NoCode} => ~broken /\ wstate # "Crashed"

\* What the window shows as its outcome is the settled workflow's own exit code, and
\* a failure is never displayed as a finished check.
WindowShowsOutcome ==
  /\ wstate = "Finished" => pc = "settled" /\ wcode = exit /\ exit # 1
  /\ wstate = "Failed"   => pc = "settled" /\ exit = 1

\* Once the channel to the window is lost before the run, the run never starts: the
\* preparation is finished and discarded (the comment in disconnect()).
LostWindowNeverRuns == [][~connected /\ ~runStarted => ~runStarted']_vars

\* "Closing during preparation/run/discard is deferred in the UI": the user never
\* closes the window while the owner is in one of these stages.
CloseIsDeferred ==
  [][(windowOpen /\ ~windowOpen' /\ clicks' # clicks)
       => pc \notin {"preparing", "running", "discarding"}]_vars

\* When the window is gone the owner still finishes what was begun and exits.
OwnerSettles == ~windowOpen ~> ownerExit # NoCode

\* A user who closes the window at the prompt is not left with a window that refuses
\* to close: it closes by itself or reaches a state where closing is free.
CloseRequestEnds ==
  closing ~> (~windowOpen \/ wstate \in {"Finished", "Failed", "Lost"})

\* Consent: one effect at most, and the elevated run only on the first answer given.
ConsentDecides == TypeOK /\ FirstAnswerDecides /\ OneEffect

\* The two outcomes a user can see, the exit code of the command and the text of the
\* window, are both the outcome of the workflow.
OutcomeIsTrue == ExitCodeIsTrue /\ WindowShowsOutcome

\* Neither side waits for the other for ever, whichever of them has gone.
EveryoneEnds == OwnerSettles /\ CloseRequestEnds
=============================================================================
