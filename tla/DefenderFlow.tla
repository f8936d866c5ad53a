---------------------------- MODULE DefenderFlow ----------------------------
(***************************************************************************)
(* The single-operation workflow shared by the terminal command and the    *)
(* desktop owner: runDefenderCheckSession of                               *)
(* src/src/backend/defender-interactive-flow.mjs.                          *)
(*                                                                         *)
(* The workflow is one asynchronous function.  An action is everything it  *)
(* does between two awaits, the synchronous run of its catch block         *)
(* included.  What the front end and the executor answer is a parameter of *)
(* the action, so a composing module can supply the real answer.           *)
(***************************************************************************)
EXTENDS Naturals

CONSTANTS Answers,   \* the texts a user may type
          Phrase,    \* defenderConfirmation(build), the one-use phrase
          NoAnswer   \* null: cancelled, expired, closed or disconnected

ASSUME AnswersAssumption == Phrase \in Answers /\ NoAnswer \notin Answers

VARIABLES
  pc,                \* the await the workflow is suspended in
  build,             \* the decoded build receipt is held
  runStarted,        \* no later path may retry or discard as unstarted
  discardAttempted,  \* a discard is never repeated
  exit,              \* the promised exit code, Unsettled before
  calls              \* history: how often each executor operation was invoked

flowVars == <<pc, build, runStarted, discardAttempted, exit, calls>>

Operations == {"prepare", "run", "discard"}
Unsettled  == 99
\* What decodeDefenderRunEnvelope makes of the transport of io.run: a complete
\* reading whose data files were removed or kept, an incomplete one, or a throw.
RunOutcomes == {"Useful", "NotTested", "Kept", "Rejected"}

Call(op) == calls' = [calls EXCEPT ![op] = @ + 1]
Settle(code) == pc' = "settled" /\ exit' = code

FlowInit ==
  /\ pc = "idle" /\ build = FALSE /\ exit = Unsettled
  /\ runStarted = FALSE /\ discardAttempted = FALSE
  /\ calls = [op \in Operations |-> 0]

-----------------------------------------------------------------------------
\* Plausible faults of the code, used only to show that the properties can fail.
RescueAlways(b, started, tried) == b /\ ~tried
RescueTwice(b, started, tried)  == b /\ ~started
NullConfirms(a)                 == a \in {Phrase, NoAnswer}
KeptIsSuccess(outcome)          == IF outcome = "NotTested" THEN 2 ELSE 0
-----------------------------------------------------------------------------

\* The catch block discards only what was prepared, not started, not yet tried.
MayRescue(b, started, tried) == b /\ ~started /\ ~tried

Confirms(a) == a = Phrase

Catch(b, started, tried) ==
  IF MayRescue(b, started, tried)
  THEN /\ discardAttempted' = TRUE /\ pc' = "rescuing"
       /\ Call("discard") /\ exit' = exit
  ELSE Settle(1) /\ UNCHANGED <<discardAttempted, calls>>

\* phase("Preparing"), the first text, and the call of io.prepare.
Begin(said) ==
  /\ pc = "idle"
  /\ IF said
     THEN pc' = "preparing" /\ Call("prepare") /\ UNCHANGED <<exit, discardAttempted>>
     ELSE Catch(build, runStarted, discardAttempted)
  /\ UNCHANGED <<build, runStarted>>

\* io.prepare settled: the receipt decodes or throws, the offer is shown or throws.
Prepared(decoded, said) ==
  /\ pc = "preparing"
  /\ build' = decoded
  /\ IF decoded /\ said
     THEN pc' = "prompting" /\ UNCHANGED <<exit, discardAttempted, calls>>
     ELSE Catch(decoded, runStarted, discardAttempted)
  /\ UNCHANGED runStarted

\* io.prompt settled with an answer that is not the phrase.
Decline(a) ==
  /\ pc = "prompting" /\ ~Confirms(a)
  /\ discardAttempted' = TRUE /\ pc' = "discarding" /\ Call("discard")
  /\ UNCHANGED <<build, runStarted, exit>>

\* io.prompt settled with the phrase: runStarted is set before anything can throw.
Accept(a, said) ==
  /\ pc = "prompting" /\ Confirms(a)
  /\ runStarted' = TRUE
  /\ IF said
     THEN pc' = "running" /\ Call("run") /\ UNCHANGED <<exit, discardAttempted>>
     ELSE Catch(build, TRUE, discardAttempted)
  /\ UNCHANGED build

\* io.discard settled.  The rescue swallows every outcome and still exits 1.
Discarded(accepted, said) ==
  /\ \/ /\ pc = "discarding"
        /\ IF accepted /\ said
           THEN Settle(3) /\ UNCHANGED <<discardAttempted, calls>>
           ELSE Catch(build, runStarted, discardAttempted)
     \/ /\ pc = "rescuing"
        /\ Settle(1) /\ UNCHANGED <<discardAttempted, calls>>
  /\ UNCHANGED <<build, runStarted>>

RunExit(outcome) ==
  CASE outcome = "NotTested" -> 2
    [] outcome = "Useful"    -> 0
    [] OTHER                 -> 1

\* io.run settled: decode, report, text, cleanup notice; any throw goes to catch.
RunEnded(outcome, said) ==
  /\ pc = "running"
  /\ IF outcome # "Rejected" /\ said
     THEN Settle(RunExit(outcome)) /\ UNCHANGED <<discardAttempted, calls>>
     ELSE Catch(build, runStarted, discardAttempted)
  /\ UNCHANGED <<build, runStarted>>

=============================================================================
