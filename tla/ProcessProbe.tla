------------------------------ MODULE ProcessProbe ------------------------------
(***************************************************************************)
(* The bounded process probe (src/tools/compatibility/process-probe.mjs):  *)
(* one child under byte limits, a timeout and a cancellation, a taskkill    *)
(* of its tree, and an observer process (observe-network.ps1) coordinated  *)
(* through two files.  One action is one event of the probe's loop with    *)
(* the microtasks that follow it, or one step of another process.          *)
(* Bytes are counted, hashes and the fields copied from options left out.  *)
(***************************************************************************)
EXTENDS Naturals, FiniteSets

CONSTANTS
  Limit,        \* --stdout-limit-bytes and --stderr-limit-bytes
  MaxBytes,     \* bound on what the child writes to a stream
  Cancels,      \* --mode cancel
  Descendants   \* whether the child may start processes of its own

Streams == {"stdout", "stderr"}
Exceeded == [stdout |-> "StdoutLimitExceeded", stderr |-> "StderrLimitExceeded"]
Reasons == {"none", "TimedOut", "ExplicitCancellation", "PidCoordinationFailed"} \cup {Exceeded[s] : s \in Streams}

VARIABLES
  child,     \* none, running, doomed (killed, not gone), exited, or failed to start
  kin,       \* a descendant still holds the pipes
  sent,      \* bytes written by child and descendant, by stream
  seen,      \* bytes observed by the probe
  kept,      \* bytes retained by the probe
  reason,    \* terminationReason
  direct,    \* what child.kill() said: none, accepted, gone, or the error it emitted
  taskkill,  \* none, running, done
  timers,    \* armed timers
  ended,     \* closePromise: pending, or the event that resolved it
  main,      \* where main waits
  pid,       \* the pid file: absent, empty, whole, failed
  stop,      \* the stop file exists
  observer   \* waiting, watching, wrote, crashed, killed
vars == <<child, kin, sent, seen, kept, reason, direct, taskkill, timers, ended, main, pid, stop, observer>>
streams == <<sent, seen, kept>>
ending  == <<reason, direct, taskkill, ended, main, timers>>

TypeOK ==
  /\ child \in {"none", "running", "doomed", "exited", "failed"} /\ kin \in BOOLEAN
  /\ sent \in [Streams -> 0..MaxBytes] /\ seen \in [Streams -> 0..MaxBytes] /\ kept \in [Streams -> 0..Limit]
  /\ reason \in Reasons /\ direct \in {"none", "accepted", "gone", "error"} /\ taskkill \in {"none", "running", "done"}
  /\ timers \subseteq {"TimedOut", "ExplicitCancellation"} /\ ended \in {"pending", "close", "error"}
  /\ main \in {"waiting", "taskkill", "stopping", "observer", "summary", "done", "crashed"}
  /\ pid \in {"absent", "empty", "whole", "failed"} /\ stop \in BOOLEAN
  /\ observer \in {"waiting", "watching", "wrote", "crashed", "killed"}

Init ==
  /\ child = "none" /\ kin = FALSE /\ sent = [s \in Streams |-> 0] /\ seen = sent /\ kept = sent
  /\ reason = "none" /\ direct = "none" /\ taskkill = "none" /\ ended = "pending" /\ main = "waiting"
  /\ timers = {"TimedOut"} \cup (IF Cancels THEN {"ExplicitCancellation"} ELSE {})
  /\ pid = "absent" /\ stop = FALSE /\ observer = "waiting"

Running   == main \notin {"done", "crashed"}
Alive     == child \in {"running", "doomed"}
Least(a, b) == IF a < b THEN a ELSE b

-----------------------------------------------------------------------------
\* A plausible fault, used only to show that a property can fail.
WhenExited == child = "exited"
-----------------------------------------------------------------------------
(* The end of the child as the probe sees it                               *)

\* Where main goes on when closePromise resolves: a taskkill in progress is awaited.
AfterEnd(kill) == IF kill = "running" THEN "taskkill" ELSE "stopping"

\* Resolving clears both timers before anything else can run.
Resolve(event, kill) ==
  IF ended = "pending" THEN ended' = event /\ main' = AfterEnd(kill) /\ timers' = {}
  ELSE UNCHANGED <<ended, main, timers>>

\* requestTermination: the first reason only; kill, then taskkill of the whole tree.
Request(r, armed) ==
  IF reason # "none" THEN timers' = armed /\ UNCHANGED <<child, reason, direct, taskkill, ended, main>>
  ELSE /\ reason' = r /\ taskkill' = "running"
       /\ \/ Alive /\ child' = "doomed" /\ direct' = "accepted" /\ timers' = armed /\ UNCHANGED <<ended, main>>
          \/ child = "exited" /\ direct' = "gone" /\ timers' = armed /\ UNCHANGED <<child, ended, main>>
          \* kill() emits an error, which resolves closePromise while the child runs.
          \/ child = "running" /\ direct' = "error" /\ Resolve("error", "running") /\ UNCHANGED child

SpawnEvent ==
  /\ child = "none" /\ Running /\ child' = "running"
  /\ UNCHANGED <<kin, streams, ending, pid, stop, observer>>
SpawnFails ==
  /\ child = "none" /\ Running /\ child' = "failed" /\ Resolve("error", taskkill)
  /\ UNCHANGED <<kin, streams, reason, direct, taskkill, pid, stop, observer>>

PidFile ==
  /\ child \notin {"none", "failed"} /\ Running
  /\ \/ /\ pid = "absent" /\ pid' = "empty" /\ UNCHANGED <<child, ending>>
     \/ /\ pid = "empty" /\ pid' = "whole" /\ UNCHANGED <<child, ending>>
     \/ /\ pid \in {"absent", "empty"} /\ pid' = "failed" /\ Request("PidCoordinationFailed", timers)
  /\ UNCHANGED <<kin, streams, stop, observer>>

Retained(s, n) == Least(kept[s] + n, Limit)
Over(s, n)     == seen[s] + n > Limit
Data ==
  \E s \in Streams : \E n \in 1..(sent[s] - seen[s]) :
    /\ Running /\ ended # "close"
    /\ seen' = [seen EXCEPT ![s] = @ + n] /\ kept' = [kept EXCEPT ![s] = Retained(s, n)]
    /\ IF Over(s, n) THEN Request(Exceeded[s], timers) ELSE UNCHANGED <<child, ending>>
    /\ UNCHANGED <<kin, sent, pid, stop, observer>>

Timer ==
  \E r \in timers :
    /\ child # "none" /\ Running /\ Request(r, timers \ {r})
    /\ UNCHANGED <<kin, streams, pid, stop, observer>>

\* Both pipes have ended: the child is gone, nobody else holds them, and all was read.
Finished == child = "exited" /\ ~kin /\ seen = sent
CloseEvent ==
  /\ Running /\ ended = "pending" /\ Finished /\ Resolve("close", taskkill)
  /\ UNCHANGED <<child, kin, streams, reason, direct, taskkill, pid, stop, observer>>

-----------------------------------------------------------------------------
(* terminateProcessTree and the end of main                                *)

\* taskkill finds the tree only from a child that still exists; it may fail or be given up.
TaskkillEnds ==
  /\ taskkill = "running" /\ Running /\ taskkill' = "done"
  /\ \/ Alive /\ child' = "doomed" /\ kin' = FALSE
     \/ UNCHANGED <<child, kin>>
  /\ main' = (IF main = "taskkill" THEN "stopping" ELSE main)
  /\ UNCHANGED <<streams, reason, direct, ended, timers, pid, stop, observer>>

WriteStop ==
  /\ main = "stopping" /\ main' = "observer" /\ stop' \in BOOLEAN
  /\ UNCHANGED <<child, kin, streams, reason, direct, taskkill, ended, timers, pid, observer>>

KillObserver == main = "observer" /\ main' = "summary" /\ observer' = "killed"
ObserverDone ==
  /\ \/ main = "observer" /\ observer \in {"wrote", "crashed"} /\ main' = "summary" /\ UNCHANGED observer
     \/ KillObserver
  /\ UNCHANGED <<child, kin, streams, reason, direct, taskkill, ended, timers, pid, stop>>

\* The retained output and the summary are written and the executable is hashed again;
\* when one of these fails, main is rejected and leaves no summary.
Summarize ==
  /\ main = "summary" /\ main' \in {"done", "crashed"}
  /\ UNCHANGED <<child, kin, streams, reason, direct, taskkill, ended, timers, pid, stop, observer>>

-----------------------------------------------------------------------------
(* Other processes                                                         *)

Write ==
  \E s \in Streams :
    /\ (Alive \/ kin) /\ sent[s] < MaxBytes /\ sent' = [sent EXCEPT ![s] = @ + 1]
    /\ UNCHANGED <<child, kin, seen, kept, ending, pid, stop, observer>>
Fork      == Descendants /\ child = "running" /\ ~kin /\ kin' = TRUE /\ UNCHANGED <<child, streams, ending, pid, stop, observer>>
Exit      == Alive /\ child' = "exited" /\ UNCHANGED <<kin, streams, ending, pid, stop, observer>>
KinExits  == kin /\ kin' = FALSE /\ UNCHANGED <<child, streams, ending, pid, stop, observer>>

\* The observer reads a pid file that exists and stops on the text of an empty one.
Observe ==
  /\ \/ observer = "waiting" /\ pid = "whole" /\ observer' = "watching"
     \/ observer = "waiting" /\ pid = "empty" /\ observer' = "crashed"
     \/ observer \in {"waiting", "watching"} /\ observer' = "wrote"
  /\ UNCHANGED <<child, kin, streams, ending, pid, stop>>

\* The observer cannot be started: nobody listens for that error and the probe dies, its child may not.
ObserverFails ==
  /\ observer = "waiting" /\ child = "none" /\ Running /\ main' = "crashed" /\ timers' = {}
  /\ child' \in {"running", "failed"} /\ UNCHANGED <<kin, streams, reason, direct, taskkill, ended, pid, stop, observer>>

Probe == SpawnEvent \/ SpawnFails \/ PidFile \/ Data \/ Timer \/ CloseEvent \/ TaskkillEnds \/ WriteStop \/ ObserverDone \/ Summarize
Next  == Probe \/ Write \/ Fork \/ Exit \/ KinExits \/ Observe \/ ObserverFails

\* The loop delivers what is due, timers fire, the operating system ends what it
\* accepted to kill, and taskkill is given up after five seconds.  Nothing is assumed
\* of the child, its descendants or the observer.
Fairness ==
  /\ WF_vars(SpawnEvent \/ SpawnFails) /\ WF_vars(Data) /\ WF_vars(Timer) /\ WF_vars(CloseEvent) /\ WF_vars(TaskkillEnds)
  /\ WF_vars(WriteStop) /\ WF_vars(ObserverDone) /\ WF_vars(Summarize) /\ WF_vars(child = "doomed" /\ Exit)
Spec == Init /\ [][Next]_vars /\ Fairness

-----------------------------------------------------------------------------
(* Properties                                                              *)

\* What the summary says of the child is true: a probe that saw it close saw all it
\* wrote, and one that says it was not spawned says so of a child that never ran, unless
\* the error came from killing it.
SummaryIsTrue ==
  main = "done" =>
    /\ ended = "close" => child = "exited" /\ ~kin /\ seen = sent
    /\ ended = "error" => child = "failed" \/ direct = "error"

\* A stream over its limit has a termination to show for it, which names a stream that
\* is over its limit when it names one, and what is retained is the whole or the first
\* Limit bytes.
LimitsExplained ==
  /\ \A s \in Streams : kept[s] = Least(seen[s], Limit)
  /\ main = "done" =>
       /\ \A s \in Streams : seen[s] > Limit => reason # "none"
       /\ \A s \in Streams : reason = Exceeded[s] => seen[s] > Limit

\* A termination requested before the child closed is complete when main goes on: its
\* taskkill ended and is what the summary reports.  Only a pid file that fails after
\* the close asks for a termination nobody awaits.
TerminationIsComplete ==
  main \in {"stopping", "observer", "summary", "done"} /\ reason \notin {"none", "PidCoordinationFailed"} =>
    taskkill = "done"

\* A child without descendants never keeps the probe waiting, whatever it, taskkill and
\* the observer do.
Ends == <>(main \in {"done", "crashed"})

\* docs/velociraptor-adapter-compatibility.md:506 says of the final harness: "cleanup
\* waits are bounded".  The wait for the close event is not.
CleanupEnds == reason # "none" ~> main \in {"done", "crashed"}
=============================================================================
