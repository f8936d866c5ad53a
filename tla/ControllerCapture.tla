-------------------------- MODULE ControllerCapture --------------------------
(***************************************************************************)
(* captureController of src/tools/lib/defender-control-executor.mjs:        *)
(* one owned child process, its two output pipes, a deadline, an abort     *)
(* signal, a grace period after kill(), and the one promise they settle.   *)
(* Every listener is an action; Node runs them one at a time, but kill()   *)
(* may emit 'error' synchronously, inside the listener that called stop(). *)
(***************************************************************************)
EXTENDS Integers

CONSTANTS
  Limit,      \* the stdout bound, in output units
  ErrLimit,   \* the stderr bound (4096 bytes), in output units
  MaxSent     \* bound on what the child writes to a pipe

ASSUME CaptureAssumption ==
  Limit \in Nat /\ ErrLimit \in Nat \ {0} /\ MaxSent \in Nat \ {0}

VARIABLES
  child,      \* "none", "running", "exited" or "failed" (it never started)
  status,     \* the exit status of the child, once it has one
  closed,     \* 'close' was emitted: exit and both pipe ends
  killed,     \* history: kill() was requested
  sent,       \* history: units of stdout and stderr the child wrote
  timer, grace, listening,   \* armed timers, the abort listener
  aborting,   \* signal.aborted
  flags, size,               \* the four failure flags, received units
  result      \* the value the promise settled with, NotSettled before

capVars == <<child, status, closed, killed, sent, timer, grace, listening, aborting, flags, size, result>>

Pipes == {"out", "err"}
Flags == {"overflow", "timedOut", "aborted", "ioError"}
NoStatus  == [code |-> -1, signal |-> FALSE]
Statuses  == {[code |-> c, signal |-> FALSE] : c \in {0, 1}} \cup {[code |-> -1, signal |-> TRUE]}
NotSettled == [closed |-> FALSE, status |-> NoStatus, flags |-> {"none"}, size |-> [p \in Pipes |-> 0]]
done == result # NotSettled

CapInit ==
  /\ child = "none" /\ status = NoStatus /\ closed = FALSE /\ killed = FALSE
  /\ sent = [p \in Pipes |-> 0] /\ size = [p \in Pipes |-> 0] /\ flags = {}
  /\ timer = FALSE /\ grace = FALSE /\ listening = FALSE /\ aborting = FALSE
  /\ result = NotSettled

-----------------------------------------------------------------------------
\* Plausible faults, used only to show that the properties can fail.
KillOnly(fl, sz) == killed' = TRUE /\ UNCHANGED <<grace, timer, listening, result>>
SilentOverflow(p, n) == {}
ErrorCloses(c)       == TRUE
-----------------------------------------------------------------------------

LimitOf(p) == IF p = "out" THEN Limit ELSE ErrLimit

\* finish(): the first call settles the promise and disarms everything.
Finish(c, s, fl, sz) ==
  IF done THEN UNCHANGED <<result, timer, grace, listening>>
  ELSE /\ result' = [closed |-> c, status |-> s, flags |-> fl, size |-> sz]
       /\ timer' = FALSE /\ grace' = FALSE /\ listening' = FALSE

\* kill() and what may follow at once: the grace timer, or a failing kill() whose
\* synchronous 'error' finishes first, and then no grace timer is armed.
KillChild(fl, sz) ==
  /\ killed' = TRUE
  /\ \/ grace' = TRUE /\ UNCHANGED <<timer, listening, result>>
     \/ Finish(FALSE, NoStatus, fl, sz)

\* stop(): at most once, with the flags and sizes the caller has just recorded.
Stop(fl, sz) ==
  /\ flags' = fl /\ size' = sz
  /\ IF done \/ grace THEN UNCHANGED <<killed, grace, timer, listening, result>>
                      ELSE KillChild(fl, sz)

\* The call: refused when already aborted, failing when spawn throws, else armed.
Spawn ==
  /\ child = "none" /\ ~done
  /\ UNCHANGED <<status, closed, sent, aborting>>
  /\ \/ /\ aborting
        /\ flags' = {"aborted"} /\ Finish(FALSE, NoStatus, {"aborted"}, size)
        /\ UNCHANGED <<child, killed, size>>
     \/ /\ ~aborting
        /\ Finish(FALSE, NoStatus, {}, size) /\ UNCHANGED <<child, killed, flags, size>>
     \/ /\ ~aborting /\ child' \in {"running", "failed"}
        /\ timer' = TRUE /\ listening' = TRUE
        /\ UNCHANGED <<killed, flags, size, grace, result>>

Listening == child # "none" /\ ~closed

OverflowFlags(p, n) == IF n > LimitOf(p) - size[p] THEN {"overflow"} ELSE {}

\* receive(): a chunk over the bound is dropped whole; any stderr byte stops the child.
Receive(p, n) ==
  /\ Listening /\ child # "failed" /\ sent[p] + n <= MaxSent
  /\ sent' = [sent EXCEPT ![p] = @ + n]
  /\ UNCHANGED <<child, status, closed, aborting>>
  /\ IF done THEN UNCHANGED <<flags, size, killed, timer, grace, listening, result>>
     ELSE IF n > LimitOf(p) - size[p]
     THEN Stop(flags \cup OverflowFlags(p, n), size)
     ELSE IF p = "err" THEN Stop(flags, [size EXCEPT ![p] = @ + n])
     ELSE size' = [size EXCEPT ![p] = @ + n]
          /\ UNCHANGED <<flags, killed, timer, grace, listening, result>>

StreamError ==
  /\ Listening
  /\ Stop(flags \cup {"ioError"}, size)
  /\ UNCHANGED <<child, status, closed, sent, aborting>>

\* Not the end of the child: only 'close' is.
ClosedOnError(c) == FALSE

\* 'error': the child could not be spawned, killed or messaged.
ChildError ==
  /\ Listening
  /\ Finish(ClosedOnError(child), NoStatus, flags, size)
  /\ UNCHANGED <<child, status, closed, killed, sent, aborting, flags, size>>

\* 'close': the process is gone and its pipes are at their end.
ChildClose ==
  /\ Listening /\ child \in {"exited", "failed"}
  /\ closed' = TRUE
  /\ Finish(TRUE, status, flags, size)
  /\ UNCHANGED <<child, status, killed, sent, aborting, flags, size>>

AbortEvent ==
  /\ ~aborting /\ aborting' = TRUE
  /\ IF listening THEN Stop(flags \cup {"aborted"}, size)
                  ELSE UNCHANGED <<flags, size, killed, timer, grace, listening, result>>
  /\ UNCHANGED <<child, status, closed, sent>>

Deadline ==
  /\ timer /\ ~("timedOut" \in flags)
  /\ Stop(flags \cup {"timedOut"}, size)
  /\ UNCHANGED <<child, status, closed, sent, aborting>>

GraceEnds ==
  /\ grace /\ Finish(FALSE, NoStatus, flags, size)
  /\ UNCHANGED <<child, status, closed, killed, sent, aborting, flags, size>>

\* The child process ends: by itself with a code, or by the requested kill.
ChildExits ==
  /\ child = "running" /\ child' = "exited"
  /\ status' \in {s \in Statuses : s.signal => killed}
  /\ UNCHANGED <<closed, killed, sent, timer, grace, listening, aborting, flags, size, result>>

Stopped == done /\ UNCHANGED capVars

CapNext ==
  \/ Spawn \/ StreamError \/ ChildError \/ ChildClose \/ AbortEvent \/ Deadline
  \/ GraceEnds \/ ChildExits \/ Stopped
  \/ \E p \in Pipes, n \in 1..MaxSent : Receive(p, n)

\* Timers fire and the call is made; the child and its pipes owe nothing.
CapSpec ==
  CapInit /\ [][CapNext]_capVars
    /\ WF_capVars(Spawn) /\ WF_capVars(Deadline) /\ WF_capVars(GraceEnds)

\* payload(): the transports the workflow accepts.
TransportAccepted(r, codes) ==
  /\ r.closed /\ r.flags = {} /\ ~r.status.signal /\ r.status.code \in codes
  /\ r.size["err"] = 0 /\ r.size["out"] <= Limit

-----------------------------------------------------------------------------
CapTypeOK ==
  /\ child \in {"none", "running", "exited", "failed"}
  /\ status \in Statuses \cup {NoStatus}
  /\ {closed, killed, timer, grace, listening, aborting} \subseteq BOOLEAN
  /\ flags \subseteq Flags
  /\ sent \in [Pipes -> 0..MaxSent] /\ size \in [Pipes -> 0..MaxSent]
  /\ size["out"] <= Limit /\ size["err"] <= ErrLimit

\* A transport the workflow accepts comes from a child that ended by itself and was
\* never asked to stop, and carries every unit it wrote: no race of a kill with a
\* normal exit, of a late chunk with a bound or of two failures looks like success.
AcceptedIsWhole ==
  done /\ TransportAccepted(result, {0, 1}) =>
    child = "exited" /\ ~killed /\ result.size = sent

\* "Only 'close' establishes child closure": closed is never reported of a child that
\* may still be running.
ClosedIsReal == done /\ result.closed => closed /\ child # "running"

\* When the promise has settled no timer and no abort listener is left behind to keep
\* the owner alive or to act on a later child.
NothingLeftArmed == done => ~timer /\ ~grace /\ ~listening

\* The promise settles once; a later 'close', 'error' or timer changes nothing.
SettlesOnce == [][done => result' = result]_capVars

\* The promise settles although the child may never exit, close or obey kill().
AlwaysSettles == <>done

\* A settled capture is over: its verdict on the child is true and nothing stays armed.
SettledIsOver == CapTypeOK /\ ClosedIsReal /\ NothingLeftArmed

\* The promise settles, exactly once, whatever the child does.
CaptureSettles == SettlesOnce /\ AlwaysSettles
=============================================================================
