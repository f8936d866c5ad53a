---------------------------- MODULE SupervisionProofs ----------------------------
(***************************************************************************)
(* What the launch harness and the process probe report of their children  *)
(* is what happened, for any limits, pipes and byte counts.                *)
(*                                                                         *)
(* ProbeInv is the inductive invariant of the probe: what ended says of    *)
(* the child, what reason says of the streams.  LaunchInv is that of the   *)
(* harness.  A child has the end of its own script still to do, or it      *)
(* refused; so what a pipe holds, and later the supervisor's buffer, is    *)
(* evidence of how far each child has come.  A step of the children keeps  *)
(* what the supervisor relies on (ChildEffect): nobody reopens a closed    *)
(* stream, returns from an exit or starts in an empty Job.  Then the       *)
(* supervisor's calls are taken one by one.                                *)
(***************************************************************************)
EXTENDS MCSupervision, FiniteSetTheorems, SequenceTheorems, TLAPS

-----------------------------------------------------------------------------
(* The probe                                                               *)

\* What a summary reports of a stream: the bytes it kept are the first of those it saw.
StreamInv ==
  \A s \in Tree!Streams :
    /\ seen[s] <= sent[s] /\ retained[s] = Tree!Least(seen[s], ByteLimit)
    /\ (seen[s] > ByteLimit => reason # "none") /\ (reason = Tree!Exceeded[s] => seen[s] > ByteLimit)
CloseInv ==
  /\ main \in {"waiting", "crashed"} \/ ended # "pending"
  /\ main = "waiting" => ended = "pending"
  /\ ended # "pending" => timers = {}
  /\ ended = "close" => child = "exited" /\ ~kin /\ seen = sent
  /\ ended = "error" => child = "failed" \/ direct = "error"
  /\ direct # "none" => reason # "none"
  /\ reason # "none" => taskkill # "none"
  /\ Tree!TerminationIsComplete
ProbeInv == Tree!TypeOK /\ StreamInv /\ CloseInv

\* A termination that is requested while the bytes are what they are.
LEMMA RequestEffect ==
  ASSUME ProbeInv, NEW r \in Tree!Reasons \ {"none"}, NEW armed \in SUBSET timers, Tree!Request(r, armed), UNCHANGED <<kin, sent>>,
         r # "PidCoordinationFailed" => ended # "close", seen' = seen \/ ended # "close"
  PROVE  /\ CloseInv'
         /\ child' \in {"none", "running", "doomed", "exited", "failed"} /\ reason' \in Tree!Reasons
         /\ direct' \in {"none", "accepted", "gone", "error"} /\ taskkill' \in {"none", "running", "done"}
         /\ timers' \subseteq {"TimedOut", "ExplicitCancellation"} /\ ended' \in {"pending", "close", "error"}
         /\ main' \in {"waiting", "taskkill", "stopping", "observer", "summary", "done", "crashed"}
         /\ reason' = IF reason = "none" THEN r ELSE reason
<1>1. CASE reason # "none"
  BY <1>1 DEF ProbeInv, CloseInv, Tree!TypeOK, Tree!Request, Tree!TerminationIsComplete
<1>2. CASE reason = "none"
  <2>1. reason' = r /\ taskkill' = "running" /\ direct = "none" /\ (ended # "error" \/ child = "failed")
    BY <1>2 DEF ProbeInv, CloseInv, Tree!TypeOK, Tree!Request
  <2>2. CASE direct' = "accepted" \/ direct' = "gone"
    BY <1>2, <2>2 DEF ProbeInv, CloseInv, Tree!TypeOK, Tree!Request, Tree!TerminationIsComplete, Tree!Alive, Tree!Reasons
  <2>3. CASE direct' = "error" /\ child = "running" /\ Tree!Resolve("error", "running") /\ UNCHANGED child
    BY <1>2, <2>3 DEF ProbeInv, CloseInv, Tree!TypeOK, Tree!Request, Tree!TerminationIsComplete, Tree!Resolve, Tree!AfterEnd, Tree!Reasons
  <2> QED BY <1>2, <2>2, <2>3 DEF Tree!Request
<1> QED BY <1>1, <1>2

LEMMA StreamsKeep ==
  ASSUME ProbeInv, NEW r, UNCHANGED <<sent, seen, retained>>, reason' \in {reason, r}, reason # "none" => reason' = reason,
         \A s \in Tree!Streams : r # Tree!Exceeded[s]
  PROVE  StreamInv'
  BY DEF ProbeInv, StreamInv

LEMMA ProbeStep == ProbeInv /\ [Tree!Next]_probeVars => ProbeInv'
<1> SUFFICES ASSUME ProbeInv, [Tree!Next]_probeVars PROVE ProbeInv'
  OBVIOUS
<1> USE ProbeAssumption
<1>1. CASE Tree!SpawnEvent
  BY <1>1 DEF ProbeInv, StreamInv, CloseInv, Tree!TypeOK, Tree!SpawnEvent, Tree!ending, Tree!streams, Tree!TerminationIsComplete
<1>2. CASE Tree!SpawnFails
  <2>1. Tree!TypeOK'
    <3>1. /\ child' = "failed" /\ ended' \in {ended, "error"} /\ main' \in {main, "taskkill", "stopping"} /\ timers' \in {timers, {}}
          /\ UNCHANGED <<kin, sent, seen, retained, reason, direct, taskkill, pid, stop, observer>>
      BY <1>2 DEF Tree!SpawnFails, Tree!Resolve, Tree!AfterEnd, Tree!streams
    <3> QED BY <3>1 DEF ProbeInv, Tree!TypeOK
  <2>2. StreamInv'
    BY <1>2 DEF ProbeInv, StreamInv, Tree!SpawnFails, Tree!Resolve, Tree!AfterEnd, Tree!streams
  <2>3. CloseInv'
    BY <1>2 DEF ProbeInv, CloseInv, Tree!TypeOK, Tree!TerminationIsComplete, Tree!SpawnFails, Tree!Resolve, Tree!AfterEnd, Tree!streams
  <2> QED BY <2>1, <2>2, <2>3 DEF ProbeInv
<1>3. CASE Tree!PidFile
  <2>1. CASE UNCHANGED <<child, Tree!ending>>
    BY <1>3, <2>1 DEF ProbeInv, StreamInv, CloseInv, Tree!TypeOK, Tree!PidFile, Tree!ending, Tree!streams, Tree!TerminationIsComplete
  <2>2. CASE pid' = "failed" /\ Tree!Request("PidCoordinationFailed", timers)
    <3>1. "PidCoordinationFailed" \in Tree!Reasons \ {"none"} /\ \A s \in Tree!Streams : Tree!Exceeded[s] # "PidCoordinationFailed"
      BY DEF Tree!Reasons, Tree!Exceeded, Tree!Streams
    <3>2. UNCHANGED <<kin, sent, seen, retained, stop, observer>>
      BY <1>3 DEF Tree!PidFile, Tree!streams
    <3>3. StreamInv'
      BY <2>2, <3>1, <3>2, StreamsKeep, RequestEffect
    <3> QED BY <2>2, <3>1, <3>2, <3>3, RequestEffect DEF ProbeInv, Tree!TypeOK
  <2> QED BY <1>3, <2>1, <2>2 DEF Tree!PidFile
<1>4. CASE Tree!Data
  <2> PICK s \in Tree!Streams : \E n \in 1..(sent[s] - seen[s]) :
    /\ Tree!Running /\ ended # "close"
    /\ seen' = [seen EXCEPT ![s] = @ + n] /\ retained' = [retained EXCEPT ![s] = Tree!Retained(s, n)]
    /\ IF Tree!Over(s, n) THEN Tree!Request(Tree!Exceeded[s], timers) ELSE UNCHANGED <<child, Tree!ending>>
    /\ UNCHANGED <<kin, sent, pid, stop, observer>>
    BY <1>4 DEF Tree!Data
  <2> PICK n \in 1..(sent[s] - seen[s]) :
    /\ Tree!Running /\ ended # "close"
    /\ seen' = [seen EXCEPT ![s] = @ + n] /\ retained' = [retained EXCEPT ![s] = Tree!Retained(s, n)]
    /\ IF Tree!Over(s, n) THEN Tree!Request(Tree!Exceeded[s], timers) ELSE UNCHANGED <<child, Tree!ending>>
    /\ UNCHANGED <<kin, sent, pid, stop, observer>>
    OBVIOUS
  <2>1. /\ sent[s] \in 0..MaxBytes /\ seen[s] \in 0..MaxBytes /\ retained[s] \in 0..ByteLimit /\ n \in 1..(sent[s] - seen[s])
        /\ retained[s] = Tree!Least(seen[s], ByteLimit)
    BY DEF ProbeInv, Tree!TypeOK, StreamInv
  <2>2. n \in Nat /\ seen[s] + n \in 0..MaxBytes /\ seen[s] + n <= sent[s]
    BY <2>1
  <2>3. Tree!Retained(s, n) \in 0..ByteLimit /\ Tree!Retained(s, n) = Tree!Least(seen[s] + n, ByteLimit)
    BY <2>1, <2>2 DEF Tree!Retained, Tree!Least
  <2>4. seen' \in [Tree!Streams -> 0..MaxBytes] /\ retained' \in [Tree!Streams -> 0..ByteLimit]
    BY <2>2, <2>3 DEF ProbeInv, Tree!TypeOK
  <2>5. \A q \in Tree!Streams : /\ seen'[q] = IF q = s THEN seen[s] + n ELSE seen[q]
                               /\ retained'[q] = IF q = s THEN Tree!Least(seen[s] + n, ByteLimit) ELSE retained[q]
    BY <2>3 DEF ProbeInv, Tree!TypeOK
  <2>6. CASE Tree!Over(s, n)
    <3>1. Tree!Exceeded[s] \in Tree!Reasons \ {"none"} /\ Tree!Exceeded[s] # "PidCoordinationFailed"
          /\ \A q \in Tree!Streams : Tree!Exceeded[q] = Tree!Exceeded[s] => q = s
      BY DEF Tree!Reasons, Tree!Exceeded, Tree!Streams
    <3>2. Tree!Request(Tree!Exceeded[s], timers) /\ UNCHANGED <<kin, sent>>
      BY <2>6
    <3> DEFINE r == Tree!Exceeded[s]
    <3>3. CloseInv' /\ reason' = (IF reason = "none" THEN r ELSE reason)
      BY <3>1, <3>2, RequestEffect
    <3>4. Tree!TypeOK'
      BY <2>4, <3>1, <3>2, RequestEffect DEF ProbeInv, Tree!TypeOK
    <3>5. StreamInv'
      <4> SUFFICES ASSUME NEW q \in Tree!Streams
          PROVE /\ seen'[q] <= sent[q] /\ retained'[q] = Tree!Least(seen'[q], ByteLimit)
                /\ (seen'[q] > ByteLimit => reason' # "none") /\ (reason' = Tree!Exceeded[q] => seen'[q] > ByteLimit)
        BY DEF StreamInv
      <4>1. seen[s] + n > ByteLimit
        BY <2>6 DEF Tree!Over
      <4>2. CASE q = s
        BY <2>2, <2>5, <3>1, <3>3, <4>1, <4>2
      <4>3. CASE q # s
        BY <2>5, <3>1, <3>3, <4>3 DEF ProbeInv, StreamInv
      <4> QED BY <4>2, <4>3
    <3> QED BY <3>3, <3>4, <3>5 DEF ProbeInv
  <2>7. CASE ~Tree!Over(s, n)
    <3>1. UNCHANGED <<child, reason, direct, taskkill, ended, main, timers>>
      BY <2>7 DEF Tree!ending
    <3>2. Tree!TypeOK'
      BY <2>4, <3>1 DEF ProbeInv, Tree!TypeOK
    <3>3. CloseInv'
      BY <3>1 DEF ProbeInv, CloseInv, Tree!TerminationIsComplete
    <3>4. seen[s] + n <= ByteLimit
      BY <2>1, <2>7 DEF Tree!Over
    <3>5. StreamInv'
      <4> SUFFICES ASSUME NEW q \in Tree!Streams
          PROVE /\ seen'[q] <= sent[q] /\ retained'[q] = Tree!Least(seen'[q], ByteLimit)
                /\ (seen'[q] > ByteLimit => reason' # "none") /\ (reason' = Tree!Exceeded[q] => seen'[q] > ByteLimit)
        BY DEF StreamInv
      <4>2. CASE q = s
        BY <2>1, <2>2, <2>5, <3>1, <3>4, <4>2 DEF ProbeInv, StreamInv
      <4>3. CASE q # s
        BY <2>5, <3>1, <4>3 DEF ProbeInv, StreamInv
      <4> QED BY <4>2, <4>3
    <3> QED BY <3>2, <3>3, <3>5 DEF ProbeInv
  <2> QED BY <2>6, <2>7
<1>5. CASE Tree!Timer
  <2>1. PICK r \in timers : child # "none" /\ Tree!Running /\ Tree!Request(r, timers \ {r}) /\ UNCHANGED <<kin, sent, seen, retained, pid, stop, observer>>
    BY <1>5 DEF Tree!Timer, Tree!streams
  <2>2. r \in Tree!Reasons \ {"none"} /\ r # "PidCoordinationFailed" /\ \A s \in Tree!Streams : Tree!Exceeded[s] # r
    <3>1. r \in {"TimedOut", "ExplicitCancellation"}
      BY DEF ProbeInv, Tree!TypeOK
    <3> QED BY <3>1 DEF Tree!Reasons, Tree!Exceeded, Tree!Streams
  <2>3. ended # "close"
    BY DEF ProbeInv, CloseInv
  <2>4. StreamInv'
    BY <2>1, <2>2, <2>3, StreamsKeep, RequestEffect
  <2> QED BY <2>1, <2>2, <2>3, <2>4, RequestEffect DEF ProbeInv, Tree!TypeOK
<1>6. CASE Tree!CloseEvent
  BY <1>6 DEF ProbeInv, StreamInv, CloseInv, Tree!TypeOK, Tree!CloseEvent, Tree!Finished, Tree!Resolve, Tree!AfterEnd, Tree!streams, Tree!TerminationIsComplete
<1>7. CASE Tree!TaskkillEnds
  <2>1. Tree!TypeOK'
    <3>1. /\ child' \in {child, "doomed"} /\ taskkill' = "done" /\ main' \in {main, "stopping"}
          /\ UNCHANGED <<sent, seen, retained, reason, direct, ended, timers, pid, stop, observer>>
      BY <1>7 DEF Tree!TaskkillEnds, Tree!streams
    <3>2. kin' \in BOOLEAN
      <4>1. kin \in BOOLEAN
        BY DEF ProbeInv, Tree!TypeOK
      <4>2. kin' = FALSE \/ kin' = kin
        BY <1>7 DEF Tree!TaskkillEnds
      <4> QED BY <4>1, <4>2
    <3> QED BY <3>1, <3>2 DEF ProbeInv, Tree!TypeOK
  <2>2. StreamInv'
    BY <1>7 DEF ProbeInv, StreamInv, Tree!TaskkillEnds, Tree!Alive, Tree!streams
  <2>3. CloseInv'
    BY <1>7 DEF ProbeInv, CloseInv, Tree!TypeOK, Tree!TerminationIsComplete, Tree!TaskkillEnds, Tree!Alive, Tree!streams
  <2> QED BY <2>1, <2>2, <2>3 DEF ProbeInv
<1>8. CASE Tree!WriteStop \/ Tree!ObserverDone \/ Tree!Summarize
  <2>1. Tree!TypeOK'
    <3>1. CASE Tree!WriteStop
      <4>1. stop' \in BOOLEAN /\ main' = "observer" /\ UNCHANGED <<child, kin, sent, seen, retained, reason, direct, taskkill, ended, timers, pid, observer>>
        BY <3>1 DEF Tree!WriteStop, Tree!streams
      <4> QED BY <4>1 DEF ProbeInv, Tree!TypeOK
    <3>2. CASE Tree!ObserverDone
      <4>1. main' = "summary" /\ observer' \in {observer, "killed"}
            /\ UNCHANGED <<child, kin, sent, seen, retained, reason, direct, taskkill, ended, timers, pid, stop>>
        BY <3>2 DEF Tree!ObserverDone, Tree!KillObserver, Tree!streams
      <4> QED BY <4>1 DEF ProbeInv, Tree!TypeOK
    <3>3. CASE Tree!Summarize
      BY <3>3 DEF ProbeInv, Tree!TypeOK, Tree!Summarize, Tree!streams
    <3> QED BY <1>8, <3>1, <3>2, <3>3
  <2>2. StreamInv'
    BY <1>8 DEF ProbeInv, StreamInv, Tree!WriteStop, Tree!ObserverDone, Tree!KillObserver, Tree!Summarize, Tree!streams
  <2>3. CloseInv'
    <3>1. main \in {"stopping", "observer", "summary"} /\ main' \in {"observer", "summary", "done", "crashed"}
          /\ UNCHANGED <<child, kin, sent, seen, reason, direct, taskkill, ended, timers>>
      BY <1>8 DEF Tree!WriteStop, Tree!ObserverDone, Tree!KillObserver, Tree!Summarize, Tree!streams
    <3> QED BY <3>1 DEF ProbeInv, CloseInv, Tree!TerminationIsComplete
  <2> QED BY <2>1, <2>2, <2>3 DEF ProbeInv
<1>9. CASE Tree!Write
  <2>1. PICK s \in Tree!Streams : /\ (Tree!Alive \/ kin) /\ sent[s] < MaxBytes /\ sent' = [sent EXCEPT ![s] = @ + 1]
          /\ UNCHANGED <<child, kin, seen, retained, reason, direct, taskkill, ended, main, timers, pid, stop, observer>>
    BY <1>9 DEF Tree!Write, Tree!ending
  <2>2. sent' \in [Tree!Streams -> 0..MaxBytes] /\ \A q \in Tree!Streams : sent[q] <= sent'[q]
    BY <2>1 DEF ProbeInv, Tree!TypeOK
  <2>3. ended # "close"
    BY <2>1 DEF ProbeInv, CloseInv, Tree!Alive
  <2>4. StreamInv'
    BY <2>1, <2>2 DEF ProbeInv, StreamInv, Tree!TypeOK
  <2> QED BY <2>1, <2>2, <2>3, <2>4 DEF ProbeInv, CloseInv, Tree!TypeOK, Tree!TerminationIsComplete
<1>10. CASE Tree!Fork \/ Tree!Exit \/ Tree!KinExits
  <2>1. Tree!TypeOK'
    <3>1. /\ child' \in {child, "exited"} /\ kin' \in {kin, TRUE, FALSE}
          /\ UNCHANGED <<sent, seen, retained, reason, direct, taskkill, ended, main, timers, pid, stop, observer>>
      BY <1>10 DEF Tree!Fork, Tree!Exit, Tree!KinExits, Tree!ending, Tree!streams
    <3>2. kin' \in BOOLEAN
      BY <3>1 DEF ProbeInv, Tree!TypeOK
    <3> QED BY <3>1, <3>2 DEF ProbeInv, Tree!TypeOK
  <2>2. StreamInv'
    BY <1>10 DEF ProbeInv, StreamInv, Tree!Fork, Tree!Exit, Tree!KinExits, Tree!Alive, Tree!ending, Tree!streams
  <2>3. CloseInv'
    BY <1>10 DEF ProbeInv, CloseInv, Tree!TypeOK, Tree!TerminationIsComplete, Tree!Fork, Tree!Exit, Tree!KinExits, Tree!Alive, Tree!ending, Tree!streams
  <2> QED BY <2>1, <2>2, <2>3 DEF ProbeInv
<1>11. CASE Tree!Observe
  BY <1>11 DEF ProbeInv, StreamInv, CloseInv, Tree!TypeOK, Tree!Observe, Tree!ending, Tree!streams, Tree!TerminationIsComplete
<1>12. CASE Tree!ObserverFails
  BY <1>12 DEF ProbeInv, StreamInv, CloseInv, Tree!TypeOK, Tree!ObserverFails, Tree!streams, Tree!TerminationIsComplete
<1>13. CASE UNCHANGED probeVars
  BY <1>13 DEF ProbeInv, StreamInv, CloseInv, Tree!TypeOK, probeVars, Tree!TerminationIsComplete
<1> QED BY <1>1, <1>2, <1>3, <1>4, <1>5, <1>6, <1>7, <1>8, <1>9, <1>10, <1>11, <1>12, <1>13 DEF Tree!Next, Tree!Probe

LEMMA AloneIsTree == Alone!Next => Tree!Next
<1>1. Alone!SpawnEvent => Tree!SpawnEvent
  BY DEF Alone!SpawnEvent, Tree!SpawnEvent, Alone!Running, Tree!Running, Alone!streams, Tree!streams, Alone!ending, Tree!ending
<1>2. Alone!SpawnFails => Tree!SpawnFails
  BY DEF Alone!SpawnFails, Tree!SpawnFails, Alone!Running, Tree!Running, Alone!streams, Tree!streams, Alone!Resolve, Tree!Resolve, Alone!AfterEnd, Tree!AfterEnd
<1>3. Alone!PidFile => Tree!PidFile
  BY DEF Alone!PidFile, Tree!PidFile, Alone!Running, Tree!Running, Alone!ending, Tree!ending, Alone!Request, Tree!Request, Alone!Resolve, Tree!Resolve, Alone!AfterEnd, Tree!AfterEnd, Alone!Alive, Tree!Alive, Alone!streams, Tree!streams
<1>4. Alone!Data => Tree!Data
  BY DEF Alone!Data, Tree!Data, Alone!Running, Tree!Running, Alone!ending, Tree!ending, Alone!Request, Tree!Request, Alone!Resolve, Tree!Resolve, Alone!AfterEnd, Tree!AfterEnd, Alone!Alive, Tree!Alive, Alone!Streams, Tree!Streams, Alone!Exceeded, Tree!Exceeded, Alone!Retained, Tree!Retained, Alone!Least, Tree!Least, Alone!Over, Tree!Over
<1>5. Alone!Timer => Tree!Timer
  BY DEF Alone!Timer, Tree!Timer, Alone!Running, Tree!Running, Alone!Request, Tree!Request, Alone!Resolve, Tree!Resolve, Alone!AfterEnd, Tree!AfterEnd, Alone!Alive, Tree!Alive, Alone!streams, Tree!streams
<1>6. Alone!CloseEvent => Tree!CloseEvent
  BY DEF Alone!CloseEvent, Tree!CloseEvent, Alone!Running, Tree!Running, Alone!Finished, Tree!Finished, Alone!Resolve, Tree!Resolve, Alone!AfterEnd, Tree!AfterEnd, Alone!streams, Tree!streams
<1>7. Alone!TaskkillEnds => Tree!TaskkillEnds
  BY DEF Alone!TaskkillEnds, Tree!TaskkillEnds, Alone!Running, Tree!Running, Alone!Alive, Tree!Alive, Alone!streams, Tree!streams
<1>8. Alone!WriteStop => Tree!WriteStop
  BY DEF Alone!WriteStop, Tree!WriteStop, Alone!streams, Tree!streams
<1>9. Alone!ObserverDone => Tree!ObserverDone
  BY DEF Alone!ObserverDone, Tree!ObserverDone, Alone!KillObserver, Tree!KillObserver, Alone!streams, Tree!streams
<1>10. Alone!Summarize => Tree!Summarize
  BY DEF Alone!Summarize, Tree!Summarize, Alone!streams, Tree!streams
<1>11. Alone!Write => Tree!Write
  BY DEF Alone!Write, Tree!Write, Alone!Streams, Tree!Streams, Alone!Alive, Tree!Alive, Alone!ending, Tree!ending
<1>12. Alone!Exit => Tree!Exit
  BY DEF Alone!Exit, Tree!Exit, Alone!Alive, Tree!Alive, Alone!streams, Tree!streams, Alone!ending, Tree!ending
<1>13. Alone!KinExits => Tree!KinExits
  BY DEF Alone!KinExits, Tree!KinExits, Alone!streams, Tree!streams, Alone!ending, Tree!ending
<1>14. Alone!Observe => Tree!Observe
  BY DEF Alone!Observe, Tree!Observe, Alone!streams, Tree!streams, Alone!ending, Tree!ending
<1>15. Alone!ObserverFails => Tree!ObserverFails
  BY DEF Alone!ObserverFails, Tree!ObserverFails, Alone!Running, Tree!Running, Alone!streams, Tree!streams
<1> QED BY <1>1, <1>2, <1>3, <1>4, <1>5, <1>6, <1>7, <1>8, <1>9, <1>10, <1>11, <1>12, <1>13, <1>14, <1>15 DEF Alone!Next, Tree!Next, Alone!Probe, Tree!Probe, Alone!Fork, Tree!Fork

-----------------------------------------------------------------------------
(* The launch harness: what its cases and the scripts of its children are   *)

Texts == {"OUT", "ERR", "x", "READY", "LEAF", "FAIL", ""}
Lines == [do : {"stdout", "stderr", "fork", "sleep"}, text : Texts]
Modes == {"normal", "timeout-tree", "cancel-tree", "flood-out", "flood-err", "nonzero", "leave-tree"}
Sleepers == {"timeout-tree", "cancel-tree"}
Flooding == [stdout |-> "flood-out", stderr |-> "flood-err"]
Codes == {NoCode, 0, 2, 17, 91, 94, Killed}
Results ==
  [outcome : Outcomes, error : {"None", "SETUP", "CHECK", "INJECTED_PRE_RESUME", "RESUME", "QUERY", "CLEANUP_DEADLINE", "CLEANUP_QUERY"}, created : BOOLEAN, resumed : BOOLEAN, standard : BOOLEAN, exit : Codes,
   tree : BOOLEAN, rootExited : BOOLEAN, jobEmpty : BOOLEAN, pipesClosed : BOOLEAN, passed : BOOLEAN]

\* What the cases of the suite are.
CaseIs(c) ==
  /\ c.mode \in Modes /\ c.cancelled \in BOOLEAN /\ c.injected \in BOOLEAN
  /\ c.expected \notin {"Error", "OutputMismatch", "CleanupFailed"}
  /\ c.expected = "Completed" => c.mode = "normal"
  /\ c.expected = "NonZeroExit" => c.mode = "nonzero"
  /\ c.expected = "Timeout" => c.mode = "timeout-tree"
  /\ c.expected = "Cancelled" => c.mode = "cancel-tree"
  /\ c.expected = "StdoutLimit" => c.mode = "flood-out"
  /\ c.expected = "StderrLimit" => c.mode = "flood-err"
  /\ c.expected = "DescendantsAfterParentExit" => c.mode = "leave-tree"
  /\ c.expected = "InjectedBeforeResume" <=> c.injected
  /\ c.expected = "CancelledBeforeCreate" <=> c.cancelled
  /\ c.expected \in {"Completed", "NonZeroExit", "Timeout", "Cancelled", "StdoutLimit", "StderrLimit",
                     "DescendantsAfterParentExit", "InjectedBeforeResume", "CancelledBeforeCreate"}
LEMMA CasesAre == \A c \in Cases : CaseIs(c)
<1> DEFINE Cancel(c) == [c EXCEPT !.cancelled = TRUE]
           Inject(c) == [c EXCEPT !.injected = TRUE]
           Is(c, m, e, x, i) == c.mode = m /\ c.expected = e /\ c.cancelled = x /\ c.injected = i
<1>1. \A m, e : Is(Case(m, e), m, e, FALSE, FALSE) /\ Is(Cancel(Case(m, e)), m, e, TRUE, FALSE) /\ Is(Inject(Case(m, e)), m, e, FALSE, TRUE)
  BY DEF Case
<1>2. ASSUME NEW c \in Cases
      PROVE  \/ c \in { Case("normal", "Completed"), Case("timeout-tree", "Timeout"), Case("cancel-tree", "Cancelled"),
                        Case("flood-out", "StdoutLimit"), Case("flood-err", "StderrLimit"), Case("nonzero", "NonZeroExit"),
                        Case("leave-tree", "DescendantsAfterParentExit") }
             \/ c = Cancel(Case("normal", "CancelledBeforeCreate")) \/ c = Inject(Case("normal", "InjectedBeforeResume"))
  BY Zenon DEF Cases
<1> HIDE DEF Cancel, Inject
<1>3. ASSUME NEW c \in Cases
      PROVE  \/ Is(c, "normal", "Completed", FALSE, FALSE) \/ Is(c, "timeout-tree", "Timeout", FALSE, FALSE)
             \/ Is(c, "cancel-tree", "Cancelled", FALSE, FALSE) \/ Is(c, "flood-out", "StdoutLimit", FALSE, FALSE)
             \/ Is(c, "flood-err", "StderrLimit", FALSE, FALSE) \/ Is(c, "nonzero", "NonZeroExit", FALSE, FALSE)
             \/ Is(c, "leave-tree", "DescendantsAfterParentExit", FALSE, FALSE)
             \/ Is(c, "normal", "CancelledBeforeCreate", TRUE, FALSE) \/ Is(c, "normal", "InjectedBeforeResume", FALSE, TRUE)
  <2> HIDE DEF Is
  <2> QED BY <1>1, <1>2, Zenon
<1>4. ASSUME NEW c \in Cases PROVE CaseIs(c)
  BY <1>3 DEF CaseIs, Modes
<1> QED BY <1>4

\* The outcomes of a case: those that are expected of some case, and three more.
LEMMA OutcomesAre ==
  Outcomes = {"Error", "OutputMismatch", "CleanupFailed", "Completed", "NonZeroExit", "Timeout", "Cancelled", "StdoutLimit",
              "StderrLimit", "DescendantsAfterParentExit", "InjectedBeforeResume", "CancelledBeforeCreate"}
<1> DEFINE N == {"Completed", "NonZeroExit", "Timeout", "Cancelled", "StdoutLimit", "StderrLimit", "DescendantsAfterParentExit"}
<1>1. \A c \in Cases : c.expected \in N \cup {"InjectedBeforeResume", "CancelledBeforeCreate"}
  BY CasesAre DEF CaseIs
<1>2. \A m, e : Case(m, e).expected = e /\ [Case(m, e) EXCEPT !.cancelled = TRUE].expected = e
                /\ [Case(m, e) EXCEPT !.injected = TRUE].expected = e
  BY DEF Case
<1>3. \A e \in N \cup {"InjectedBeforeResume", "CancelledBeforeCreate"} : \E c \in Cases : c.expected = e
  <2>1. \A e \in N : \E m : Case(m, e) \in Cases
    BY DEF Cases
  <2>2. [Case("normal", "CancelledBeforeCreate") EXCEPT !.cancelled = TRUE] \in Cases
        /\ [Case("normal", "InjectedBeforeResume") EXCEPT !.injected = TRUE] \in Cases
    BY DEF Cases
  <2>3. \A e \in N : \E c \in Cases : c.expected = e
    BY <1>2, <2>1
  <2>4. \A e \in {"InjectedBeforeResume", "CancelledBeforeCreate"} : \E c \in Cases : c.expected = e
    BY <1>2, <2>2
  <2> HIDE DEF N
  <2> QED BY <2>3, <2>4
<1> QED BY <1>1, <1>3 DEF Outcomes

-----------------------------------------------------------------------------
(* What a child has still to do                                            *)
Script(p) == CASE p = "root" -> Acts(case.mode) [] p = "leaf" -> Acts("sleep") [] OTHER -> <<>>
EndOf(p) == CASE p = "root" -> Ends(case.mode) [] p = "leaf" -> Ends("sleep") [] OTHER -> 0

\* A line of a root's script.
RootLine(a) ==
  /\ a \in Lines /\ a.text # "LEAF"
  /\ a.text = "READY" \/ a = Fork => case.mode \in TreeModes
  /\ \A s \in Streams : case.mode = Flooding[s] => a = Line(s, "x")

\* What the scripts are: by what the invariant tells apart.
LEMMA RootScript ==
  ASSUME case \in Cases
  PROVE  /\ Acts(case.mode) \in Seq(Lines)
         /\ \A i \in 1..Len(Acts(case.mode)) : RootLine(Acts(case.mode)[i])
         /\ \A i \in 1..Len(Acts(case.mode)) : Acts(case.mode)[i] = Fork => i = 1
         /\ case.mode \in TreeModes => Len(Acts(case.mode)) >= 2
         /\ case.mode \in {"flood-out", "flood-err"} => Len(Acts(case.mode)) = Flood
         /\ case.mode \in Sleepers => Len(Acts(case.mode)) = 3 /\ Acts(case.mode)[3] = Sleep
<1>1. case.mode \in Modes
  BY CasesAre DEF CaseIs
<1>a. /\ case.mode = "normal" => RootLine(Line("stdout", "OUT")) /\ RootLine(Line("stderr", "ERR"))
      /\ case.mode \in TreeModes => RootLine(Fork) /\ RootLine(Sleep) /\ RootLine(Line("stdout", "READY"))
      /\ \A s \in Streams : case.mode = Flooding[s] => RootLine(Line(s, "x"))
  <2>1. case.mode = "normal" => RootLine(Line("stdout", "OUT")) /\ RootLine(Line("stderr", "ERR"))
    <3>1. case.mode = "normal" => case.mode \notin TreeModes /\ \A s \in Streams : case.mode # Flooding[s]
      BY DEF Streams, Flooding, TreeModes
    <3>2. Line("stdout", "OUT") \in Lines /\ Line("stdout", "OUT").text = "OUT" /\ Line("stdout", "OUT") # Fork
      BY DEF Lines, Texts, Line, Fork
    <3>3. Line("stderr", "ERR") \in Lines /\ Line("stderr", "ERR").text = "ERR" /\ Line("stderr", "ERR") # Fork
      BY DEF Lines, Texts, Line, Fork
    <3> QED BY <3>1, <3>2, <3>3 DEF RootLine
  <2>2. ASSUME case.mode \in TreeModes, NEW a \in {Fork, Sleep, Line("stdout", "READY")} PROVE RootLine(a)
    <3>1. a \in Lines /\ a.text # "LEAF"
      <4>1. Fork \in Lines /\ Fork.text = ""
        BY DEF Lines, Texts, Line, Fork
      <4>2. Sleep \in Lines /\ Sleep.text = ""
        BY DEF Lines, Texts, Line, Sleep
      <4>3. Line("stdout", "READY") \in Lines /\ Line("stdout", "READY").text = "READY"
        BY DEF Lines, Texts, Line
      <4> QED BY <2>2, <4>1, <4>2, <4>3
    <3> QED BY <2>2, <3>1 DEF RootLine, TreeModes, Flooding, Streams
  <2>3. ASSUME NEW s \in Streams, case.mode = Flooding[s] PROVE RootLine(Line(s, "x"))
    <3>1. Line(s, "x") \in Lines /\ Line(s, "x").text = "x" /\ Line(s, "x") # Fork
      BY DEF Lines, Texts, Line, Fork, Streams
    <3>2. \A q \in Streams : case.mode = Flooding[q] => q = s
      BY <2>3 DEF Flooding, Streams
    <3> QED BY <3>1, <3>2 DEF RootLine
  <2> QED BY <2>1, <2>2, <2>3
<1>b. Line("stdout", "OUT") # Fork /\ Line("stderr", "ERR") # Fork /\ Line("stdout", "READY") # Fork /\ Sleep # Fork
      /\ \A s \in Streams : Line(s, "x") # Fork
  BY DEF Line, Fork, Sleep, Streams
<1>2. CASE case.mode = "normal"
  <2>1. Acts(case.mode) = <<Line("stdout", "OUT"), Line("stderr", "ERR")>>
    BY <1>2 DEF Acts
  <2>2. Line("stdout", "OUT") \in Lines /\ Line("stderr", "ERR") \in Lines
    BY DEF Line, Lines, Texts
  <2>3. case.mode \notin TreeModes \cup Sleepers \cup {"flood-out", "flood-err"}
    BY <1>2 DEF TreeModes, Sleepers
  <2>4. /\ Acts(case.mode) \in Seq(Lines) /\ Len(Acts(case.mode)) = 2
        /\ Acts(case.mode)[1] = Line("stdout", "OUT") /\ Acts(case.mode)[2] = Line("stderr", "ERR")
    BY <2>1, <2>2
  <2>5. \A i \in 1..2 : i = 1 \/ i = 2
    OBVIOUS
  <2> QED BY <1>2, <1>a, <1>b, <2>3, <2>4, <2>5
<1>3. CASE case.mode = "nonzero"
  <2>1. Acts(case.mode) = <<>>
    BY <1>3 DEF Acts
  <2>2. case.mode \notin TreeModes \cup Sleepers \cup {"flood-out", "flood-err"}
    BY <1>3 DEF TreeModes, Sleepers
  <2> QED BY <2>1, <2>2
<1>4. ASSUME NEW s \in Streams, case.mode = Flooding[s] PROVE
        Acts(case.mode) = [i \in 1..Flood |-> Line(s, "x")]
  <2>1. CASE s = "stdout" /\ case.mode = "flood-out"
    BY <2>1, Zenon DEF Acts
  <2>2. CASE s = "stderr" /\ case.mode = "flood-err"
    BY <2>2, Zenon DEF Acts
  <2> QED BY <1>4, <2>1, <2>2 DEF Flooding, Streams
<1>5. CASE \E s \in Streams : case.mode = Flooding[s]
  <2>1. PICK s \in Streams : case.mode = Flooding[s]
    BY <1>5
  <2>2. Acts(case.mode) = [i \in 1..Flood |-> Line(s, "x")]
    BY <1>4, <2>1
  <2>3. RootLine(Line(s, "x")) /\ Line(s, "x") # Fork
    BY <1>a, <1>b, <2>1
  <2>4. Flood \in Nat
    BY LaunchAssumption
  <2>5. Acts(case.mode) \in Seq(Lines) /\ Len(Acts(case.mode)) = Flood
    BY <2>2, <2>3, <2>4 DEF RootLine
  <2>6. case.mode \notin TreeModes \cup Sleepers
    BY <2>1 DEF Flooding, Streams, TreeModes, Sleepers
  <2>7. \A i \in 1..Len(Acts(case.mode)) : Acts(case.mode)[i] = Line(s, "x")
    BY <2>2, <2>5
  <2> QED BY <2>3, <2>5, <2>6, <2>7
<1>6. CASE case.mode = "leave-tree"
  <2>1. Acts(case.mode) = <<Fork, Line("stdout", "READY")>>
    BY <1>6 DEF Acts
  <2>2. Fork \in Lines /\ Line("stdout", "READY") \in Lines
    BY DEF Fork, Line, Lines, Texts
  <2>3. case.mode \in TreeModes /\ case.mode \notin Sleepers \cup {"flood-out", "flood-err"}
    BY <1>6 DEF TreeModes, Sleepers
  <2> QED BY <1>a, <1>b, <2>1, <2>2, <2>3
<1>7. CASE case.mode \in Sleepers
  <2>1. Acts(case.mode) = <<Fork, Line("stdout", "READY"), Sleep>>
    BY <1>7 DEF Acts, Sleepers
  <2>2. Fork \in Lines /\ Line("stdout", "READY") \in Lines /\ Sleep \in Lines
    BY DEF Fork, Sleep, Line, Lines, Texts
  <2>3. case.mode \in TreeModes /\ case.mode \notin {"flood-out", "flood-err"}
    BY <1>7 DEF TreeModes, Sleepers
  <2> QED BY <1>a, <1>b, <2>1, <2>2, <2>3
<1> QED BY <1>1, <1>2, <1>3, <1>5, <1>6, <1>7 DEF Modes, Sleepers, Flooding, Streams

LEMMA LeafScript == Acts("sleep") \in Seq(Lines) /\ Len(Acts("sleep")) = 2 /\ Acts("sleep") = <<Line("stdout", "LEAF"), Sleep>>
<1>1. Acts("sleep") = <<Line("stdout", "LEAF"), Sleep>>
  BY DEF Acts
<1>2. Line("stdout", "LEAF") \in Lines /\ Sleep \in Lines
  BY DEF Line, Lines, Texts, Sleep
<1>3. <<Line("stdout", "LEAF"), Sleep>> \in Seq(Lines) /\ Len(<<Line("stdout", "LEAF"), Sleep>>) = 2
  BY <1>2
<1> QED BY <1>1, <1>3

Follows(p) ==
  Len(acts[p]) <= Len(Script(p)) /\ \A i \in 1..Len(acts[p]) : acts[p][i] = Script(p)[Len(Script(p)) - Len(acts[p]) + i]
Refusals == {<<Line("stdout", "FAIL")>>, <<>>}
Failed(p) == code[p] \in {2, 91}

ShapeInv ==
  /\ case \in Cases /\ doomed \subseteq Processes
  /\ state \in [Processes -> {"none", "suspended", "running", "exited"}] /\ code \in [Processes -> Codes]
  /\ acts \in [Processes -> Seq(Lines)] /\ pipe \in [Streams -> Seq(Texts)] /\ kept \in [Streams -> Seq(Texts)]
  /\ \A s \in Streams : Len(pipe[s]) <= PipeSize /\ Len(kept[s]) <= Limit
  /\ closed \in [Streams -> BOOLEAN] /\ over \in [Streams -> BOOLEAN]
  /\ phase \in {"start", "inspect", "poll", "terminate", "cleanup", "done", "killed"}
  /\ at \in Streams \cup {"active", "exited", "decide"} /\ chunk \in 0..1 /\ clock \in {"none", "grace", "all"}
  /\ saw \in [active : 0..3, exited : BOOLEAN] /\ ready \in BOOLEAN /\ result \in Results
ProcessInv(p) ==
  /\ code[p] \in {EndOf(p), 2, 91, Killed}
  /\ IF Failed(p) THEN acts[p] \in Refusals ELSE code[p] = Killed \/ Follows(p)
  /\ code[p] = Killed => state[p] = "exited"
  /\ state[p] = "exited" /\ code[p] # Killed => acts[p] = <<>>
TreeInv ==
  /\ \A p \in Processes : ProcessInv(p)
  /\ acts["console"] = <<>>
  /\ state["leaf"] # "none" => case.mode \in TreeModes /\ Len(acts["root"]) < Len(Acts(case.mode))

LeafSpoke == Len(acts["leaf"]) < 2 /\ code["leaf"] \in {94, Killed} /\ state["leaf"] \in {"running", "exited"}
RootSpoke == case.mode \in TreeModes /\ Len(acts["root"]) < Len(Acts(case.mode)) /\ ~Failed("root")
Heard(t) == \E s \in Streams : Contains(pipe[s], t) \/ Contains(kept[s], t)
SpokenInv ==
  /\ Heard("LEAF") => LeafSpoke
  /\ Heard("READY") => RootSpoke
  /\ result.tree => LeafSpoke /\ RootSpoke

BufferInv ==
  \A s \in Streams :
    /\ closed[s] /\ phase # "killed" => pipe[s] = <<>> /\ Writers = {}
    /\ over[s] => Len(kept[s]) = Limit

Units(s) == Len(kept[s]) + Len(pipe[s]) + Len(acts["root"])
FloodInv ==
  \A s \in Streams : case.mode = Flooding[s] /\ phase # "killed" =>
    /\ Failed("root") => Units(s) <= 1 /\ ~over[s]
    /\ code["root"] = 0 => Units(s) <= Flood /\ (~over[s] => Units(s) = Flood)

Early == phase \in {"start", "inspect", "poll"}
Asleep == Early /\ clock # "all" /\ case.mode \in Sleepers /\ code["root"] = 94 => acts["root"] # <<>>
Spared == Early => doomed = {} /\ \A p \in Processes : code[p] # Killed
Unresumed ==
  ~result.resumed /\ phase # "killed" =>
    state["root"] # "running" /\ acts["root"] = Acts(case.mode) /\ result.exit = NoCode /\ ~result.tree

PhaseInv ==
  /\ Early => result.outcome = "Error" /\ result.error = "None" /\ ~result.passed
  /\ phase = "start" => (\A p \in Processes : state[p] = "none") /\ result = Fresh /\ \A s \in Streams : ~closed[s]
  /\ phase = "inspect" => state["root"] = "suspended"
  /\ phase = "poll" => result.resumed
  /\ phase \in {"start", "inspect", "terminate"} => at = "stdout"
  /\ at \in Streams => saw = Unread
  /\ phase = "cleanup" /\ at = "decide" /\ saw.active = 0 => Live = {}
  /\ saw.exited => state["root"] = "exited"
  /\ case.cancelled => phase \in {"start", "done", "killed"}

NaturalEnds == {"Completed", "NonZeroExit", "OutputMismatch"}
ExitInv ==
  result.exit # NoCode =>
    /\ state["root"] = "exited" /\ result.exit = code["root"] /\ code["root"] # Killed
    /\ case.mode \in Sleepers \cup {"flood-out", "flood-err"} => Failed("root")
OutcomeInv ==
  /\ result.outcome \in NaturalEnds =>
       phase # "killed" /\ result.exit # NoCode /\ \A s \in Streams : closed[s] /\ ~over[s]
  /\ result.outcome = "Completed" =>
       code["root"] = 0 /\ (case.mode = "normal" => kept["stdout"] = <<"OUT">> /\ kept["stderr"] = <<"ERR">>)
  /\ result.outcome = "DescendantsAfterParentExit" => result.exit # NoCode
  /\ result.outcome = "StdoutLimit" => over["stdout"]
  /\ result.outcome = "StderrLimit" => over["stderr"]
  /\ result.outcome \notin {"Error", "CleanupFailed"} =>
       result.error = IF result.outcome = "InjectedBeforeResume" THEN "INJECTED_PRE_RESUME" ELSE "None"
PassedInv ==
  result.passed =>
    /\ phase = "done"
    /\ IF case.cancelled THEN result = [Fresh EXCEPT !.outcome = "CancelledBeforeCreate", !.passed = TRUE]
       ELSE Passed(result) /\ Live = {}

LaunchInv ==
  /\ ShapeInv /\ TreeInv /\ SpokenInv /\ BufferInv /\ FloodInv /\ Asleep /\ Spared /\ Unresumed
  /\ PhaseInv /\ ExitInv /\ OutcomeInv /\ PassedInv

\* What a step of the children does to what the supervisor has relied on.
ChildFrame == UNCHANGED <<case, doomed, kept, closed, over, phase, at, chunk, saw, ready, result, clock>>
ChildShape ==
  /\ state' \in [Processes -> {"none", "suspended", "running", "exited"}] /\ code' \in [Processes -> Codes]
  /\ acts' \in [Processes -> Seq(Lines)] /\ pipe' \in [Streams -> Seq(Texts)] /\ \A s \in Streams : Len(pipe'[s]) <= PipeSize
ChildEffect ==
  /\ ChildFrame /\ ChildShape
  /\ Writers = {} => Writers' = {} /\ pipe' = pipe
  /\ Live # {}
  /\ state["root"] = "exited" => state'["root"] = "exited" /\ code'["root"] = code["root"]
  /\ state["root"] # "running" => acts'["root"] = acts["root"] /\ state'["root"] # "running"
  /\ doomed = {} /\ state["root"] = "suspended" => state'["root"] = "suspended"
  /\ doomed = {} => \A p \in Processes : code'[p] = Killed => code[p] = Killed
  /\ TreeInv' /\ SpokenInv' /\ FloodInv' /\ Asleep'

LEMMA ChildShapeKeeps == ASSUME LaunchInv, ChildFrame, ChildShape PROVE ShapeInv'
  BY DEF LaunchInv, ShapeInv, ChildFrame, ChildShape

LEMMA ScriptIs ==
  ASSUME ShapeInv, NEW p \in Processes PROVE Script(p) \in Seq(Lines) /\ EndOf(p) \notin {2, 91, Killed}
<1>1. case.mode \in Modes
  BY CasesAre DEF CaseIs, ShapeInv
<1>2. Script(p) \in Seq(Lines)
  <2>1. <<>> \in Seq(Lines)
    OBVIOUS
  <2> QED BY <2>1, RootScript, LeafScript DEF ShapeInv, Script
<1>3. Ends(case.mode) \in {0, 17, 94} /\ Ends("sleep") = 94
  BY <1>1 DEF Ends, Modes
<1> QED BY <1>2, <1>3 DEF EndOf, Killed

\* The next act of a running child.
LEMMA NextAct ==
  ASSUME LaunchInv, NEW p \in Processes, Runs(p), acts[p] # <<>>
  PROVE  /\ p \in {"root", "leaf"} /\ acts[p] \in Seq(Lines) /\ Len(acts[p]) \in Nat /\ Len(acts[p]) > 0
         /\ Head(acts[p]) \in Lines /\ code[p] # Killed
         /\ Failed(p) => Len(acts[p]) = 1 /\ Head(acts[p]) = Line("stdout", "FAIL")
         /\ ~Failed(p) => Follows(p) /\ Head(acts[p]) = Script(p)[Len(Script(p)) - Len(acts[p]) + 1]
                          /\ Len(Script(p)) - Len(acts[p]) + 1 \in 1..Len(Script(p))
<1>1. p \in {"root", "leaf"} /\ acts[p] \in Seq(Lines)
  BY DEF LaunchInv, TreeInv, ShapeInv, Processes
<1>2. Len(acts[p]) \in Nat /\ Len(acts[p]) > 0 /\ Head(acts[p]) = acts[p][1] /\ Head(acts[p]) \in Lines
  BY <1>1
<1>3. code[p] # Killed
  BY DEF LaunchInv, TreeInv, ProcessInv, Runs
<1>4. Failed(p) => Len(acts[p]) = 1 /\ Head(acts[p]) = Line("stdout", "FAIL")
  <2>1. Failed(p) => acts[p] = <<Line("stdout", "FAIL")>>
    BY DEF LaunchInv, TreeInv, ProcessInv, Refusals
  <2>2. Len(<<Line("stdout", "FAIL")>>) = 1 /\ Head(<<Line("stdout", "FAIL")>>) = Line("stdout", "FAIL")
    OBVIOUS
  <2> QED BY <2>1, <2>2
<1>5. ~Failed(p) => Follows(p)
  BY <1>3 DEF LaunchInv, TreeInv, ProcessInv
<1>6. Script(p) \in Seq(Lines) /\ Len(Script(p)) \in Nat
  BY ScriptIs DEF LaunchInv
<1>7. Follows(p) => /\ Head(acts[p]) = Script(p)[Len(Script(p)) - Len(acts[p]) + 1]
                    /\ Len(Script(p)) - Len(acts[p]) + 1 \in 1..Len(Script(p))
  <2> SUFFICES ASSUME Follows(p)
               PROVE  /\ acts[p][1] = Script(p)[Len(Script(p)) - Len(acts[p]) + 1]
                      /\ Len(Script(p)) - Len(acts[p]) + 1 \in 1..Len(Script(p))
    BY <1>2
  <2>1. Len(acts[p]) <= Len(Script(p)) /\ 1 \in 1..Len(acts[p])
    BY <1>2 DEF Follows
  <2>2. acts[p][1] = Script(p)[Len(Script(p)) - Len(acts[p]) + 1]
    BY <2>1 DEF Follows
  <2> QED BY <1>2, <1>6, <2>1, <2>2
<1> QED BY <1>1, <1>2, <1>3, <1>4, <1>5, <1>7

\* What that act can be.
LEMMA ActOfRoot ==
  ASSUME LaunchInv, Runs("root"), acts["root"] # <<>>
  PROVE  LET act == Head(acts["root"]) IN
         /\ act.text # "LEAF"
         /\ act.text = "READY" \/ act = Fork => case.mode \in TreeModes /\ ~Failed("root")
         /\ act = Fork => Len(acts["root"]) = Len(Acts(case.mode)) /\ state["leaf"] = "none"
         /\ \A s \in Streams : case.mode = Flooding[s] => Failed("root") \/ act = Line(s, "x")
         /\ case.mode \in Sleepers /\ ~Failed("root") /\ Len(acts["root"]) = 1 => act = Sleep
<1> DEFINE act == Head(acts["root"])
<1>0. "root" \in Processes /\ Script("root") = Acts(case.mode) /\ case \in Cases
  BY DEF Processes, Script, LaunchInv, ShapeInv
<1>1. CASE Failed("root")
  <2>1. act = Line("stdout", "FAIL")
    BY <1>0, <1>1, NextAct
  <2>2. Line("stdout", "FAIL").text = "FAIL" /\ Line("stdout", "FAIL") # Fork
    BY DEF Line, Fork
  <2> HIDE DEF act
  <2> QED BY <1>1, <2>1, <2>2 DEF act
<1>2. CASE ~Failed("root")
  <2> DEFINE n == Len(Acts(case.mode)) - Len(acts["root"]) + 1
  <2>1. act = Acts(case.mode)[n] /\ n \in 1..Len(Acts(case.mode)) /\ Len(acts["root"]) \in Nat /\ Len(acts["root"]) > 0
    BY <1>0, <1>2, NextAct
  <2>2. RootLine(act)
    BY <1>0, <2>1, RootScript
  <2>3. act = Fork => n = 1
    BY <1>0, <2>1, RootScript
  <2>4. Len(Acts(case.mode)) \in Nat
    BY <1>0, RootScript
  <2>5. act = Fork => Len(acts["root"]) = Len(Acts(case.mode)) /\ state["leaf"] = "none"
    BY <2>1, <2>3, <2>4 DEF LaunchInv, TreeInv
  <2>6. case.mode \in Sleepers /\ Len(acts["root"]) = 1 => act = Sleep
    BY <1>0, <2>1, RootScript
  <2> QED BY <1>2, <2>2, <2>5, <2>6 DEF RootLine
<1> QED BY <1>1, <1>2

LEMMA ActOfLeaf ==
  ASSUME LaunchInv, Runs("leaf"), acts["leaf"] # <<>>
  PROVE  LET act == Head(acts["leaf"]) IN
         /\ act.text # "READY" /\ act # Fork /\ Len(acts["leaf"]) <= 2
         /\ act.text = "LEAF" => code["leaf"] = 94
<1> DEFINE act == Head(acts["leaf"])
<1>0. "leaf" \in Processes /\ Script("leaf") = Acts("sleep") /\ EndOf("leaf") = 94 /\ EndOf("leaf") # Killed
  BY DEF Processes, Script, EndOf, Ends, Killed
<1>1. CASE Failed("leaf")
  <2>1. act = Line("stdout", "FAIL") /\ Len(acts["leaf"]) = 1
    BY <1>0, <1>1, NextAct
  <2>2. Line("stdout", "FAIL").text = "FAIL" /\ Line("stdout", "FAIL") # Fork
    BY DEF Line, Fork
  <2> HIDE DEF act
  <2> QED BY <1>1, <2>1, <2>2 DEF act
<1>2. CASE ~Failed("leaf")
  <2>1. code["leaf"] = 94
    <3>1. code["leaf"] \in {EndOf("leaf"), 2, 91, Killed}
      BY <1>0 DEF LaunchInv, TreeInv, ProcessInv
    <3>2. code["leaf"] # Killed
      BY <1>0, NextAct
    <3> QED BY <1>0, <1>2, <3>1, <3>2 DEF Failed
  <2> DEFINE n == Len(Acts("sleep")) - Len(acts["leaf"]) + 1
  <2>2. Follows("leaf") /\ act = Acts("sleep")[n] /\ n \in 1..Len(Acts("sleep"))
    BY <1>0, <1>2, NextAct
  <2>3. Len(Acts("sleep")) = 2
    BY LeafScript
  <2>a. Len(acts["leaf"]) <= 2
    BY <1>0, <2>2, <2>3 DEF Follows
  <2> HIDE DEF act, n
  <2>b. n = 1 \/ n = 2
    BY <2>2, <2>3
  <2>4. act \in {Line("stdout", "LEAF"), Sleep}
    BY <2>2, <2>b, LeafScript
  <2>5. Line("stdout", "LEAF").text = "LEAF" /\ Sleep.text = "" /\ Sleep # Fork /\ Line("stdout", "LEAF") # Fork
    BY DEF Line, Sleep, Fork
  <2> QED BY <2>1, <2>a, <2>4, <2>5 DEF act
<1> QED BY <1>1, <1>2

\* A process exits only once, and nobody starts one again.
LEMMA Absorbing ==
  ASSUME ShapeInv, state' \in [Processes -> {"none", "suspended", "running", "exited"}],
         \A p \in Processes : state'[p] \in {"suspended", "running"} => state[p] \in {"suspended", "running"}
  PROVE  Writers' \subseteq Writers /\ Live' \subseteq Live
  BY DEF Writers, Live, ShapeInv

\* Nothing is said anew while the pipes are as they were.
LEMMA SameSaid ==
  ASSUME LaunchInv, UNCHANGED <<pipe, kept, result>>, LeafSpoke => LeafSpoke', RootSpoke => RootSpoke'
  PROVE  SpokenInv'
<1>1. Heard("LEAF")' = Heard("LEAF") /\ Heard("READY")' = Heard("READY")
  BY DEF Heard
<1> QED BY <1>1 DEF LaunchInv, SpokenInv

LEMMA ExitsEffect ==
  ASSUME LaunchInv, NEW p \in Processes, ChildExits(p) PROVE ChildEffect
<1>1. /\ Runs(p) /\ acts[p] = <<>> /\ state' = [state EXCEPT ![p] = "exited"] /\ ChildFrame /\ UNCHANGED <<acts, code, pipe>>
  BY DEF ChildExits, ChildFrame, buffers, supervisor
<1>2. ChildShape
  BY <1>1 DEF LaunchInv, ShapeInv, ChildShape
<1>3. \A q \in Processes : state'[q] = IF q = p THEN "exited" ELSE state[q]
  BY <1>1 DEF LaunchInv, ShapeInv
<1>4. Writers' \subseteq Writers /\ Live' \subseteq Live
  BY <1>2, <1>3, Absorbing DEF LaunchInv, ChildShape
<1>5. code[p] # Killed /\ state[p] = "running"
  BY <1>1 DEF LaunchInv, TreeInv, ProcessInv, Runs
<1>6. ASSUME NEW q \in Processes PROVE ProcessInv(q)'
  <2>1. ProcessInv(q)
    BY DEF LaunchInv, TreeInv
  <2>2. EndOf(q)' = EndOf(q) /\ Failed(q)' = Failed(q) /\ Follows(q)' = Follows(q)
    BY <1>1 DEF EndOf, Failed, Follows, Script, ChildFrame
  <2> QED BY <1>1, <1>3, <1>5, <2>1, <2>2 DEF ProcessInv, Refusals
<1>7. TreeInv'
  <2>1. "leaf" \in Processes /\ (state'["leaf"] # "none" => state["leaf"] # "none")
    BY <1>3, <1>5 DEF Processes
  <2> QED BY <1>1, <1>6, <2>1 DEF LaunchInv, TreeInv, ChildFrame
<1>8. (LeafSpoke => LeafSpoke') /\ (RootSpoke => RootSpoke')
  <2>1. "leaf" \in Processes
    BY DEF Processes
  <2> QED BY <1>1, <1>3, <2>1 DEF LeafSpoke, RootSpoke, Failed, ChildFrame
<1>9. SpokenInv'
  BY <1>1, <1>8, SameSaid DEF ChildFrame
<1>10. FloodInv' /\ Asleep'
  BY <1>1 DEF LaunchInv, FloodInv, Units, Failed, Asleep, Early, ChildFrame
<1>11. /\ state["root"] = "exited" => state'["root"] = "exited"
       /\ state["root"] # "running" => state'["root"] # "running"
       /\ state["root"] = "suspended" => state'["root"] = "suspended"
  BY <1>3, <1>5 DEF Processes
<1>12. Live # {}
  BY <1>5 DEF Live
<1> QED BY <1>12, <1>1, <1>2, <1>4, <1>7, <1>9, <1>10, <1>11 DEF ChildEffect

LEMMA DiesEffect ==
  ASSUME LaunchInv, NEW p \in Processes, Dies(p) PROVE ChildEffect
<1>1. /\ p \in doomed \cap Live /\ state' = [state EXCEPT ![p] = "exited"] /\ code' = [code EXCEPT ![p] = Killed]
      /\ ChildFrame /\ UNCHANGED <<acts, pipe>>
  BY DEF Dies, ChildFrame, buffers, supervisor
<1>2. ChildShape
  BY <1>1 DEF LaunchInv, ShapeInv, ChildShape, Codes
<1>3. \A q \in Processes : /\ state'[q] = IF q = p THEN "exited" ELSE state[q]
                           /\ code'[q] = IF q = p THEN Killed ELSE code[q]
  BY <1>1 DEF LaunchInv, ShapeInv
<1>5. state[p] \in {"suspended", "running"} /\ doomed # {}
  BY <1>1 DEF Live
<1>4. Writers' \subseteq Writers /\ Live' \subseteq Live
  BY <1>2, <1>3, <1>5, Absorbing DEF LaunchInv, ChildShape
<1>0. Killed \notin {2, 91, 94, 0}
  BY DEF Killed
<1>6. ASSUME NEW q \in Processes PROVE ProcessInv(q)'
  <2>1. ProcessInv(q)
    BY DEF LaunchInv, TreeInv
  <2>2. EndOf(q)' = EndOf(q) /\ (q # p => Failed(q)' = Failed(q)) /\ (q = p => ~Failed(q)') /\ Follows(q)' = Follows(q)
    BY <1>0, <1>1, <1>3 DEF EndOf, Failed, Follows, Script, ChildFrame
  <2> QED BY <1>1, <1>3, <1>5, <2>1, <2>2 DEF ProcessInv, Refusals
<1>7. TreeInv'
  <2>1. "leaf" \in Processes /\ (state'["leaf"] # "none" => state["leaf"] # "none")
    BY <1>3, <1>5 DEF Processes
  <2> QED BY <1>1, <1>6, <2>1 DEF LaunchInv, TreeInv, ChildFrame
<1>a. "leaf" \in Processes /\ "root" \in Processes
  BY DEF Processes
<1>8. (LeafSpoke => LeafSpoke') /\ (RootSpoke => RootSpoke')
  <2>1. LeafSpoke => LeafSpoke'
    BY <1>1, <1>3, <1>a DEF LeafSpoke, ChildFrame
  <2>2. RootSpoke => RootSpoke'
    BY <1>0, <1>1, <1>3, <1>a DEF RootSpoke, Failed, ChildFrame
  <2> QED BY <2>1, <2>2
<1>9. SpokenInv'
  BY <1>1, <1>8, SameSaid DEF ChildFrame
<1>10. FloodInv' /\ Asleep'
  <2>1. (Failed("root")' => Failed("root")) /\ (code'["root"] = 0 => code["root"] = 0) /\ (code'["root"] = 94 => code["root"] = 94)
    BY <1>0, <1>3, <1>a DEF Failed
  <2>2. FloodInv'
    BY <1>1, <2>1 DEF LaunchInv, FloodInv, Units, ChildFrame
  <2> QED BY <1>1, <2>1, <2>2 DEF LaunchInv, Asleep, Early, ChildFrame
<1>11. /\ state["root"] = "exited" => state'["root"] = "exited" /\ code'["root"] = code["root"]
       /\ state["root"] # "running" => state'["root"] # "running"
  BY <1>3, <1>5, <1>a
<1>12. Live # {}
  BY <1>1
<1> QED BY <1>12, <1>1, <1>2, <1>4, <1>5, <1>7, <1>9, <1>10, <1>11 DEF ChildEffect

LEMMA ConsoleEffect ==
  ASSUME LaunchInv, ConsoleStarts PROVE ChildEffect
<1>1. /\ Runs("root") /\ state["console"] = "none" /\ state' = [state EXCEPT !["console"] = "running"]
      /\ ChildFrame /\ UNCHANGED <<acts, code, pipe>>
  BY DEF ConsoleStarts, ChildFrame, buffers, supervisor
<1>a. "leaf" \in Processes /\ "root" \in Processes /\ "console" \in Processes
  BY DEF Processes
<1>2. ChildShape
  BY <1>1 DEF LaunchInv, ShapeInv, ChildShape
<1>3. \A q \in Processes : state'[q] = IF q = "console" THEN "running" ELSE state[q]
  BY <1>1 DEF LaunchInv, ShapeInv
<1>4. "root" \in Writers /\ "root" \in Live
  BY <1>1, <1>a DEF Writers, Live, Runs
<1>6. ASSUME NEW q \in Processes PROVE ProcessInv(q)'
  <2>1. ProcessInv(q)
    BY DEF LaunchInv, TreeInv
  <2>2. EndOf(q)' = EndOf(q) /\ Failed(q)' = Failed(q) /\ Follows(q)' = Follows(q)
    BY <1>1 DEF EndOf, Failed, Follows, Script, ChildFrame
  <2>3. q = "console" => code[q] # Killed
    BY <1>1, <2>1 DEF ProcessInv
  <2> QED BY <1>1, <1>3, <2>1, <2>2, <2>3 DEF ProcessInv, Refusals
<1>7. TreeInv'
  BY <1>1, <1>3, <1>6, <1>a DEF LaunchInv, TreeInv, ChildFrame
<1>8. (LeafSpoke => LeafSpoke') /\ (RootSpoke => RootSpoke')
  BY <1>1, <1>3, <1>a DEF LeafSpoke, RootSpoke, Failed, ChildFrame
<1>9. SpokenInv'
  BY <1>1, <1>8, SameSaid DEF ChildFrame
<1>10. FloodInv' /\ Asleep'
  BY <1>1 DEF LaunchInv, FloodInv, Units, Failed, Asleep, Early, ChildFrame
<1>11. state'["root"] = state["root"] /\ state["root"] = "running"
  BY <1>1, <1>3, <1>a DEF Runs
<1> QED BY <1>1, <1>2, <1>4, <1>7, <1>9, <1>10, <1>11 DEF ChildEffect

\* The code a flooding child is about to exit with.
LEMMA FloodEnd == ASSUME case.mode \in {"flood-out", "flood-err"} PROVE EndOf("root") = 0 /\ case.mode \notin Sleepers \cup TreeModes
  BY DEF EndOf, Ends, Sleepers, TreeModes

LEMMA FailsEffect ==
  ASSUME LaunchInv, NEW p \in Processes, ChildFails(p) PROVE ChildEffect
<1>0. p \in {"root", "leaf"} /\ "leaf" \in Processes /\ "root" \in Processes
  BY DEF ChildFails, Processes
<1>1. /\ Runs(p) /\ acts[p] = Script(p) /\ code[p] \notin {2, 91} /\ ChildFrame /\ UNCHANGED <<state, pipe>>
  BY <1>0 DEF ChildFails, ChildFrame, buffers, supervisor, Script
<1>2. PICK rest \in Refusals, c \in {2, 91} : acts' = [acts EXCEPT ![p] = rest] /\ code' = [code EXCEPT ![p] = c]
  BY DEF ChildFails, Refusals
<1>3. \A q \in Processes : acts'[q] = (IF q = p THEN rest ELSE acts[q]) /\ code'[q] = IF q = p THEN c ELSE code[q]
  BY <1>2 DEF LaunchInv, ShapeInv
<1>4. rest \in Seq(Lines) /\ (Len(rest) = 0 \/ Len(rest) = 1)
  <2>1. Line("stdout", "FAIL") \in Lines
    BY DEF Line, Lines, Texts
  <2>2. <<Line("stdout", "FAIL")>> \in Seq(Lines) /\ Len(<<Line("stdout", "FAIL")>>) = 1
    BY <2>1
  <2>3. <<>> \in Seq(Lines) /\ Len(<<>>) = 0
    OBVIOUS
  <2>4. rest = <<Line("stdout", "FAIL")>> \/ rest = <<>>
    BY DEF Refusals
  <2>5. Len(rest) = 0 \/ Len(rest) = 1
    BY <2>2, <2>3, <2>4
  <2>6. rest \in Seq(Lines)
    BY <2>2, <2>3, <2>4
  <2> QED BY <2>5, <2>6
<1>5. ChildShape
  <2>1. c \in Codes
    BY DEF Codes
  <2> QED BY <1>1, <1>2, <1>4, <2>1 DEF LaunchInv, ShapeInv, ChildShape
<1>6. state[p] = "running" /\ code[p] # Killed /\ c # Killed
  BY <1>1 DEF LaunchInv, TreeInv, ProcessInv, Runs, Killed
<1>7. ASSUME NEW q \in Processes PROVE ProcessInv(q)'
  <2>1. ProcessInv(q)
    BY DEF LaunchInv, TreeInv
  <2>2. CASE q = p
    <3>1. code'[q] = c /\ acts'[q] = rest /\ Failed(q)' /\ state'[q] = "running"
      BY <1>1, <1>3, <1>6, <2>2 DEF Failed
    <3> QED BY <1>6, <3>1 DEF ProcessInv, Refusals
  <2>3. CASE q # p
    <3>0. code'[q] = code[q] /\ acts'[q] = acts[q]
      BY <1>3, <2>3
    <3>a. EndOf(q)' = EndOf(q) /\ Script(q)' = Script(q)
      BY <1>1 DEF EndOf, Script, ChildFrame
    <3>1. EndOf(q)' = EndOf(q) /\ Failed(q)' = Failed(q) /\ Follows(q)' = Follows(q) /\ code'[q] = code[q] /\ acts'[q] = acts[q]
      BY <3>0, <3>a DEF Failed, Follows
    <3> QED BY <1>1, <2>1, <3>1 DEF ProcessInv, Refusals
  <2> QED BY <2>2, <2>3
<1>8. p = "root" => state["leaf"] = "none" /\ ~RootSpoke
  <2>1. acts["root"] \in Seq(Lines) /\ Len(acts["root"]) \in Nat
    BY <1>0 DEF LaunchInv, ShapeInv
  <2> QED BY <1>0, <1>1, <2>1 DEF LaunchInv, TreeInv, Script, RootSpoke
<1>9. TreeInv'
  <2>1. acts'["console"] = <<>>
    BY <1>0, <1>3 DEF LaunchInv, TreeInv, Processes
  <2>2. state'["leaf"] # "none" => p # "root" /\ acts'["root"] = acts["root"]
    BY <1>0, <1>1, <1>3, <1>8
  <2> QED BY <1>1, <1>7, <2>1, <2>2 DEF LaunchInv, TreeInv, ChildFrame
<1>10. (LeafSpoke => LeafSpoke') /\ (RootSpoke => RootSpoke')
  <2>1. p = "leaf" => ~LeafSpoke
    <3>1. Script("leaf") = Acts("sleep") /\ Len(Acts("sleep")) = 2
      BY LeafScript DEF Script
    <3> SUFFICES ASSUME p = "leaf" PROVE ~LeafSpoke
      OBVIOUS
    <3>2. acts["leaf"] = Acts("sleep")
      BY <1>1, <3>1
    <3>3. ~(Len(acts["leaf"]) < 2)
      BY <3>1, <3>2
    <3> QED BY <3>3 DEF LeafSpoke
  <2>2. p = "root" => (LeafSpoke => LeafSpoke')
    BY <1>0, <1>1, <1>3 DEF LeafSpoke
  <2>3. p = "leaf" => (RootSpoke => RootSpoke')
    BY <1>0, <1>1, <1>3 DEF RootSpoke, Failed, ChildFrame
  <2> QED BY <1>0, <1>8, <2>1, <2>2, <2>3
<1>11. SpokenInv'
  BY <1>1, <1>10, SameSaid DEF ChildFrame
<1>12. FloodInv'
  <2>1. CASE p = "leaf"
    <3>1. acts'["root"] = acts["root"] /\ code'["root"] = code["root"] /\ UNCHANGED <<case, phase, kept, pipe, over>>
      BY <1>0, <1>1, <1>3, <2>1 DEF ChildFrame
    <3> QED BY <3>1 DEF LaunchInv, FloodInv, Units, Failed
  <2>2. CASE p = "root"
    <3> SUFFICES ASSUME NEW s \in Streams, case.mode = Flooding[s], phase # "killed"
                 PROVE  Failed("root")' /\ code'["root"] # 0 /\ Units(s)' <= 1 /\ ~over'[s]
      BY <1>1 DEF FloodInv, ChildFrame
    <3>1. case.mode \in {"flood-out", "flood-err"} /\ EndOf("root") = 0
      BY FloodEnd DEF Flooding, Streams
    <3>2. code["root"] = 0
      BY <1>0, <1>1, <1>6, <2>2, <3>1 DEF LaunchInv, TreeInv, ProcessInv
    <3>3. Len(acts["root"]) = Flood
      BY <1>1, <2>2, <3>1, RootScript DEF Script, LaunchInv, ShapeInv
    <3>4. Len(kept[s]) \in Nat /\ Len(pipe[s]) \in Nat /\ Flood \in Nat /\ Limit \in Nat /\ Limit >= 2
      BY LaunchAssumption DEF LaunchInv, ShapeInv
    <3>5. Units(s) <= Flood
      BY <3>2 DEF LaunchInv, FloodInv
    <3>6. Len(kept[s]) = 0 /\ Len(pipe[s]) = 0
      <4>1. Len(kept[s]) + Len(pipe[s]) + Flood <= Flood
        BY <3>3, <3>5 DEF Units
      <4>2. PICK k \in Nat, l \in Nat : k = Len(kept[s]) /\ l = Len(pipe[s])
        BY <3>4
      <4>3. k + l + Flood <= Flood
        BY <4>1, <4>2
      <4>4. k = 0 /\ l = 0
        BY <3>4, <4>3
      <4> QED BY <4>2, <4>4
    <3>7. ~over[s]
      BY <3>4, <3>6 DEF LaunchInv, BufferInv
    <3>8. Units(s)' = 0 + 0 + Len(rest)
      BY <1>0, <1>1, <1>3, <2>2, <3>6 DEF Units, ChildFrame
    <3> QED BY <1>0, <1>1, <1>3, <1>4, <2>2, <3>7, <3>8 DEF Failed, ChildFrame
  <2> QED BY <1>0, <2>1, <2>2
<1>13. Asleep'
  BY <1>0, <1>1, <1>3 DEF LaunchInv, Asleep, Early, ChildFrame
<1>14. Writers' = Writers /\ Live' = Live
  BY <1>1 DEF Writers, Live
<1>16. Live # {}
  BY <1>6 DEF Live
<1>15. state["root"] = "exited" \/ state["root"] # "running" => p # "root"
  BY <1>6
<1> QED BY <1>0, <1>1, <1>3, <1>5, <1>6, <1>9, <1>11, <1>12, <1>13, <1>14, <1>15, <1>16 DEF ChildEffect

LEMMA Appended ==
  ASSUME NEW q \in Seq(Texts), NEW t \in Texts
  PROVE  /\ Append(q, t) \in Seq(Texts) /\ Len(Append(q, t)) = Len(q) + 1
         /\ \A i \in 1..(Len(q) + 1) : Append(q, t)[i] = IF i <= Len(q) THEN q[i] ELSE t
  OBVIOUS

\* What a turn of a script leaves of it.
LEMMA TurnKeeps ==
  ASSUME LaunchInv, NEW p \in Processes, Runs(p), acts[p] # <<>>, acts' = [acts EXCEPT ![p] = Tail(@)], UNCHANGED <<case, code>>,
         state' \in [Processes -> {"none", "suspended", "running", "exited"}],
         \A q \in Processes : state'[q] = state[q] \/ (state'[q] = "running" /\ code[q] # Killed)
  PROVE  /\ acts' \in [Processes -> Seq(Lines)] /\ Len(acts'[p]) \in Nat /\ Len(acts'[p]) = Len(acts[p]) - 1
         /\ \A q \in Processes : q # p => acts'[q] = acts[q]
         /\ \A q \in Processes : ProcessInv(q)'
<1>1. /\ acts[p] \in Seq(Lines) /\ Len(acts[p]) \in Nat /\ Len(acts[p]) > 0
      /\ Failed(p) => Len(acts[p]) = 1
      /\ ~Failed(p) => Follows(p)
  BY NextAct
<1>2. /\ Tail(acts[p]) \in Seq(Lines) /\ Len(Tail(acts[p])) = Len(acts[p]) - 1
      /\ \A i \in 1..(Len(acts[p]) - 1) : Tail(acts[p])[i] = acts[p][i + 1]
  BY <1>1
<1>3. acts' \in [Processes -> Seq(Lines)] /\ \A q \in Processes : acts'[q] = IF q = p THEN Tail(acts[p]) ELSE acts[q]
  BY <1>2 DEF LaunchInv, ShapeInv
<1>4. ASSUME NEW q \in Processes PROVE ProcessInv(q)'
  <2>1. ProcessInv(q) /\ (state[q] = "running" => code[q] # Killed)
    BY DEF LaunchInv, TreeInv, ProcessInv
  <2>2. EndOf(q)' = EndOf(q) /\ Failed(q)' = Failed(q) /\ code'[q] = code[q] /\ Script(q)' = Script(q)
    BY DEF EndOf, Failed, Script
  <2>3. CASE q # p
    <3>1. acts'[q] = acts[q] /\ Follows(q)' = Follows(q)
      BY <1>3, <2>2, <2>3 DEF Follows
    <3> QED BY <2>1, <2>2, <3>1 DEF ProcessInv, Refusals
  <2>4. CASE q = p
    <3>0. state'[p] = "running" /\ code[p] # Killed
      BY <2>1, <2>4 DEF Runs
    <3>1. CASE Failed(p)
      <4>1. Len(Tail(acts[p])) = 0
        BY <1>1, <1>2, <3>1
      <4>2. acts'[p] = <<>>
        BY <1>2, <1>3, <4>1, EmptySeq
      <4> QED BY <2>1, <2>2, <2>4, <3>0, <3>1, <4>2 DEF ProcessInv, Refusals
    <3>2. CASE ~Failed(p)
      <4>1. Follows(p) /\ Script(p) \in Seq(Lines) /\ Len(Script(p)) \in Nat
        BY <1>1, <3>2, ScriptIs DEF LaunchInv
      <4>2. Len(acts'[p]) = Len(acts[p]) - 1 /\ Len(acts[p]) <= Len(Script(p))
        BY <1>2, <1>3, <4>1 DEF Follows
      <4>3. ASSUME NEW i \in 1..Len(acts'[p]) PROVE acts'[p][i] = Script(p)[Len(Script(p)) - Len(acts'[p]) + i]
        <5>1. i \in 1..(Len(acts[p]) - 1) /\ i + 1 \in 1..Len(acts[p])
          BY <1>1, <4>2
        <5>2. acts'[p][i] = acts[p][i + 1]
          BY <1>2, <1>3, <5>1
        <5>3. acts[p][i + 1] = Script(p)[Len(Script(p)) - Len(acts[p]) + (i + 1)]
          BY <4>1, <5>1 DEF Follows
        <5>4. Len(Script(p)) - Len(acts[p]) + (i + 1) = Len(Script(p)) - Len(acts'[p]) + i
          <6>1. PICK a \in Int, b \in Int, d \in Int : a = Len(Script(p)) /\ b = Len(acts[p]) /\ d = Len(acts'[p])
            BY <1>1, <4>1, <4>2
          <6>2. d = b - 1 /\ i \in Int
            BY <4>2, <4>3, <6>1
          <6>3. a - b + (i + 1) = a - d + i
            BY <6>2
          <6> QED BY <6>1, <6>3
        <5> QED BY <5>2, <5>3, <5>4
      <4>4. Follows(p)'
        <5>1. Len(acts'[p]) <= Len(Script(p)) /\ Script(p)' = Script(p)
          BY <1>1, <2>2, <2>4, <4>1, <4>2
        <5> QED BY <4>3, <5>1 DEF Follows
      <4> QED BY <2>1, <2>2, <2>4, <3>0, <3>2, <4>4 DEF ProcessInv
    <3> QED BY <3>1, <3>2
  <2> QED BY <2>3, <2>4
<1> QED BY <1>1, <1>2, <1>3, <1>4

\* The flooding child writes one unit more and has one less to write.
LEMMA WriteFloods ==
  ASSUME LaunchInv, Runs("root"), acts["root"] # <<>>, ChildFrame, UNCHANGED code, NEW q \in Streams,
         Len(acts'["root"]) = Len(acts["root"]) - 1, Head(acts["root"]).do = q,
         Len(pipe'[q]) = Len(pipe[q]) + 1, \A s \in Streams : s # q => pipe'[s] = pipe[s]
  PROVE  FloodInv'
<1> SUFFICES ASSUME NEW s \in Streams, case.mode = Flooding[s], phase # "killed"
             PROVE  /\ Failed("root") => Units(s)' <= 1 /\ ~over[s]
                    /\ code["root"] = 0 => Units(s)' <= Flood /\ (~over[s] => Units(s)' = Flood)
  BY DEF FloodInv, ChildFrame, Failed
<1>1. /\ Failed("root") => Units(s) <= 1 /\ ~over[s]
      /\ code["root"] = 0 => Units(s) <= Flood /\ (~over[s] => Units(s) = Flood)
  BY DEF LaunchInv, FloodInv
<1>2. PICK k \in Nat, l \in Nat, m \in Nat : k = Len(kept[s]) /\ l = Len(pipe[s]) /\ m = Len(acts["root"])
  BY DEF LaunchInv, ShapeInv, Processes
<1>3. Units(s) = k + l + m
  BY <1>2 DEF Units
<1>4. Len(pipe'[s]) = IF s = q THEN l + 1 ELSE l
  BY <1>2
<1>5. Units(s)' = IF s = q THEN k + (l + 1) + (m - 1) ELSE k + l + (m - 1)
  BY <1>2, <1>4 DEF Units, ChildFrame
<1>6. code["root"] = 0 => s = q
  <2>1. code["root"] = 0 => ~Failed("root")
    BY DEF Failed
  <2>2. ~Failed("root") => Head(acts["root"]) = Line(s, "x")
    BY ActOfRoot
  <2>3. Line(s, "x").do = s
    BY DEF Line
  <2> QED BY <2>1, <2>2, <2>3
<1>7. Flood \in Nat
  BY LaunchAssumption
<1> HIDE DEF Units
<1> QED BY <1>1, <1>3, <1>5, <1>6, <1>7

LEMMA ActsEffect ==
  ASSUME LaunchInv, NEW p \in Processes, ChildActs(p) PROVE ChildEffect
<1> DEFINE act == Head(acts[p])
<1>0. /\ Runs(p) /\ acts[p] # <<>> /\ acts' = [acts EXCEPT ![p] = Tail(@)] /\ ChildFrame /\ UNCHANGED code
      /\ \/ /\ act.do \in Streams /\ Len(pipe[act.do]) < PipeSize
            /\ pipe' = [pipe EXCEPT ![act.do] = Append(@, act.text)] /\ UNCHANGED state
         \/ act = Fork /\ state' = [state EXCEPT !["leaf"] = "running"] /\ UNCHANGED pipe
         \/ act = Sleep /\ Slept /\ UNCHANGED <<state, pipe>>
  BY DEF ChildActs, ChildFrame, buffers, supervisor
<1>1. /\ p \in {"root", "leaf"} /\ act \in Lines /\ code[p] # Killed /\ Len(acts[p]) \in Nat /\ Len(acts[p]) > 0
      /\ "root" \in Processes /\ "leaf" \in Processes /\ "console" \in Processes
  BY <1>0, NextAct DEF Processes
<1>2. p = "leaf" => act # Fork
  BY <1>0, <1>1, ActOfLeaf
<1>3. act = Fork => p = "root" /\ state["leaf"] = "none" /\ case.mode \in TreeModes /\ ~Failed("root")
  BY <1>0, <1>1, <1>2, ActOfRoot
<1>4. act.text \in Texts /\ Line("fork", "") \notin {Line("sleep", "")} /\ Fork.do \notin Streams /\ Sleep.do \notin Streams /\ Fork # Sleep
  BY <1>1 DEF Lines, Line, Fork, Sleep, Streams
<1> HIDE DEF act
<1>5. /\ state' \in [Processes -> {"none", "suspended", "running", "exited"}]
      /\ \A q \in Processes : state'[q] = state[q] \/ (q = "leaf" /\ state[q] = "none" /\ state'[q] = "running" /\ act = Fork)
  BY <1>0, <1>1, <1>3 DEF LaunchInv, ShapeInv
<1>6. \A q \in Processes : state'[q] = state[q] \/ (state'[q] = "running" /\ code[q] # Killed)
  BY <1>5 DEF LaunchInv, TreeInv, ProcessInv
<1>7. /\ acts' \in [Processes -> Seq(Lines)] /\ Len(acts'[p]) \in Nat /\ Len(acts'[p]) = Len(acts[p]) - 1
      /\ \A q \in Processes : q # p => acts'[q] = acts[q]
      /\ \A q \in Processes : ProcessInv(q)'
  BY <1>0, <1>5, <1>6, TurnKeeps DEF ChildFrame
<1>8. \A s \in Streams : /\ pipe'[s] \in Seq(Texts) /\ Len(pipe'[s]) <= PipeSize
                         /\ \A t : Contains(pipe'[s], t) => Contains(pipe[s], t) \/ t = act.text
                         /\ pipe'[s] = pipe[s] \/ (s = act.do /\ Len(pipe'[s]) = Len(pipe[s]) + 1)
  <2> SUFFICES ASSUME NEW s \in Streams
               PROVE  /\ pipe'[s] \in Seq(Texts) /\ Len(pipe'[s]) <= PipeSize
                      /\ \A t : Contains(pipe'[s], t) => Contains(pipe[s], t) \/ t = act.text
                      /\ pipe'[s] = pipe[s] \/ (s = act.do /\ Len(pipe'[s]) = Len(pipe[s]) + 1)
    OBVIOUS
  <2>1. pipe[s] \in Seq(Texts) /\ Len(pipe[s]) \in Nat /\ Len(pipe[s]) <= PipeSize /\ PipeSize \in Nat
    BY LaunchAssumption DEF LaunchInv, ShapeInv
  <2>2. CASE pipe'[s] = pipe[s]
    BY <2>1, <2>2
  <2>3. CASE s = act.do /\ Len(pipe[s]) < PipeSize /\ pipe'[s] = Append(pipe[s], act.text)
    <3>1. /\ Append(pipe[s], act.text) \in Seq(Texts) /\ Len(Append(pipe[s], act.text)) = Len(pipe[s]) + 1
          /\ \A i \in 1..(Len(pipe[s]) + 1) : Append(pipe[s], act.text)[i] = IF i <= Len(pipe[s]) THEN pipe[s][i] ELSE act.text
      BY <1>4, <2>1, Appended
    <3>2. \A t : Contains(pipe'[s], t) => Contains(pipe[s], t) \/ t = act.text
      BY <2>1, <2>3, <3>1 DEF Contains
    <3> QED BY <2>1, <2>3, <3>1, <3>2
  <2> QED BY <1>0, <2>2, <2>3 DEF LaunchInv, ShapeInv
<1>9. pipe' \in [Streams -> Seq(Texts)]
  <2>1. DOMAIN pipe' = Streams /\ pipe' = [s \in Streams |-> pipe'[s]]
    BY <1>0 DEF LaunchInv, ShapeInv
  <2> QED BY <1>8, <2>1
<1>10. ChildShape
  BY <1>0, <1>5, <1>7, <1>8, <1>9 DEF ChildShape, LaunchInv, ShapeInv
<1>11. TreeInv'
  <2>1. acts'["console"] = <<>>
    BY <1>1, <1>7 DEF LaunchInv, TreeInv
  <2>2. acts["root"] \in Seq(Lines) /\ Len(acts["root"]) \in Nat /\ Len(Acts(case.mode)) \in Nat /\ Len(acts'["root"]) <= Len(acts["root"])
    BY <1>1, <1>7, RootScript DEF LaunchInv, ShapeInv
  <2>3. state'["leaf"] # "none" => case.mode \in TreeModes /\ Len(acts'["root"]) < Len(Acts(case.mode))
    <3>1. CASE state["leaf"] # "none"
      BY <2>2, <3>1 DEF LaunchInv, TreeInv
    <3>2. CASE act = Fork
      <4>1. p = "root" /\ Len(acts["root"]) = Len(Acts(case.mode)) /\ case.mode \in TreeModes
        BY <1>0, <1>1, <1>3, <3>2, ActOfRoot DEF act
      <4>2. PICK a \in Nat : a = Len(Acts(case.mode)) /\ Len(acts'["root"]) = a - 1
        BY <1>7, <2>2, <4>1
      <4> QED BY <4>1, <4>2
    <3> QED BY <1>1, <1>5, <3>1, <3>2
  <2> QED BY <1>0, <1>7, <2>1, <2>3 DEF TreeInv, ChildFrame
<1>12. (LeafSpoke => LeafSpoke') /\ (RootSpoke => RootSpoke')
  <2>1. \A q \in {"root", "leaf"} : Len(acts'[q]) \in Nat /\ Len(acts[q]) \in Nat /\ Len(acts'[q]) <= Len(acts[q])
    BY <1>1, <1>7 DEF LaunchInv, ShapeInv, Processes
  <2>2. LeafSpoke => state'["leaf"] = state["leaf"]
    BY <1>1, <1>5 DEF LeafSpoke
  <2>3. LeafSpoke => LeafSpoke'
    BY <1>0, <2>1, <2>2 DEF LeafSpoke
  <2>4. Len(Acts(case.mode)) \in Nat
    BY RootScript DEF LaunchInv, ShapeInv
  <2>5. RootSpoke => RootSpoke'
    BY <1>0, <2>1, <2>4 DEF RootSpoke, Failed, ChildFrame
  <2> QED BY <2>3, <2>5
<1>13. SpokenInv'
  <2>1. \A t : Heard(t)' => Heard(t) \/ (t = act.text /\ act.do \in Streams)
    BY <1>0, <1>8 DEF Heard, ChildFrame
  <2>2. act.text = "LEAF" /\ act.do \in Streams => LeafSpoke'
    <3> SUFFICES ASSUME act.text = "LEAF", act.do \in Streams PROVE LeafSpoke'
      OBVIOUS
    <3>1. p = "leaf"
      BY <1>0, <1>1, ActOfRoot DEF act
    <3>2. Len(acts["leaf"]) <= 2 /\ code["leaf"] = 94
      BY <1>0, <3>1, ActOfLeaf DEF act
    <3>3. state'["leaf"] = "running" /\ code'["leaf"] = 94
      BY <1>0, <1>1, <1>5, <3>1, <3>2 DEF Runs
    <3>4. Len(acts'["leaf"]) < 2
      BY <1>1, <1>7, <3>1, <3>2
    <3> QED BY <3>3, <3>4 DEF LeafSpoke
  <2>3. act.text = "READY" /\ act.do \in Streams => RootSpoke'
    <3> SUFFICES ASSUME act.text = "READY", act.do \in Streams PROVE RootSpoke'
      OBVIOUS
    <3>1. p = "root"
      BY <1>0, <1>1, ActOfLeaf DEF act
    <3>2. case.mode \in TreeModes /\ ~Failed("root")
      BY <1>0, <3>1, ActOfRoot DEF act
    <3>3. Follows("root") /\ Script("root") = Acts(case.mode) /\ Len(Acts(case.mode)) \in Nat
      BY <1>0, <1>1, <3>1, <3>2, NextAct, RootScript DEF Script, LaunchInv, ShapeInv
    <3>4. Len(acts["root"]) <= Len(Acts(case.mode))
      BY <3>3 DEF Follows
    <3>5. Len(acts'["root"]) < Len(Acts(case.mode))
      BY <1>1, <1>7, <3>1, <3>3, <3>4
    <3> QED BY <1>0, <3>2, <3>5 DEF RootSpoke, Failed, ChildFrame
  <2>4. result' = result
    BY <1>0 DEF ChildFrame
  <2> QED BY <1>12, <2>1, <2>2, <2>3, <2>4 DEF LaunchInv, SpokenInv
<1>14. FloodInv'
  <2>1. CASE \E s \in Streams : case.mode = Flooding[s]
    <3>1. case.mode \notin TreeModes
      BY <2>1 DEF Flooding, Streams, TreeModes
    <3>2. p = "root"
      <4>1. state["leaf"] = "none"
        BY <3>1 DEF LaunchInv, TreeInv
      <4> QED BY <1>0, <1>1, <4>1 DEF Runs
    <3>3. CASE act.do \in Streams
      <4>1. Len(pipe'[act.do]) = Len(pipe[act.do]) + 1 /\ \A s \in Streams : s # act.do => pipe'[s] = pipe[s]
        <5>1. pipe' = [pipe EXCEPT ![act.do] = Append(@, act.text)]
          <6>1. act # Fork /\ act # Sleep
            BY <1>4, <3>3
          <6> QED BY <1>0, <6>1
        <5>2. pipe'[act.do] = Append(pipe[act.do], act.text) /\ pipe[act.do] \in Seq(Texts) /\ \A s \in Streams : s # act.do => pipe'[s] = pipe[s]
          BY <3>3, <5>1 DEF LaunchInv, ShapeInv
        <5>3. Len(Append(pipe[act.do], act.text)) = Len(pipe[act.do]) + 1
          BY <1>4, <5>2, Appended
        <5> QED BY <5>2, <5>3
      <4> QED BY <1>0, <1>7, <3>2, <3>3, <4>1, WriteFloods DEF act
    <3>4. CASE act.do \notin Streams
      <4>1. UNCHANGED pipe
        BY <1>0, <3>4
      <4> SUFFICES ASSUME NEW s \in Streams, case.mode = Flooding[s], phase # "killed"
                   PROVE  /\ Failed("root") => Units(s)' <= 1 /\ ~over[s]
                          /\ code["root"] # 0
        BY <1>0 DEF FloodInv, ChildFrame, Failed
      <4>2. Failed("root")
        <5>1. Line(s, "x").do = s
          BY DEF Line
        <5>2. Failed("root") \/ act = Line(s, "x")
          BY <1>0, <3>2, ActOfRoot DEF act
        <5> QED BY <3>4, <5>1, <5>2
      <4>3. Units(s) <= 1 /\ ~over[s]
        BY <4>2 DEF LaunchInv, FloodInv
      <4>4. PICK k \in Nat, l \in Nat, m \in Nat : k = Len(kept[s]) /\ l = Len(pipe[s]) /\ m = Len(acts["root"])
        BY <1>1 DEF LaunchInv, ShapeInv
      <4>5. Units(s) = k + l + m /\ Units(s)' = k + l + (m - 1)
        BY <1>0, <1>7, <3>2, <4>1, <4>4 DEF Units, ChildFrame
      <4> QED BY <4>2, <4>3, <4>5 DEF Failed
    <3> QED BY <3>3, <3>4
  <2>2. CASE \A s \in Streams : case.mode # Flooding[s]
    BY <1>0, <2>2 DEF FloodInv, ChildFrame
  <2> QED BY <2>1, <2>2
<1>15. Asleep'
  <2> SUFFICES ASSUME Early, clock # "all", case.mode \in Sleepers, code["root"] = 94 PROVE acts'["root"] # <<>>
    BY <1>0 DEF Asleep, Early, ChildFrame
  <2>1. acts["root"] # <<>>
    BY DEF LaunchInv, Asleep
  <2>2. CASE p = "leaf"
    BY <1>1, <1>7, <2>1, <2>2
  <2>3. CASE p = "root"
    <3>1. ~Failed("root")
      BY DEF Failed
    <3>2. act = Sleep => FALSE
      <4>1. Slept => phase # "poll" /\ phase # "inspect"
        BY DEF Slept
      <4>2. Runs("root") => phase # "start"
        BY <1>1 DEF LaunchInv, PhaseInv, Runs
      <4> QED BY <1>0, <1>4, <2>3, <4>1, <4>2 DEF Early
    <3>3. Len(acts["root"]) # 1
      BY <1>0, <2>3, <3>1, <3>2, ActOfRoot DEF act
    <3>4. Len(acts'["root"]) # 0
      <4>1. PICK n \in Nat : n = Len(acts["root"])
        BY <1>1, <2>3
      <4>2. Len(acts'["root"]) = n - 1 /\ n # 1
        BY <1>7, <2>3, <3>3, <4>1
      <4>3. n - 1 # 0
        BY <4>2
      <4> QED BY <4>2, <4>3
    <3>5. Len(<<>>) = 0
      OBVIOUS
    <3> QED BY <3>4, <3>5
  <2> QED BY <1>1, <2>2, <2>3
<1>16. (Writers = {} => Writers' = {} /\ pipe' = pipe) /\ Live # {}
  <2>1. p \in Writers /\ p \in Live
    BY <1>0, <1>1 DEF Writers, Live, Runs
  <2> QED BY <2>1
<1>17. /\ state["root"] = "exited" => state'["root"] = "exited" /\ code'["root"] = code["root"]
       /\ state["root"] # "running" => acts'["root"] = acts["root"] /\ state'["root"] # "running"
       /\ state["root"] = "suspended" => state'["root"] = "suspended"
  <2>1. state'["root"] = state["root"] /\ (p = "root" => state["root"] = "running")
    BY <1>0, <1>1, <1>5 DEF Runs
  <2> QED BY <1>0, <1>1, <1>7, <2>1
<1> QED BY <1>0, <1>10, <1>11, <1>13, <1>14, <1>15, <1>16, <1>17 DEF ChildEffect

LEMMA ChildKeeps == ASSUME LaunchInv, ChildEffect PROVE LaunchInv'
<1>1. ShapeInv' /\ TreeInv' /\ SpokenInv' /\ FloodInv' /\ Asleep'
  BY ChildShapeKeeps DEF ChildEffect
<1>2. UNCHANGED <<case, doomed, kept, closed, over, phase, at, chunk, saw, ready, result, clock>> /\ Live # {}
  BY DEF ChildEffect, ChildFrame
<1>3. BufferInv'
  BY <1>2 DEF LaunchInv, BufferInv, ChildEffect
<1>4. Spared'
  BY <1>2 DEF LaunchInv, Spared, Early, ChildEffect
<1>5. Unresumed'
  BY <1>2 DEF LaunchInv, Unresumed, ChildEffect
<1>6. PhaseInv'
  <2>1. phase # "start"
    BY <1>2 DEF LaunchInv, PhaseInv, Live
  <2>2. phase = "inspect" => doomed = {}
    BY DEF LaunchInv, Spared, Early
  <2>3. ~(phase = "cleanup" /\ at = "decide" /\ saw.active = 0)
    BY <1>2 DEF LaunchInv, PhaseInv
  <2>4. saw.exited => state'["root"] = "exited"
    BY DEF LaunchInv, PhaseInv, ChildEffect
  <2>5. phase = "inspect" => state'["root"] = "suspended"
    BY <2>2 DEF LaunchInv, PhaseInv, ChildEffect
  <2> QED BY <1>2, <2>1, <2>3, <2>4, <2>5 DEF LaunchInv, PhaseInv, Early
<1>7. ExitInv'
  BY <1>2 DEF LaunchInv, ExitInv, Failed, ChildEffect
<1>8. OutcomeInv'
  <2>1. result.outcome = "Completed" => code'["root"] = code["root"]
    BY DEF LaunchInv, OutcomeInv, ExitInv, NaturalEnds, ChildEffect
  <2> QED BY <1>2, <2>1 DEF LaunchInv, OutcomeInv
<1>9. PassedInv'
  <2>1. result.passed => case.cancelled
    BY <1>2 DEF LaunchInv, PassedInv
  <2> QED BY <1>2, <2>1 DEF LaunchInv, PassedInv
<1> QED BY <1>1, <1>3, <1>4, <1>5, <1>6, <1>7, <1>8, <1>9 DEF LaunchInv

\* A step of the supervisor that leaves the children and the buffers as they are.
Quiet == UNCHANGED <<case, state, acts, code, pipe, kept, closed, over>>

LEMMA TreeKeeps == ASSUME LaunchInv, UNCHANGED <<case, acts, code, state>> PROVE TreeInv'
<1>1. ASSUME NEW p \in Processes PROVE ProcessInv(p)'
  <2>1. ProcessInv(p)
    BY DEF LaunchInv, TreeInv
  <2>2. EndOf(p)' = EndOf(p) /\ Failed(p)' = Failed(p) /\ Follows(p)' = Follows(p)
    BY DEF EndOf, Failed, Follows, Script
  <2> QED BY <2>1, <2>2 DEF ProcessInv, Refusals
<1> QED BY <1>1 DEF LaunchInv, TreeInv

LEMMA QuietKeeps ==
  ASSUME LaunchInv, Quiet, phase # "killed", result'.tree => result.tree \/ (Said("READY") /\ Said("LEAF"))
  PROVE  TreeInv' /\ SpokenInv' /\ BufferInv' /\ FloodInv' /\ Live' = Live
<1>1. TreeInv'
  BY TreeKeeps DEF Quiet
<1>2. Live' = Live /\ Writers' = Writers /\ UNCHANGED <<LeafSpoke, RootSpoke>>
  BY DEF Quiet, Live, Writers, LeafSpoke, RootSpoke, Failed
<1>3. \A t : Heard(t)' = Heard(t) /\ (Said(t) => Heard(t))
  BY DEF Quiet, Heard, Said, Streams
<1>4. SpokenInv'
  BY <1>2, <1>3 DEF LaunchInv, SpokenInv
<1>5. BufferInv'
  BY <1>2 DEF LaunchInv, BufferInv, Quiet
<1>6. FloodInv'
  BY DEF LaunchInv, FloodInv, Units, Failed, Quiet
<1> QED BY <1>1, <1>2, <1>4, <1>5, <1>6

\* What the record says while the supervisor works.
LEMMA NotPassed == ASSUME LaunchInv, phase # "done" PROVE ~result.passed
  BY DEF LaunchInv, PassedInv

LEMMA ActiveKeeps == ASSUME LaunchInv, Active PROVE LaunchInv'
<1>1. /\ phase \in {"poll", "cleanup"} /\ at = "active" /\ saw' = [saw EXCEPT !.active = Cardinality(Live)]
      /\ at' = (IF phase = "cleanup" THEN "decide" ELSE "exited")
      /\ Quiet /\ UNCHANGED <<doomed, phase, chunk, clock, ready, result>>
  BY DEF Active, Polling, Following, Quiet, children, buffers
<1>2. Cardinality(Live) \in 0..3 /\ (Cardinality(Live) = 0 => Live = {})
  <2>1. Processes = {"root", "leaf", "console"} /\ IsFiniteSet(Processes) /\ Cardinality(Processes) = 3
    <3>1. IsFiniteSet({"root", "leaf", "console"}) /\ Cardinality({"root", "leaf", "console"}) = 3
      <4>1. IsFiniteSet({}) /\ Cardinality({}) = 0
        BY FS_EmptySet
      <4>2. IsFiniteSet({} \cup {"root"}) /\ Cardinality({} \cup {"root"}) = 1
        BY <4>1, FS_AddElement
      <4>3. IsFiniteSet({} \cup {"root"} \cup {"leaf"}) /\ Cardinality({} \cup {"root"} \cup {"leaf"}) = 2
        BY <4>2, FS_AddElement
      <4>4. IsFiniteSet({} \cup {"root"} \cup {"leaf"} \cup {"console"}) /\ Cardinality({} \cup {"root"} \cup {"leaf"} \cup {"console"}) = 3
        BY <4>3, FS_AddElement
      <4>5. {} \cup {"root"} \cup {"leaf"} \cup {"console"} = {"root", "leaf", "console"}
        OBVIOUS
      <4> QED BY <4>4, <4>5
    <3> QED BY <3>1 DEF Processes
  <2>2. Live \subseteq Processes
    BY DEF Live
  <2>3. IsFiniteSet(Live) /\ Cardinality(Live) <= 3
    BY <2>1, <2>2, FS_Subset
  <2>4. Cardinality(Live) \in Nat /\ (Cardinality(Live) = 0 => Live = {})
    BY <2>3, FS_CardinalityType, FS_EmptySet
  <2> QED BY <2>3, <2>4
<1>3. saw' \in [active : 0..3, exited : BOOLEAN] /\ saw'.exited = saw.exited /\ saw'.active = Cardinality(Live)
  BY <1>1, <1>2 DEF LaunchInv, ShapeInv
<1>4. ShapeInv'
  BY <1>1, <1>3 DEF LaunchInv, ShapeInv, Quiet
<1>5. TreeInv' /\ SpokenInv' /\ BufferInv' /\ FloodInv' /\ Live' = Live
  BY <1>1, QuietKeeps
<1>6. Asleep' /\ Spared' /\ Unresumed'
  BY <1>1 DEF LaunchInv, Asleep, Spared, Unresumed, Early, Quiet
<1>7. PhaseInv'
  <2>1. at' \notin Streams
    BY <1>1 DEF Streams
  <2> QED BY <1>1, <1>2, <1>3, <1>5, <2>1 DEF LaunchInv, PhaseInv, Early, Quiet
<1>8. ExitInv' /\ OutcomeInv'
  BY <1>1 DEF LaunchInv, ExitInv, OutcomeInv, Failed, Quiet
<1>9. PassedInv'
  BY <1>1, NotPassed DEF PassedInv
<1> QED BY <1>4, <1>5, <1>6, <1>7, <1>8, <1>9 DEF LaunchInv

LEMMA ExitedKeeps == ASSUME LaunchInv, Exited PROVE LaunchInv'
<1>1. /\ phase \in {"poll", "cleanup"} /\ at = "exited" /\ saw' = [saw EXCEPT !.exited = state["root"] = "exited"]
      /\ at' = (IF phase = "cleanup" THEN "active" ELSE "decide")
      /\ Quiet /\ UNCHANGED <<doomed, phase, chunk, clock, ready, result>>
  BY DEF Exited, Polling, Following, Quiet, children, buffers
<1>3. saw' \in [active : 0..3, exited : BOOLEAN] /\ (saw'.exited <=> state["root"] = "exited") /\ saw'.active = saw.active
  BY <1>1 DEF LaunchInv, ShapeInv
<1>4. ShapeInv'
  BY <1>1, <1>3 DEF LaunchInv, ShapeInv, Quiet
<1>5. TreeInv' /\ SpokenInv' /\ BufferInv' /\ FloodInv' /\ Live' = Live
  BY <1>1, QuietKeeps
<1>6. Asleep' /\ Spared' /\ Unresumed'
  BY <1>1 DEF LaunchInv, Asleep, Spared, Unresumed, Early, Quiet
<1>7. PhaseInv'
  <2>1. at' \notin Streams
    BY <1>1 DEF Streams
  <2> QED BY <1>1, <1>3, <1>5, <2>1 DEF LaunchInv, PhaseInv, Early, Quiet
<1>8. ExitInv' /\ OutcomeInv'
  BY <1>1 DEF LaunchInv, ExitInv, OutcomeInv, Failed, Quiet
<1>9. PassedInv'
  BY <1>1, NotPassed DEF PassedInv
<1> QED BY <1>4, <1>5, <1>6, <1>7, <1>8, <1>9 DEF LaunchInv

LEMMA TimeKeeps == ASSUME LaunchInv, TimePasses PROVE LaunchInv'
<1>1. /\ phase \in {"poll", "cleanup"} /\ clock # "all" /\ clock' \in {"grace", "all"}
      /\ Quiet /\ UNCHANGED <<doomed, phase, at, chunk, saw, ready, result>>
  BY DEF TimePasses, Quiet, children, buffers, supervisor
<1>4. ShapeInv'
  BY <1>1 DEF LaunchInv, ShapeInv, Quiet
<1>5. TreeInv' /\ SpokenInv' /\ BufferInv' /\ FloodInv' /\ Live' = Live
  BY <1>1, QuietKeeps
<1>6. Asleep' /\ Spared' /\ Unresumed'
  BY <1>1 DEF LaunchInv, Asleep, Spared, Unresumed, Early, Quiet
<1>7. PhaseInv'
  BY <1>1, <1>5 DEF LaunchInv, PhaseInv, Early, Quiet
<1>8. ExitInv' /\ OutcomeInv'
  BY <1>1 DEF LaunchInv, ExitInv, OutcomeInv, Failed, Quiet
<1>9. PassedInv'
  BY <1>1, NotPassed DEF PassedInv
<1> QED BY <1>4, <1>5, <1>6, <1>7, <1>8, <1>9 DEF LaunchInv

LEMMA TerminateKeeps == ASSUME LaunchInv, Terminate PROVE LaunchInv'
<1>1. /\ phase = "terminate" /\ phase' = "cleanup" /\ clock' = "none" /\ Quiet /\ UNCHANGED <<at, chunk, saw, ready, result>>
      /\ doomed' \subseteq doomed \cup Live
  BY DEF Terminate, Quiet, children, buffers
<1>4. ShapeInv'
  BY <1>1 DEF LaunchInv, ShapeInv, Quiet, Live
<1>5. TreeInv' /\ SpokenInv' /\ BufferInv' /\ FloodInv' /\ Live' = Live
  BY <1>1, QuietKeeps
<1>6. Asleep' /\ Spared' /\ Unresumed'
  BY <1>1 DEF LaunchInv, Asleep, Spared, Unresumed, Early, Quiet
<1>7. PhaseInv'
  BY <1>1, <1>5 DEF LaunchInv, PhaseInv, Early, Quiet
<1>8. ExitInv' /\ OutcomeInv'
  BY <1>1 DEF LaunchInv, ExitInv, OutcomeInv, Failed, Quiet
<1>9. PassedInv'
  BY <1>1, NotPassed DEF PassedInv
<1> QED BY <1>4, <1>5, <1>6, <1>7, <1>8, <1>9 DEF LaunchInv

\* A record with the end of a case in it.
LEMMA Finishes ==
  ASSUME ShapeInv, NEW r \in Results, Finish(r), case' = case
  PROVE  /\ phase' = "done" /\ doomed' \subseteq Processes /\ result' \in Results /\ (result'.passed => Passed(result)')
         /\ result'.outcome = r.outcome /\ result'.error = r.error /\ result'.exit = r.exit /\ result'.tree = r.tree
         /\ result'.resumed = r.resumed
         /\ r.outcome \in {"Error", "CleanupFailed"} => ~result'.passed
<1>1. phase' = "done" /\ doomed' = doomed \cup Live /\ result' = [r EXCEPT !.passed = Passed(r)]
  BY DEF Finish, KillOnClose
<1>2. Passed(r) \in BOOLEAN
  BY DEF Passed
<1> DEFINE b == Passed(r)
<1> HIDE DEF b
<1>3. result' \in Results /\ result'.passed = b
  BY <1>1, <1>2 DEF Results, b
<1>4. /\ result'.outcome = r.outcome /\ result'.error = r.error /\ result'.exit = r.exit /\ result'.tree = r.tree
      /\ result'.resumed = r.resumed /\ result'.created = r.created /\ result'.standard = r.standard
      /\ result'.rootExited = r.rootExited /\ result'.jobEmpty = r.jobEmpty /\ result'.pipesClosed = r.pipesClosed
  BY <1>1 DEF Results
<1>5. Passed(result)' = b
  BY <1>4 DEF Passed, b
<1>6. case.expected \notin {"Error", "CleanupFailed"}
  BY CasesAre DEF CaseIs, ShapeInv
<1>7. r.outcome \in {"Error", "CleanupFailed"} => ~b
  BY <1>6 DEF Passed, b
<1>8. doomed' \subseteq Processes
  BY <1>1 DEF ShapeInv, Live
<1> QED BY <1>1, <1>3, <1>4, <1>5, <1>7, <1>8

\* The supervisor's steps that end a case, from a phase in which it polls or is about to.
LEMMA EndKeeps ==
  ASSUME LaunchInv, Quiet, UNCHANGED <<clock, ready>>, NEW r \in Results, Finish(r), ~case.cancelled, phase \notin {"done", "killed"},
         r.tree = result.tree, r.exit = result.exit, r.resumed = result.resumed,
         \/ r.outcome \in {"Error", "CleanupFailed"}
         \/ r.outcome = result.outcome /\ r.error = result.error /\ Live = {},
         \/ at' = "stdout" /\ chunk' = 0 /\ saw' = Unread
         \/ UNCHANGED <<at, chunk, saw>>
  PROVE  LaunchInv'
<1>1. /\ phase' = "done" /\ doomed' \subseteq Processes /\ result' \in Results /\ (result'.passed => Passed(result)')
      /\ result'.outcome = r.outcome /\ result'.error = r.error /\ result'.exit = r.exit /\ result'.tree = r.tree
      /\ result'.resumed = r.resumed
      /\ r.outcome \in {"Error", "CleanupFailed"} => ~result'.passed
  BY Finishes DEF LaunchInv, Quiet
<1>2. at' \in Streams \cup {"active", "exited", "decide"} /\ chunk' \in 0..1 /\ saw' \in [active : 0..3, exited : BOOLEAN]
  <2>1. Unread \in [active : 0..3, exited : BOOLEAN] /\ 0 \in 0..1 /\ "stdout" \in Streams
    BY DEF Unread, Streams
  <2>2. at \in Streams \cup {"active", "exited", "decide"} /\ chunk \in 0..1 /\ saw \in [active : 0..3, exited : BOOLEAN]
    BY DEF LaunchInv, ShapeInv
  <2>3. CASE at' = "stdout" /\ chunk' = 0 /\ saw' = Unread
    BY <2>1, <2>3
  <2>4. CASE UNCHANGED <<at, chunk, saw>>
    BY <2>2, <2>4
  <2> QED BY <2>3, <2>4
<1>4. ShapeInv'
  BY <1>1, <1>2 DEF LaunchInv, ShapeInv, Quiet
<1>5. TreeInv' /\ SpokenInv' /\ BufferInv' /\ FloodInv' /\ Live' = Live
  BY <1>1, QuietKeeps
<1>6. Asleep' /\ Spared'
  BY <1>1 DEF Asleep, Spared, Early
<1>7. Unresumed'
  BY <1>1 DEF LaunchInv, Unresumed, Quiet
<1>8. PhaseInv'
  <2>1. ~Unread.exited
    BY DEF Unread
  <2>2. (at' \in Streams => saw' = Unread) /\ (saw'.exited => state'["root"] = "exited")
    BY <2>1 DEF LaunchInv, PhaseInv, Quiet
  <2> QED BY <1>1, <2>2 DEF PhaseInv, Early
<1>9. ExitInv' /\ OutcomeInv'
  BY <1>1 DEF LaunchInv, ExitInv, OutcomeInv, NaturalEnds, Failed, Quiet
<1>10. PassedInv'
  BY <1>1, <1>5 DEF PassedInv, Quiet
<1> QED BY <1>4, <1>5, <1>6, <1>7, <1>8, <1>9, <1>10 DEF LaunchInv

LEMMA CleanupExpiresKeeps == ASSUME LaunchInv, CleanupExpires PROVE LaunchInv'
<1> DEFINE r == [result EXCEPT !.outcome = "CleanupFailed", !.error = "CLEANUP_DEADLINE"]
<1>1. phase = "cleanup" /\ Finish(r) /\ Quiet /\ UNCHANGED <<at, chunk, saw, clock, ready>>
  BY DEF CleanupExpires, Quiet, children, buffers
<1>2. r \in Results /\ r.tree = result.tree /\ r.exit = result.exit /\ r.resumed = result.resumed /\ r.outcome = "CleanupFailed"
  BY OutcomesAre DEF LaunchInv, ShapeInv, Results
<1>3. ~case.cancelled
  BY <1>1 DEF LaunchInv, PhaseInv
<1> HIDE DEF r
<1> QED BY <1>1, <1>2, <1>3, EndKeeps

LEMMA CleanupDecideKeeps == ASSUME LaunchInv, CleanupDecide PROVE LaunchInv'
<1> DEFINE r == [result EXCEPT !.rootExited = saw.exited, !.jobEmpty = saw.active = 0,
                               !.pipesClosed = closed["stdout"] /\ closed["stderr"]]
<1>1. /\ phase = "cleanup" /\ at = "decide" /\ at' = "stdout" /\ chunk' = 0 /\ saw' = Unread /\ Quiet /\ UNCHANGED <<clock, ready>>
      /\ IF r.rootExited /\ r.jobEmpty /\ r.pipesClosed THEN Finish(r) ELSE result' = r /\ UNCHANGED <<phase, doomed>>
  BY DEF CleanupDecide, NextRound, Quiet, children, buffers
<1>2. /\ r \in Results /\ r.tree = result.tree /\ r.exit = result.exit /\ r.resumed = result.resumed
      /\ r.outcome = result.outcome /\ r.error = result.error /\ r.passed = result.passed
      /\ r.jobEmpty => saw.active = 0
  <2>1. saw.exited \in BOOLEAN /\ (saw.active = 0) \in BOOLEAN /\ (closed["stdout"] /\ closed["stderr"]) \in BOOLEAN
    BY DEF LaunchInv, ShapeInv, Streams
  <2> QED BY <2>1 DEF LaunchInv, ShapeInv, Results
<1>3. ~case.cancelled
  BY <1>1 DEF LaunchInv, PhaseInv
<1> HIDE DEF r
<1>4. CASE r.rootExited /\ r.jobEmpty /\ r.pipesClosed
  <2>1. Finish(r)
    BY <1>1, <1>4
  <2>2. Live = {}
    BY <1>1, <1>2, <1>4 DEF LaunchInv, PhaseInv
  <2> QED BY <1>1, <1>2, <1>3, <2>1, <2>2, EndKeeps
<1>5. CASE ~(r.rootExited /\ r.jobEmpty /\ r.pipesClosed)
  <2>1. result' = r /\ UNCHANGED <<phase, doomed>>
    BY <1>1, <1>5
  <2>2. Unread \in [active : 0..3, exited : BOOLEAN] /\ ~Unread.exited
    BY DEF Unread
  <2>4. ShapeInv'
    BY <1>1, <1>2, <2>1, <2>2 DEF LaunchInv, ShapeInv, Quiet, Streams
  <2>5. TreeInv' /\ SpokenInv' /\ BufferInv' /\ FloodInv' /\ Live' = Live
    BY <1>1, <1>2, <2>1, QuietKeeps
  <2>6. Asleep' /\ Spared' /\ Unresumed'
    BY <1>1, <1>2, <2>1 DEF LaunchInv, Asleep, Spared, Unresumed, Early, Quiet
  <2>7. PhaseInv'
    BY <1>1, <1>3, <2>1, <2>2 DEF PhaseInv, Early, Quiet
  <2>8. ExitInv' /\ OutcomeInv'
    BY <1>1, <1>2, <2>1 DEF LaunchInv, ExitInv, OutcomeInv, Failed, Quiet
  <2>9. PassedInv'
    BY <1>1, <1>2, <2>1, NotPassed DEF PassedInv
  <2> QED BY <2>4, <2>5, <2>6, <2>7, <2>8, <2>9 DEF LaunchInv
<1> QED BY <1>4, <1>5

\* A failure before the end: the Job is to be terminated.
LEMMA FailKeeps ==
  ASSUME LaunchInv, Quiet, UNCHANGED <<doomed, clock, ready>>, phase \in {"inspect", "poll"}, NEW r \in Results, NEW error, NEW outcome, Fail(r, error, outcome),
         [r EXCEPT !.error = error, !.outcome = outcome] \in Results,
         r.tree = result.tree, r.exit = result.exit, r.resumed = result.resumed, ~r.passed,
         outcome \in {"Error", "InjectedBeforeResume"}, outcome = "InjectedBeforeResume" => error = "INJECTED_PRE_RESUME",
         at' = "stdout", chunk' \in 0..1, saw' = Unread
  PROVE  LaunchInv'
<1>1. phase' = "terminate" /\ result' = [r EXCEPT !.error = error, !.outcome = outcome]
  BY DEF Fail
<1>2. /\ result' \in Results /\ result'.tree = result.tree /\ result'.exit = result.exit /\ result'.resumed = result.resumed
      /\ result'.outcome = outcome /\ result'.error = error /\ ~result'.passed
  BY <1>1 DEF Results
<1>3. ~case.cancelled
  BY DEF LaunchInv, PhaseInv
<1>a. Unread \in [active : 0..3, exited : BOOLEAN] /\ ~Unread.exited
  BY DEF Unread
<1>4. ShapeInv'
  BY <1>1, <1>2, <1>a DEF LaunchInv, ShapeInv, Quiet, Streams
<1>5. TreeInv' /\ SpokenInv' /\ BufferInv' /\ FloodInv' /\ Live' = Live
  BY <1>2, QuietKeeps
<1>6. Asleep' /\ Spared' /\ Unresumed'
  BY <1>1, <1>2 DEF LaunchInv, Asleep, Spared, Unresumed, Early, Quiet
<1>7. PhaseInv'
  BY <1>1, <1>3, <1>a DEF PhaseInv, Early, Quiet
<1>8. ExitInv' /\ OutcomeInv'
  BY <1>2 DEF LaunchInv, ExitInv, OutcomeInv, NaturalEnds, Failed, Quiet
<1>9. PassedInv'
  BY <1>2 DEF PassedInv
<1> QED BY <1>4, <1>5, <1>6, <1>7, <1>8, <1>9 DEF LaunchInv

LEMMA CallFailsKeeps == ASSUME LaunchInv, CallFails PROVE LaunchInv'
<1>1. /\ at' = "stdout" /\ chunk' = 0 /\ saw' = Unread /\ Quiet /\ UNCHANGED <<clock, ready>>
      /\ \/ phase = "poll" /\ Fail(result, "QUERY", "Error") /\ UNCHANGED doomed
         \/ /\ phase \in {"terminate", "cleanup"}
            /\ Finish([result EXCEPT !.outcome = "CleanupFailed", !.error = "CLEANUP_QUERY"])
  BY DEF CallFails, NextRound, Quiet, children, buffers
<1>2. CASE phase = "poll" /\ Fail(result, "QUERY", "Error") /\ UNCHANGED doomed
  <2>1. result \in Results /\ [result EXCEPT !.error = "QUERY", !.outcome = "Error"] \in Results
    BY OutcomesAre DEF LaunchInv, ShapeInv, Results
  <2>2. ~result.passed
    BY <1>2, NotPassed
  <2>3. chunk' \in 0..1
    BY <1>1
  <2> QED BY <1>1, <1>2, <2>1, <2>2, <2>3, FailKeeps
<1>3. CASE phase \in {"terminate", "cleanup"} /\ Finish([result EXCEPT !.outcome = "CleanupFailed", !.error = "CLEANUP_QUERY"])
  <2> DEFINE r == [result EXCEPT !.outcome = "CleanupFailed", !.error = "CLEANUP_QUERY"]
  <2>1. r \in Results /\ r.tree = result.tree /\ r.exit = result.exit /\ r.resumed = result.resumed /\ r.outcome = "CleanupFailed"
    BY OutcomesAre DEF LaunchInv, ShapeInv, Results
  <2>2. ~case.cancelled /\ phase \notin {"done", "killed"} /\ Finish(r)
    BY <1>3 DEF LaunchInv, PhaseInv
  <2> HIDE DEF r
  <2> QED BY <1>1, <2>1, <2>2, EndKeeps
<1> QED BY <1>1, <1>2, <1>3

LEMMA InspectKeeps == ASSUME LaunchInv, Inspect PROVE LaunchInv'
<1> DEFINE checked == [result EXCEPT !.standard = TRUE]
<1>1. /\ phase = "inspect" /\ UNCHANGED <<case, acts, code, doomed, pipe, kept, closed, over, at, chunk, saw, clock, ready>>
      /\ \/ Fail(result, "CHECK", "Error") /\ UNCHANGED state
         \/ Fail(checked, "INJECTED_PRE_RESUME", "InjectedBeforeResume") /\ UNCHANGED state
         \/ Fail(checked, "RESUME", "Error") /\ UNCHANGED state
         \/ /\ state' = [state EXCEPT !["root"] = "running"] /\ phase' = "poll"
            /\ result' = [checked EXCEPT !.resumed = TRUE]
  BY DEF Inspect, buffers
<1>2. /\ checked \in Results /\ checked.tree = result.tree /\ checked.exit = result.exit /\ checked.resumed = result.resumed
      /\ checked.passed = result.passed /\ result \in Results /\ checked.outcome = result.outcome /\ checked.error = result.error
  BY DEF LaunchInv, ShapeInv, Results
<1> HIDE DEF checked
<1>3. /\ ~result.passed /\ at = "stdout" /\ saw = Unread /\ state["root"] = "suspended" /\ ~case.cancelled
      /\ result.exit = NoCode /\ chunk \in 0..1
  BY <1>1, NotPassed DEF LaunchInv, PhaseInv, Streams, ExitInv, ShapeInv
<1>4. ASSUME NEW r \in {result, checked}, NEW error \in {"CHECK", "INJECTED_PRE_RESUME", "RESUME"}, NEW outcome \in {"Error", "InjectedBeforeResume"}
      PROVE  [r EXCEPT !.error = error, !.outcome = outcome] \in Results
  <2>1. outcome \in Outcomes /\ r \in Results
    BY <1>2, OutcomesAre
  <2> QED BY <2>1 DEF Results
<1>5. CASE UNCHANGED state /\ Fail(result, "CHECK", "Error")
  BY <1>1, <1>2, <1>3, <1>4, <1>5, FailKeeps DEF Quiet
<1>6. CASE UNCHANGED state /\ Fail(checked, "INJECTED_PRE_RESUME", "InjectedBeforeResume")
  BY <1>1, <1>2, <1>3, <1>4, <1>6, FailKeeps DEF Quiet
<1>7. CASE UNCHANGED state /\ Fail(checked, "RESUME", "Error")
  BY <1>1, <1>2, <1>3, <1>4, <1>7, FailKeeps DEF Quiet
<1>8. CASE state' = [state EXCEPT !["root"] = "running"] /\ phase' = "poll" /\ result' = [checked EXCEPT !.resumed = TRUE]
  <2>1. /\ result' \in Results /\ result'.resumed /\ result'.tree = result.tree /\ result'.exit = NoCode /\ ~result'.passed
        /\ result'.outcome = result.outcome /\ result'.error = result.error
    BY <1>2, <1>3, <1>8 DEF Results
  <2>2. "root" \in Processes /\ "leaf" \in Processes
    BY DEF Processes
  <2>3. /\ state' \in [Processes -> {"none", "suspended", "running", "exited"}]
        /\ \A p \in Processes : state'[p] = IF p = "root" THEN "running" ELSE state[p]
    BY <1>8 DEF LaunchInv, ShapeInv
  <2>4. ShapeInv'
    BY <1>1, <1>8, <2>1, <2>3 DEF LaunchInv, ShapeInv
  <2>5. Spared' /\ Asleep' /\ Unresumed'
    BY <1>1, <1>8, <2>1 DEF LaunchInv, Spared, Asleep, Unresumed, Early
  <2>6. TreeInv'
    <3>1. ASSUME NEW p \in Processes PROVE ProcessInv(p)'
      <4>1. ProcessInv(p) /\ code[p] # Killed
        BY <1>1 DEF LaunchInv, TreeInv, Spared, Early
      <4>2. EndOf(p)' = EndOf(p) /\ Failed(p)' = Failed(p) /\ Follows(p)' = Follows(p)
        BY <1>1 DEF EndOf, Failed, Follows, Script
      <4> QED BY <1>1, <2>3, <4>1, <4>2 DEF ProcessInv, Refusals
    <3> QED BY <1>1, <2>2, <2>3, <3>1 DEF LaunchInv, TreeInv
  <2>7. LeafSpoke' = LeafSpoke /\ RootSpoke' = RootSpoke
    BY <1>1, <2>2, <2>3 DEF LeafSpoke, RootSpoke, Failed
  <2>8. SpokenInv'
    <3>1. \A t : Heard(t)' = Heard(t)
      BY <1>1 DEF Heard
    <3> QED BY <2>1, <2>7, <3>1 DEF LaunchInv, SpokenInv
  <2>9. BufferInv'
    <3>1. Writers # {}
      BY <1>3, <2>2 DEF Writers, Live
    <3> QED BY <1>1, <3>1 DEF LaunchInv, BufferInv
  <2>10. FloodInv'
    BY <1>1 DEF LaunchInv, FloodInv, Units, Failed
  <2>11. PhaseInv'
    <3>1. ~Unread.exited
      BY DEF Unread
    <3> QED BY <1>1, <1>3, <1>8, <2>1, <3>1 DEF LaunchInv, PhaseInv, Early
  <2>12. ExitInv' /\ OutcomeInv' /\ PassedInv'
    BY <1>1, <1>8, <2>1 DEF LaunchInv, ExitInv, OutcomeInv, PassedInv, PhaseInv, Early, NaturalEnds
  <2> QED BY <2>4, <2>5, <2>6, <2>8, <2>9, <2>10, <2>11, <2>12 DEF LaunchInv
<1> QED BY <1>1, <1>5, <1>6, <1>7, <1>8

LEMMA CreateKeeps == ASSUME LaunchInv, Create PROVE LaunchInv'
<1> DEFINE r == [result EXCEPT !.error = "SETUP"]
<1>1. /\ phase = "start" /\ UNCHANGED <<case, acts, code, pipe, kept, closed, over, at, chunk, saw, clock, ready>>
      /\ \/ /\ case.cancelled /\ phase' = "done" /\ UNCHANGED <<state, doomed>>
            /\ result' = [result EXCEPT !.outcome = "CancelledBeforeCreate", !.passed = case.expected = "CancelledBeforeCreate"]
         \/ ~case.cancelled /\ state' = [state EXCEPT !["root"] = "suspended"] /\ phase' = "inspect"
            /\ result' = [result EXCEPT !.created = TRUE] /\ UNCHANGED doomed
         \/ ~case.cancelled /\ Finish(r) /\ UNCHANGED state
  BY DEF Create, buffers
<1>2. /\ r \in Results /\ r.tree = result.tree /\ r.exit = result.exit /\ r.resumed = result.resumed /\ r.outcome = result.outcome
  BY DEF LaunchInv, ShapeInv, Results
<1> HIDE DEF r
<1>3. /\ result = Fresh /\ at = "stdout" /\ saw = Unread /\ (\A p \in Processes : state[p] = "none") /\ \A s \in Streams : ~closed[s]
  BY <1>1 DEF LaunchInv, PhaseInv, Streams
<1>4. /\ result.outcome = "Error" /\ result.error = "None" /\ result.exit = NoCode /\ ~result.tree /\ ~result.passed /\ ~result.resumed
      /\ result \in Results
  BY <1>3 DEF Fresh, LaunchInv, ShapeInv
<1>5. "root" \in Processes /\ "leaf" \in Processes
  BY DEF Processes
<1>6. CASE case.cancelled /\ phase' = "done" /\ UNCHANGED <<state, doomed>>
           /\ result' = [result EXCEPT !.outcome = "CancelledBeforeCreate", !.passed = case.expected = "CancelledBeforeCreate"]
  <2>0. case.expected = "CancelledBeforeCreate"
    BY <1>6, CasesAre DEF CaseIs, LaunchInv, ShapeInv
  <2>1. result' = [Fresh EXCEPT !.outcome = "CancelledBeforeCreate", !.passed = TRUE]
    BY <1>3, <1>6, <2>0
  <2>2. /\ result' \in Results /\ result'.outcome = "CancelledBeforeCreate" /\ result'.error = "None" /\ result'.exit = NoCode
        /\ ~result'.tree /\ ~result'.resumed
    BY <1>4, <1>6, <2>0, OutcomesAre DEF Results
  <2>3. Quiet
    BY <1>1, <1>6 DEF Quiet
  <2>4. ShapeInv'
    BY <1>1, <1>6, <2>2 DEF LaunchInv, ShapeInv
  <2>5. TreeInv' /\ SpokenInv' /\ BufferInv' /\ FloodInv' /\ Live' = Live
    BY <1>1, <2>2, <2>3, QuietKeeps
  <2>6. Asleep' /\ Spared' /\ Unresumed'
    BY <1>1, <1>4, <1>6, <2>2 DEF LaunchInv, Asleep, Spared, Unresumed, Early
  <2>7. PhaseInv'
    BY <1>1, <1>3, <1>6 DEF LaunchInv, PhaseInv, Early
  <2>8. ExitInv' /\ OutcomeInv'
    BY <2>2 DEF ExitInv, OutcomeInv, NaturalEnds
  <2>9. PassedInv'
    BY <1>1, <1>6, <2>1 DEF PassedInv
  <2> QED BY <2>4, <2>5, <2>6, <2>7, <2>8, <2>9 DEF LaunchInv
<1>7. CASE ~case.cancelled /\ state' = [state EXCEPT !["root"] = "suspended"] /\ phase' = "inspect"
           /\ result' = [result EXCEPT !.created = TRUE] /\ UNCHANGED doomed
  <2>1. /\ result' \in Results /\ ~result'.resumed /\ ~result'.tree /\ result'.exit = NoCode /\ ~result'.passed
        /\ result'.outcome = "Error" /\ result'.error = "None"
    BY <1>4, <1>7 DEF Results
  <2>3. /\ state' \in [Processes -> {"none", "suspended", "running", "exited"}]
        /\ \A p \in Processes : state'[p] = IF p = "root" THEN "suspended" ELSE "none"
    BY <1>3, <1>7 DEF LaunchInv, ShapeInv
  <2>4. ShapeInv'
    BY <1>1, <1>7, <2>1, <2>3 DEF LaunchInv, ShapeInv
  <2>5. Spared' /\ Asleep' /\ Unresumed'
    BY <1>1, <1>4, <1>5, <1>7, <2>1, <2>3 DEF LaunchInv, Spared, Asleep, Unresumed, Early
  <2>6. TreeInv'
    <3>1. ASSUME NEW p \in Processes PROVE ProcessInv(p)'
      <4>1. ProcessInv(p) /\ code[p] # Killed
        BY <1>1 DEF LaunchInv, TreeInv, Spared, Early
      <4>2. EndOf(p)' = EndOf(p) /\ Failed(p)' = Failed(p) /\ Follows(p)' = Follows(p)
        BY <1>1 DEF EndOf, Failed, Follows, Script
      <4> QED BY <1>1, <2>3, <4>1, <4>2 DEF ProcessInv, Refusals
    <3> QED BY <1>1, <1>5, <2>3, <3>1 DEF LaunchInv, TreeInv
  <2>7. ~LeafSpoke /\ RootSpoke' = RootSpoke
    BY <1>1, <1>3, <1>5 DEF LeafSpoke, RootSpoke, Failed
  <2>8. SpokenInv'
    <3>1. \A t : Heard(t)' = Heard(t)
      BY <1>1 DEF Heard
    <3> QED BY <2>1, <2>7, <3>1 DEF LaunchInv, SpokenInv
  <2>9. BufferInv'
    BY <1>1, <1>3 DEF LaunchInv, BufferInv
  <2>10. FloodInv'
    BY <1>1 DEF LaunchInv, FloodInv, Units, Failed
  <2>11. PhaseInv'
    <3>1. ~Unread.exited
      BY DEF Unread
    <3> QED BY <1>1, <1>3, <1>5, <1>7, <2>1, <2>3, <3>1 DEF PhaseInv, Early
  <2>12. ExitInv' /\ OutcomeInv' /\ PassedInv'
    BY <2>1 DEF ExitInv, OutcomeInv, PassedInv, NaturalEnds
  <2> QED BY <2>4, <2>5, <2>6, <2>8, <2>9, <2>10, <2>11, <2>12 DEF LaunchInv
<1>8. CASE ~case.cancelled /\ Finish(r) /\ UNCHANGED state
  <2>1. Quiet
    BY <1>1, <1>8 DEF Quiet
  <2> QED BY <1>1, <1>2, <1>4, <1>8, <2>1, EndKeeps
<1> QED BY <1>1, <1>6, <1>7, <1>8

LEMMA KilledKeeps == ASSUME LaunchInv, SupervisorKilled PROVE LaunchInv'
<1>1. /\ phase' = "killed" /\ doomed' = doomed \cup Live /\ pipe' = [s \in Streams |-> <<>>] /\ kept' = pipe'
      /\ closed' = [s \in Streams |-> TRUE] /\ over' = [s \in Streams |-> FALSE] /\ at' = "stdout" /\ chunk' = 0 /\ saw' = Unread
      /\ clock' = "none" /\ ready' = FALSE /\ result' = Fresh /\ UNCHANGED <<case, state, acts, code>>
      /\ phase \notin {"done", "killed"}
  BY DEF SupervisorKilled, NextRound, KillOnClose, children
<1>2. /\ Fresh \in Results /\ Fresh.outcome = "Error" /\ Fresh.exit = NoCode /\ ~Fresh.tree /\ ~Fresh.passed
      /\ Unread \in [active : 0..3, exited : BOOLEAN] /\ ~Unread.exited
  <2>1. "Error" \in Outcomes /\ NoCode \in Codes
    BY OutcomesAre DEF Codes
  <2> QED BY <2>1 DEF Fresh, Results, Unread
<1>3. \A s \in Streams : pipe'[s] = <<>> /\ kept'[s] = <<>> /\ ~over'[s]
  BY <1>1
<1>4. ShapeInv'
  <2>1. <<>> \in Seq(Texts) /\ Len(<<>>) = 0
    OBVIOUS
  <2>2. pipe' \in [Streams -> Seq(Texts)] /\ kept' \in [Streams -> Seq(Texts)]
    BY <1>1, <2>1
  <2>3. closed' \in [Streams -> BOOLEAN] /\ over' \in [Streams -> BOOLEAN] /\ doomed' \subseteq Processes /\ at' \in Streams
    BY <1>1 DEF LaunchInv, ShapeInv, Live, Streams
  <2>4. \A s \in Streams : Len(pipe'[s]) <= PipeSize /\ Len(kept'[s]) <= Limit
    BY <1>3, <2>1, LaunchAssumption
  <2>5. chunk' \in 0..1 /\ saw' \in [active : 0..3, exited : BOOLEAN]
    BY <1>1, <1>2
  <2>6. case \in Cases /\ state \in [Processes -> {"none", "suspended", "running", "exited"}] /\ code \in [Processes -> Codes]
        /\ acts \in [Processes -> Seq(Lines)]
    BY DEF LaunchInv, ShapeInv
  <2> QED BY <1>1, <1>2, <2>2, <2>3, <2>4, <2>5, <2>6 DEF ShapeInv
<1>5. TreeInv'
  BY <1>1, TreeKeeps
<1>6. SpokenInv'
  <2>1. \A t : ~Contains(<<>>, t)
    BY DEF Contains
  <2>2. \A t : ~Heard(t)'
    BY <1>3, <2>1 DEF Heard
  <2> QED BY <1>1, <1>2, <2>2 DEF SpokenInv
<1>7. BufferInv' /\ FloodInv' /\ Asleep' /\ Spared' /\ Unresumed'
  BY <1>1, <1>3 DEF BufferInv, FloodInv, Asleep, Spared, Unresumed, Early
<1>8. PhaseInv' /\ ExitInv' /\ OutcomeInv' /\ PassedInv'
  BY <1>1, <1>2 DEF PhaseInv, ExitInv, OutcomeInv, PassedInv, NaturalEnds, Early
<1> QED BY <1>4, <1>5, <1>6, <1>7, <1>8 DEF LaunchInv

\* The beginning of a text, cut where the buffer is full.
LEMMA Cut ==
  ASSUME NEW q \in Seq(Texts), NEW n \in Nat, n < Len(q)
  PROVE  /\ SubSeq(q, 1, n) \in Seq(Texts) /\ Len(SubSeq(q, 1, n)) = n
         /\ \A i \in 1..n : SubSeq(q, 1, n)[i] = q[i]
  OBVIOUS

LEMMA Joined ==
  ASSUME NEW q \in Seq(Texts), NEW r \in Seq(Texts)
  PROVE  /\ q \o r \in Seq(Texts) /\ Len(q \o r) = Len(q) + Len(r)
         /\ \A t : Contains(q \o r, t) => Contains(q, t) \/ Contains(r, t)
<1>1. /\ q \o r \in Seq(Texts) /\ Len(q \o r) = Len(q) + Len(r)
      /\ \A i \in 1..(Len(q) + Len(r)) : (q \o r)[i] = IF i <= Len(q) THEN q[i] ELSE r[i - Len(q)]
  OBVIOUS
<1>2. ASSUME NEW t, NEW i \in 1..Len(q \o r), (q \o r)[i] = t
      PROVE  Contains(q, t) \/ Contains(r, t)
  <2>1. PICK k \in Nat, l \in Nat : k = Len(q) /\ l = Len(r)
    OBVIOUS
  <2>2. i \in 1..(k + l) /\ (i <= k => (q \o r)[i] = q[i]) /\ (~(i <= k) => (q \o r)[i] = r[i - k])
    BY <1>1, <1>2, <2>1
  <2>3. (i <= k => i \in 1..k) /\ (~(i <= k) => i - k \in 1..l)
    BY <2>2
  <2> QED BY <1>2, <2>1, <2>2, <2>3 DEF Contains
<1> QED BY <1>1, <1>2 DEF Contains

LEMMA Kept ==
  ASSUME ShapeInv, NEW s \in Streams
  PROVE  LET joined == kept[s] \o pipe[s]
             now == IF Len(joined) <= Room(s) THEN joined ELSE SubSeq(joined, 1, Room(s)) IN
         /\ now \in Seq(Texts) /\ Len(now) <= Limit /\ Len(joined) \in Nat /\ Len(joined) = Len(kept[s]) + Len(pipe[s])
         /\ Len(joined) <= Limit => Len(now) = Len(joined)
         /\ Len(joined) > Limit => Len(now) = Limit
         /\ \A t : Contains(now, t) => Contains(kept[s], t) \/ Contains(pipe[s], t)
<1> DEFINE joined == kept[s] \o pipe[s]
           now == IF Len(joined) <= Room(s) THEN joined ELSE SubSeq(joined, 1, Room(s))
<1>1. kept[s] \in Seq(Texts) /\ pipe[s] \in Seq(Texts) /\ Limit \in Nat /\ Room(s) = Limit
  BY LaunchAssumption DEF ShapeInv, Room
<1>2. joined \in Seq(Texts) /\ Len(joined) = Len(kept[s]) + Len(pipe[s]) /\ \A t : Contains(joined, t) => Contains(kept[s], t) \/ Contains(pipe[s], t)
  BY <1>1, Joined
<1>3. Len(joined) \in Nat
  <2>1. joined \in Seq(Texts)
    BY <1>2
  <2> HIDE DEF joined
  <2> QED BY <2>1
<1>4. CASE Len(joined) <= Limit
  <2>1. now = joined
    BY <1>1, <1>4
  <2> HIDE DEF now, joined
  <2>2. ~(Len(joined) > Limit)
    BY <1>1, <1>3, <1>4
  <2> QED BY <1>2, <1>3, <1>4, <2>1, <2>2 DEF now, joined
<1>5. CASE ~(Len(joined) <= Limit)
  <2>0. now = SubSeq(joined, 1, Limit)
    BY <1>1, <1>5
  <2> HIDE DEF now, joined
  <2>1. Limit < Len(joined)
    BY <1>1, <1>3, <1>5
  <2>2. now \in Seq(Texts) /\ Len(now) = Limit /\ \A i \in 1..Limit : now[i] = joined[i]
    BY <1>1, <1>2, <2>0, <2>1, Cut
  <2>3. \A t : Contains(now, t) => Contains(joined, t)
    <3>1. 1..Limit \subseteq 1..Len(joined)
      BY <1>1, <1>3, <2>1
    <3> QED BY <2>2, <3>1 DEF Contains
  <2>4. Len(now) <= Limit
    BY <1>1, <2>2
  <2> QED BY <1>2, <1>3, <1>5, <2>2, <2>3, <2>4 DEF now, joined
<1> QED BY <1>4, <1>5

LEMMA DrainKeeps == ASSUME LaunchInv, NEW s \in Streams, Drain(s) PROVE LaunchInv'
<1>1. /\ phase \in {"poll", "cleanup"} /\ at = s /\ UNCHANGED <<case, state, acts, code, doomed, phase, saw, clock, ready, result>>
      /\ IF closed[s] \/ pipe[s] = <<>>
         THEN closed' = [closed EXCEPT ![s] = @ \/ Writers = {}] /\ UNCHANGED <<pipe, kept, over>>
         ELSE /\ pipe' = [pipe EXCEPT ![s] = <<>>] /\ UNCHANGED closed
              /\ LET joined == kept[s] \o pipe[s] IN
                 /\ kept' = [kept EXCEPT ![s] = IF Len(joined) <= Room(s) THEN joined ELSE SubSeq(joined, 1, Room(s))]
                 /\ over' = [over EXCEPT ![s] = @ \/ Len(joined) > Room(s)]
  BY DEF Drain, Polling, children
<1>2. chunk' \in 0..1 /\ (at' = at \/ at' = Following[s])
  BY DEF Drain
<1>3. Following[s] \in {"stderr", "active", "exited"}
  BY DEF Following, Streams
<1>4. at' \in Streams \cup {"active", "exited", "decide"} /\ at' # "decide"
  BY <1>1, <1>2, <1>3 DEF Streams
<1>5. saw = Unread
  BY <1>1 DEF LaunchInv, PhaseInv
<1>a. "stdout" \in Streams /\ "stderr" \in Streams
  BY DEF Streams
<1>6. TreeInv'
  BY <1>1, TreeKeeps
<1>7. Asleep' /\ Spared' /\ Unresumed'
  BY <1>1 DEF LaunchInv, Asleep, Spared, Unresumed, Early
<1>8. PhaseInv'
  <2>1. Live' = Live
    BY <1>1 DEF Live
  <2> QED BY <1>1, <1>4, <1>5, <2>1 DEF LaunchInv, PhaseInv, Early
<1>9. ExitInv' /\ PassedInv'
  <2>1. ExitInv'
    BY <1>1 DEF LaunchInv, ExitInv, Failed
  <2> QED BY <1>1, <2>1, NotPassed DEF PassedInv
<1>10. LeafSpoke' = LeafSpoke /\ RootSpoke' = RootSpoke /\ Writers' = Writers
  BY <1>1 DEF LeafSpoke, RootSpoke, Failed, Writers, Live
<1>11. CASE closed[s] \/ pipe[s] = <<>>
  <2>1. /\ UNCHANGED <<pipe, kept, over>> /\ closed' = [closed EXCEPT ![s] = @ \/ Writers = {}]
    BY <1>1, <1>11
  <2>2. closed' \in [Streams -> BOOLEAN] /\ \A q \in Streams : closed'[q] <=> (closed[q] \/ (q = s /\ Writers = {}))
    <3>1. (closed[s] \/ Writers = {}) \in BOOLEAN /\ closed \in [Streams -> BOOLEAN]
      BY DEF LaunchInv, ShapeInv
    <3> QED BY <2>1, <3>1
  <2>3. ShapeInv'
    BY <1>1, <1>2, <1>4, <2>1, <2>2 DEF LaunchInv, ShapeInv
  <2>4. SpokenInv'
    <3>1. \A t : Heard(t)' = Heard(t)
      BY <2>1 DEF Heard
    <3> QED BY <1>1, <1>10, <3>1 DEF LaunchInv, SpokenInv
  <2>5. BufferInv'
    BY <1>1, <1>10, <1>11, <2>1, <2>2 DEF LaunchInv, BufferInv
  <2>6. FloodInv'
    BY <1>1, <2>1 DEF LaunchInv, FloodInv, Units, Failed
  <2>7. OutcomeInv'
    BY <1>1, <2>1, <2>2 DEF LaunchInv, OutcomeInv
  <2> QED BY <1>6, <1>7, <1>8, <1>9, <2>3, <2>4, <2>5, <2>6, <2>7 DEF LaunchInv
<1>12. CASE ~(closed[s] \/ pipe[s] = <<>>)
  <2> DEFINE joined == kept[s] \o pipe[s]
             now == IF Len(joined) <= Room(s) THEN joined ELSE SubSeq(joined, 1, Room(s))
  <2>1. pipe' = [pipe EXCEPT ![s] = <<>>] /\ UNCHANGED closed /\ kept' = [kept EXCEPT ![s] = now] /\ over' = [over EXCEPT ![s] = @ \/ Len(joined) > Limit]
    BY <1>1, <1>12 DEF Room
  <2>2. /\ now \in Seq(Texts) /\ Len(now) <= Limit /\ Len(joined) \in Nat /\ Len(joined) = Len(kept[s]) + Len(pipe[s])
        /\ Len(joined) <= Limit => Len(now) = Len(joined)
        /\ Len(joined) > Limit => Len(now) = Limit
        /\ \A t : Contains(now, t) => Contains(kept[s], t) \/ Contains(pipe[s], t)
    BY Kept DEF LaunchInv
  <2> HIDE DEF now, joined
  <2>3. <<>> \in Seq(Texts) /\ Len(<<>>) = 0 /\ \A t : ~Contains(<<>>, t)
    BY DEF Contains
  <2>4. /\ pipe' \in [Streams -> Seq(Texts)] /\ kept' \in [Streams -> Seq(Texts)] /\ over' \in [Streams -> BOOLEAN]
        /\ \A q \in Streams : pipe'[q] = (IF q = s THEN <<>> ELSE pipe[q]) /\ kept'[q] = (IF q = s THEN now ELSE kept[q])
        /\ \A q \in Streams : over'[q] <=> (over[q] \/ (q = s /\ Len(joined) > Limit))
    <3>1. pipe \in [Streams -> Seq(Texts)] /\ kept \in [Streams -> Seq(Texts)] /\ over \in [Streams -> BOOLEAN]
      BY DEF LaunchInv, ShapeInv
    <3>2. (over[s] \/ Len(joined) > Limit) \in BOOLEAN
      BY <3>1
    <3>3. pipe' \in [Streams -> Seq(Texts)] /\ \A q \in Streams : pipe'[q] = IF q = s THEN <<>> ELSE pipe[q]
      BY <2>1, <2>3, <3>1
    <3>4. kept' \in [Streams -> Seq(Texts)] /\ \A q \in Streams : kept'[q] = IF q = s THEN now ELSE kept[q]
      BY <2>1, <2>2, <3>1
    <3>5. over' \in [Streams -> BOOLEAN] /\ \A q \in Streams : over'[q] <=> (over[q] \/ (q = s /\ Len(joined) > Limit))
      BY <2>1, <3>1, <3>2
    <3> QED BY <3>3, <3>4, <3>5
  <2>5. PICK k \in Nat, l \in Nat, m \in Nat, n \in Nat :
          k = Len(kept[s]) /\ l = Len(pipe[s]) /\ m = Len(acts["root"]) /\ n = Len(now)
    BY <2>2 DEF LaunchInv, ShapeInv, Processes
  <2>6. Limit \in Nat /\ Limit >= 2 /\ Flood \in Nat /\ PipeSize \in Nat
    BY LaunchAssumption
  <2>7. (over[s] => k = Limit) /\ l > 0 /\ Len(joined) = k + l /\ n <= Limit /\ (k + l <= Limit => n = k + l) /\ (k + l > Limit => n = Limit)
    <3>1. pipe[s] # <<>> /\ pipe[s] \in Seq(Texts)
      BY <1>12 DEF LaunchInv, ShapeInv
    <3>2. Len(pipe[s]) # 0
      BY <3>1, EmptySeq
    <3>3. l > 0 /\ Len(joined) = k + l
      BY <2>2, <2>5, <3>2
    <3>4. over[s] => k = Limit
      BY <2>5 DEF LaunchInv, BufferInv
    <3>5. n <= Limit /\ (k + l <= Limit => n = k + l) /\ (k + l > Limit => n = Limit)
      BY <2>2, <2>5, <3>3
    <3> QED BY <3>3, <3>4, <3>5
  <2>8. ShapeInv'
    <3>1. \A q \in Streams : Len(pipe'[q]) <= PipeSize /\ Len(kept'[q]) <= Limit
      BY <2>2, <2>3, <2>4, <2>6 DEF LaunchInv, ShapeInv
    <3> QED BY <1>1, <1>2, <1>4, <2>1, <2>4, <3>1 DEF LaunchInv, ShapeInv
  <2>9. SpokenInv'
    <3>1. \A t : Heard(t)' => Heard(t)
      BY <2>2, <2>3, <2>4 DEF Heard
    <3> QED BY <1>1, <1>10, <3>1 DEF LaunchInv, SpokenInv
  <2>10. over'[s] => n = Limit
    BY <2>4, <2>6, <2>7
  <2>11. BufferInv'
    <3>1. ASSUME NEW q \in Streams PROVE (over'[q] => Len(kept'[q]) = Limit) /\ (closed'[q] => q # s)
      BY <1>12, <2>1, <2>4, <2>5, <2>10 DEF LaunchInv, BufferInv
    <3>2. ASSUME NEW q \in Streams, closed'[q] PROVE pipe'[q] = <<>> /\ Writers = {}
      BY <1>1, <2>1, <2>4, <3>1, <3>2 DEF LaunchInv, BufferInv
    <3> QED BY <1>10, <3>1, <3>2 DEF BufferInv
  <2>12. FloodInv'
    <3> SUFFICES ASSUME NEW q \in Streams, case.mode = Flooding[q]
                 PROVE  /\ Failed("root") => Units(q)' <= 1 /\ ~over'[q]
                        /\ code["root"] = 0 => Units(q)' <= Flood /\ (~over'[q] => Units(q)' = Flood)
      BY <1>1 DEF FloodInv, Failed
    <3>1. /\ Failed("root") => Units(q) <= 1 /\ ~over[q]
          /\ code["root"] = 0 => Units(q) <= Flood /\ (~over[q] => Units(q) = Flood)
      BY <1>1 DEF LaunchInv, FloodInv
    <3>2. CASE q # s
      <4>1. kept'[q] = kept[q] /\ pipe'[q] = pipe[q] /\ acts' = acts /\ (over'[q] <=> over[q])
        BY <1>1, <2>4, <3>2
      <4>2. Units(q)' = Units(q)
        BY <4>1 DEF Units
      <4> QED BY <3>1, <4>1, <4>2
    <3>3. CASE q = s
      <4>1. Units(q) = k + l + m
        BY <2>5, <3>3 DEF Units
      <4>2. Units(q)' = n + 0 + m
        BY <1>1, <2>3, <2>4, <2>5, <3>3 DEF Units
      <4>3. over'[q] <=> (over[q] \/ k + l > Limit)
        BY <2>4, <2>7, <3>3
      <4> HIDE DEF Units
      <4>4. Failed("root") => Units(q)' <= 1 /\ ~over'[q]
        BY <2>6, <2>7, <3>1, <4>1, <4>2, <4>3
      <4>5. code["root"] = 0 => Units(q)' <= Flood /\ (~over'[q] => Units(q)' = Flood)
        BY <2>6, <2>7, <3>1, <4>1, <4>2, <4>3
      <4> QED BY <4>4, <4>5
    <3> QED BY <3>2, <3>3
  <2>13. OutcomeInv'
    <3>1. result.outcome \notin NaturalEnds
      BY <1>12 DEF LaunchInv, OutcomeInv, BufferInv
    <3> QED BY <1>1, <1>a, <2>4, <3>1 DEF LaunchInv, OutcomeInv, NaturalEnds
  <2> QED BY <1>6, <1>7, <1>8, <1>9, <2>8, <2>9, <2>11, <2>12, <2>13 DEF LaunchInv
<1> QED BY <1>11, <1>12

LEMMA LeastIs ==
  ASSUME NEW S \in SUBSET (1..6), S # {} PROVE Min(S) \in S /\ \A n \in S : Min(S) <= n
<1>1. \E x \in S : \A y \in S : x =< y
  <2>1. \A n \in S : n = 1 \/ n = 2 \/ n = 3 \/ n = 4 \/ n = 5 \/ n = 6
    OBVIOUS
  <2>2. CASE 1 \in S
    BY <2>1, <2>2
  <2>3. CASE 1 \notin S /\ 2 \in S
    BY <2>1, <2>3
  <2>4. CASE 1 \notin S /\ 2 \notin S /\ 3 \in S
    BY <2>1, <2>4
  <2>5. CASE 1 \notin S /\ 2 \notin S /\ 3 \notin S /\ 4 \in S
    BY <2>1, <2>5
  <2>6. CASE S \subseteq {5, 6} /\ 5 \in S
    BY <2>6
  <2>7. CASE S = {6}
    BY <2>7
  <2> QED BY <2>1, <2>2, <2>3, <2>4, <2>5, <2>6, <2>7
<1> QED BY <1>1 DEF Min

\* What the supervisor finds when it decides: the first of its reasons, and the exit code unless one of the first four holds.
LEMMA DecideIs ==
  ASSUME LaunchInv, Decide
  PROVE  /\ phase = "poll" /\ at = "decide" /\ at' = "stdout" /\ chunk' = 0 /\ saw' = Unread /\ ready' \in BOOLEAN
         /\ Quiet /\ UNCHANGED <<doomed, clock>>
         /\ result' \in Results /\ UNCHANGED <<result.error, result.resumed, result.passed>>
         /\ result'.tree => result.tree \/ (Said("READY") /\ Said("LEAF"))
         /\ result'.exit = result.exit
            \/ (saw.exited /\ result'.exit = code["root"] /\ ~over["stdout"] /\ ~over["stderr"] /\ clock # "all")
         /\ \/ phase' = "poll" /\ result'.outcome = result.outcome
            \/ /\ phase' = "terminate"
               /\ \/ result'.outcome = "StdoutLimit" /\ over["stdout"]
                  \/ result'.outcome = "StderrLimit" /\ over["stderr"]
                  \/ result'.outcome \in {"Cancelled", "Timeout"}
                  \/ result'.outcome = "DescendantsAfterParentExit" /\ result'.exit = code["root"]
                  \/ /\ result'.outcome = NaturalEnd /\ result'.exit = code["root"]
                     /\ \A s \in Streams : closed[s] /\ ~over[s]
<1> DEFINE tree == result.tree \/ TreeSeen(saw.active, saw.exited)
           reasons == Reasons(saw.active, saw.exited, tree)
           holding == {n \in DOMAIN reasons : reasons[n].holds}
           first == IF holding = {} THEN 0 ELSE Min(holding)
<1>1. /\ phase = "poll" /\ at = "decide" /\ at' = "stdout" /\ chunk' = 0 /\ saw' = Unread /\ ready' = (ready \/ Said("READY"))
      /\ Quiet /\ UNCHANGED <<doomed, clock>>
      /\ result' = [result EXCEPT !.tree = tree, !.outcome = IF first = 0 THEN @ ELSE reasons[first].outcome,
                                  !.exit = IF first \notin 1..4 /\ saw.exited THEN code["root"] ELSE @]
      /\ phase' = (IF first = 0 THEN "poll" ELSE "terminate")
  BY DEF Decide, NextRound, Quiet, children, buffers
<1>2. tree => result.tree \/ (Said("READY") /\ Said("LEAF"))
  BY DEF TreeSeen
<1>3. tree \in BOOLEAN
  BY DEF TreeSeen, LaunchInv, ShapeInv, Results, Said, Contains
<1> HIDE DEF tree
<1>4. DOMAIN reasons = 1..6
  BY DEF Reasons
<1>5. /\ reasons[1].holds <=> over["stdout"]
      /\ reasons[2].holds <=> over["stderr"]
      /\ reasons[4].holds <=> Deadline
      /\ reasons[5].holds => saw.exited
      /\ reasons[6].holds <=> AtEnd(saw.exited)
  BY DEF Reasons
<1>6. /\ reasons[1].outcome = "StdoutLimit" /\ reasons[2].outcome = "StderrLimit" /\ reasons[3].outcome = "Cancelled"
      /\ reasons[4].outcome = "Timeout" /\ reasons[5].outcome = "DescendantsAfterParentExit" /\ reasons[6].outcome = NaturalEnd
  BY DEF Reasons
<1> HIDE DEF reasons
<1>7. holding \in SUBSET (1..6) /\ \A n \in 1..6 : n \in holding <=> reasons[n].holds
  BY <1>4
<1> HIDE DEF holding
<1>8. /\ first \in 0..6
      /\ first # 0 => reasons[first].holds
      /\ first \notin 1..4 => ~reasons[1].holds /\ ~reasons[2].holds /\ ~reasons[4].holds
      /\ first = 6 => ~reasons[5].holds
  <2>1. CASE holding = {}
    BY <1>7, <2>1
  <2>2. CASE holding # {}
    <3>1. first \in holding /\ \A n \in holding : first <= n
      BY <1>7, <2>2, LeastIs
    <3> HIDE DEF first
    <3>2. first \in 1..6 /\ reasons[first].holds
      BY <1>7, <3>1
    <3>3. ASSUME NEW n \in 1..6, n < first PROVE ~reasons[n].holds
      BY <1>7, <3>1, <3>2, <3>3
    <3> QED BY <3>2, <3>3
  <2> QED BY <2>1, <2>2
<1> HIDE DEF first
<1>9. first \notin 1..4 => ~over["stdout"] /\ ~over["stderr"] /\ clock # "all"
  BY <1>5, <1>8 DEF Deadline
<1>10. NaturalEnd \in {"OutputMismatch", "Completed", "NonZeroExit"}
  BY DEF NaturalEnd
<1>11. code["root"] \in Codes /\ result \in Results
  BY DEF LaunchInv, ShapeInv, Processes
<1> DEFINE outcome == IF first = 0 THEN result.outcome ELSE reasons[first].outcome
           exit == IF first \notin 1..4 /\ saw.exited THEN code["root"] ELSE result.exit
<1>12. result' = [result EXCEPT !.tree = tree, !.outcome = outcome, !.exit = exit]
  BY <1>1
<1>13. outcome \in Outcomes /\ exit \in Codes
  <2>1. result.outcome \in Outcomes /\ result.exit \in Codes
    BY <1>11 DEF Results
  <2>2. first # 0 => reasons[first].outcome \in Outcomes
    <3>1. first \in {0, 1, 2, 3, 4, 5, 6}
      BY <1>8
    <3> QED BY <1>6, <1>10, <3>1, OutcomesAre
  <2> QED BY <1>11, <2>1, <2>2
<1>14. first = 0 => outcome = result.outcome
  OBVIOUS
<1>15. first # 0 => outcome = reasons[first].outcome
  OBVIOUS
<1>16. exit = result.exit \/ (saw.exited /\ exit = code["root"] /\ first \notin 1..4)
  OBVIOUS
<1>17. saw.exited /\ first \notin 1..4 => exit = code["root"]
  OBVIOUS
<1> HIDE DEF outcome, exit
<1>18. result' \in Results /\ UNCHANGED <<result.error, result.resumed, result.passed>>
  BY <1>3, <1>11, <1>12, <1>13 DEF Results
<1>19. result'.tree = tree /\ result'.outcome = outcome /\ result'.exit = exit
  BY <1>11, <1>12 DEF Results
<1>20. ready' \in BOOLEAN
  BY <1>1 DEF LaunchInv, ShapeInv, Said, Contains
<1>21. \/ phase' = "poll" /\ result'.outcome = result.outcome
       \/ /\ phase' = "terminate"
          /\ \/ result'.outcome = "StdoutLimit" /\ over["stdout"]
             \/ result'.outcome = "StderrLimit" /\ over["stderr"]
             \/ result'.outcome \in {"Cancelled", "Timeout"}
             \/ result'.outcome = "DescendantsAfterParentExit" /\ result'.exit = code["root"]
             \/ /\ result'.outcome = NaturalEnd /\ result'.exit = code["root"]
                /\ \A s \in Streams : closed[s] /\ ~over[s]
  <2>1. first \in {0, 1, 2, 3, 4, 5, 6}
    BY <1>8
  <2>2. CASE first = 0
    BY <1>1, <1>14, <1>19, <2>2
  <2>3. CASE first \in {1, 2, 3, 4}
    BY <1>1, <1>5, <1>6, <1>8, <1>15, <1>19, <2>3
  <2>4. CASE first = 5
    BY <1>1, <1>5, <1>6, <1>8, <1>15, <1>17, <1>19, <2>4
  <2>5. CASE first = 6
    <3>1. AtEnd(saw.exited)
      BY <1>5, <1>8, <2>5
    <3>2. saw.exited /\ \A s \in Streams : closed[s] /\ ~over[s]
      BY <1>9, <2>5, <3>1 DEF AtEnd, Streams
    <3> QED BY <1>1, <1>6, <1>15, <1>17, <1>19, <2>5, <3>2
  <2> QED BY <2>1, <2>2, <2>3, <2>4, <2>5
<1> QED BY <1>1, <1>2, <1>9, <1>16, <1>18, <1>19, <1>20, <1>21

\* The code of a root that has exited by itself before the deadline and within the limits.
LEMMA ExitIs ==
  ASSUME LaunchInv, phase = "poll", state["root"] = "exited", ~over["stdout"], ~over["stderr"], clock # "all"
  PROVE  /\ code["root"] \notin {Killed, NoCode}
         /\ case.mode \in Sleepers \cup {"flood-out", "flood-err"} => Failed("root")
<1>1. "root" \in Processes /\ case \in Cases /\ case.mode \in Modes
  BY CasesAre DEF CaseIs, Processes, LaunchInv, ShapeInv
<1>2. code["root"] # Killed /\ acts["root"] = <<>> /\ code["root"] \in {EndOf("root"), 2, 91, Killed}
  BY <1>1 DEF LaunchInv, Spared, Early, TreeInv, ProcessInv
<1>3. EndOf("root") = Ends(case.mode) /\ Ends(case.mode) \in {0, 17, 94}
  BY <1>1 DEF EndOf, Ends, Modes
<1>4. code["root"] # NoCode
  BY <1>2, <1>3 DEF NoCode, Killed
<1>5. case.mode \in Sleepers => Failed("root")
  <2>1. case.mode \in Sleepers => EndOf("root") = 94
    BY <1>3 DEF Ends, Sleepers
  <2>2. case.mode \in Sleepers => code["root"] # 94
    BY <1>2 DEF LaunchInv, Asleep, Early
  <2> QED BY <1>2, <2>1, <2>2 DEF Failed
<1>6. ASSUME NEW s \in Streams, case.mode = Flooding[s], code["root"] = 0 PROVE FALSE
  <2>1. Units(s) = Flood
    BY <1>6 DEF LaunchInv, FloodInv, Streams
  <2>2. Len(kept[s]) <= Limit /\ Len(pipe[s]) <= PipeSize /\ Len(acts["root"]) = 0
    BY <1>2 DEF LaunchInv, ShapeInv
  <2>3. PICK k \in Nat, l \in Nat : k = Len(kept[s]) /\ l = Len(pipe[s])
    BY DEF LaunchInv, ShapeInv
  <2>4. k + l + 0 = Flood /\ k <= Limit /\ l <= PipeSize
    BY <2>1, <2>2, <2>3 DEF Units
  <2> QED BY <2>4, LaunchAssumption
<1>7. case.mode \in {"flood-out", "flood-err"} => Failed("root")
  <2>1. case.mode \in {"flood-out", "flood-err"} => EndOf("root") = 0
    BY FloodEnd
  <2>2. case.mode \in {"flood-out", "flood-err"} => \E s \in Streams : case.mode = Flooding[s]
    BY DEF Streams, Flooding
  <2> QED BY <1>2, <1>6, <2>1, <2>2 DEF Failed
<1> QED BY <1>2, <1>4, <1>5, <1>7

LEMMA DecideKeeps == ASSUME LaunchInv, Decide PROVE LaunchInv'
<1>1. /\ phase = "poll" /\ at = "decide" /\ at' = "stdout" /\ chunk' = 0 /\ saw' = Unread /\ ready' \in BOOLEAN
      /\ Quiet /\ UNCHANGED <<doomed, clock>>
      /\ result' \in Results /\ UNCHANGED <<result.error, result.resumed, result.passed>>
      /\ result'.tree => result.tree \/ (Said("READY") /\ Said("LEAF"))
      /\ result'.exit = result.exit
         \/ (saw.exited /\ result'.exit = code["root"] /\ ~over["stdout"] /\ ~over["stderr"] /\ clock # "all")
      /\ \/ phase' = "poll" /\ result'.outcome = result.outcome
         \/ /\ phase' = "terminate"
            /\ \/ result'.outcome = "StdoutLimit" /\ over["stdout"]
               \/ result'.outcome = "StderrLimit" /\ over["stderr"]
               \/ result'.outcome \in {"Cancelled", "Timeout"}
               \/ result'.outcome = "DescendantsAfterParentExit" /\ result'.exit = code["root"]
               \/ /\ result'.outcome = NaturalEnd /\ result'.exit = code["root"]
                  /\ \A s \in Streams : closed[s] /\ ~over[s]
  BY DecideIs
<1>2. phase' \in {"poll", "terminate"}
  BY <1>1
<1>3. /\ Unread \in [active : 0..3, exited : BOOLEAN] /\ ~Unread.exited /\ 0 \in 0..1
      /\ "stdout" \in Streams /\ "stderr" \in Streams
  BY DEF Unread, Streams
<1>4. ShapeInv'
  <2>1. at' \in Streams \cup {"active", "exited", "decide"} /\ chunk' \in 0..1 /\ saw' \in [active : 0..3, exited : BOOLEAN]
    BY <1>1, <1>3
  <2> QED BY <1>1, <1>2, <2>1 DEF LaunchInv, ShapeInv, Quiet
<1>5. TreeInv' /\ SpokenInv' /\ BufferInv' /\ FloodInv' /\ Live' = Live
  BY <1>1, QuietKeeps
<1>6. Asleep' /\ Spared' /\ Unresumed'
  <2>1. result.resumed /\ result'.resumed
    BY <1>1 DEF LaunchInv, PhaseInv
  <2> QED BY <1>1, <1>2, <2>1 DEF LaunchInv, Asleep, Spared, Unresumed, Early, Quiet
<1>7. result.outcome = "Error" /\ result.error = "None" /\ ~result.passed /\ ~case.cancelled /\ result.resumed
  BY <1>1 DEF LaunchInv, PhaseInv, Early
<1>8. PhaseInv'
  BY <1>1, <1>2, <1>3, <1>7 DEF PhaseInv, Early, Quiet
<1>9. ExitInv'
  <2>1. CASE result'.exit = result.exit
    BY <1>1, <2>1 DEF LaunchInv, ExitInv, Failed, Quiet
  <2>2. CASE saw.exited /\ result'.exit = code["root"] /\ ~over["stdout"] /\ ~over["stderr"] /\ clock # "all"
    <3>1. state["root"] = "exited"
      BY <2>2 DEF LaunchInv, PhaseInv
    <3>2. /\ code["root"] # Killed
          /\ case.mode \in Sleepers \cup {"flood-out", "flood-err"} => Failed("root")
      BY <1>1, <2>2, <3>1, ExitIs
    <3> QED BY <1>1, <2>2, <3>1, <3>2 DEF ExitInv, Failed, Quiet
  <2> QED BY <1>1, <2>1, <2>2
<1>10. code["root"] # NoCode
  <2>1. Ends(case.mode) \in {0, 17, 94}
    <3>1. case.mode \in Modes
      BY CasesAre DEF CaseIs, LaunchInv, ShapeInv
    <3> QED BY <3>1 DEF Ends, Modes
  <2>2. code["root"] \in {Ends(case.mode), 2, 91, Killed}
    BY DEF LaunchInv, TreeInv, ProcessInv, EndOf, Processes
  <2> QED BY <2>1, <2>2 DEF NoCode, Killed
<1>11. /\ NaturalEnd \in {"OutputMismatch", "Completed", "NonZeroExit"}
       /\ NaturalEnd = "Completed" =>
            code["root"] = 0 /\ (case.mode = "normal" => kept["stdout"] = <<"OUT">> /\ kept["stderr"] = <<"ERR">>)
  BY DEF NaturalEnd
<1>12. OutcomeInv'
  <2>1. CASE result'.outcome = result.outcome
    BY <1>7, <2>1 DEF OutcomeInv, NaturalEnds
  <2>2. CASE result'.outcome = "StdoutLimit" /\ over["stdout"]
    BY <1>1, <1>7, <2>2 DEF OutcomeInv, NaturalEnds, Quiet
  <2>3. CASE result'.outcome = "StderrLimit" /\ over["stderr"]
    BY <1>1, <1>7, <2>3 DEF OutcomeInv, NaturalEnds, Quiet
  <2>4. CASE result'.outcome \in {"Cancelled", "Timeout"}
    BY <1>1, <1>7, <2>4 DEF OutcomeInv, NaturalEnds
  <2>5. CASE result'.outcome = "DescendantsAfterParentExit" /\ result'.exit = code["root"]
    BY <1>1, <1>7, <1>10, <2>5 DEF OutcomeInv, NaturalEnds
  <2>6. CASE result'.outcome = NaturalEnd /\ result'.exit = code["root"] /\ \A s \in Streams : closed[s] /\ ~over[s]
    BY <1>1, <1>2, <1>7, <1>10, <1>11, <2>6 DEF OutcomeInv, NaturalEnds, Quiet
  <2> QED BY <1>1, <2>1, <2>2, <2>3, <2>4, <2>5, <2>6
<1>13. PassedInv'
  BY <1>1, <1>7 DEF PassedInv
<1> QED BY <1>4, <1>5, <1>6, <1>8, <1>9, <1>12, <1>13 DEF LaunchInv

LEMMA InitInv == ASSUME Init PROVE LaunchInv
<1>1. /\ case \in Cases /\ (\A p \in Processes : state[p] = "none") /\ doomed = {}
      /\ \A p \in Processes : acts[p] = Script(p) /\ code[p] = EndOf(p)
      /\ \A s \in Streams : pipe[s] = <<>> /\ kept[s] = <<>> /\ ~closed[s] /\ ~over[s]
      /\ phase = "start" /\ at = "stdout" /\ chunk = 0 /\ saw = Unread /\ clock = "none" /\ ready = FALSE
      /\ result = Fresh
  BY DEF Init, Script, EndOf
<1>2. case.mode \in Modes
  BY <1>1, CasesAre DEF CaseIs
<1>3. \A p \in Processes : EndOf(p) \in {0, 17, 94}
  BY <1>2 DEF EndOf, Ends, Modes
<1>4. \A p \in Processes : Script(p) \in Seq(Lines)
  <2>1. <<>> \in Seq(Lines)
    OBVIOUS
  <2> QED BY <1>1, <2>1, RootScript, LeafScript DEF Script
<1>5. /\ Fresh \in Results /\ Fresh.outcome = "Error" /\ Fresh.error = "None" /\ Fresh.exit = NoCode /\ ~Fresh.tree /\ ~Fresh.passed
      /\ ~Fresh.resumed /\ Unread \in [active : 0..3, exited : BOOLEAN] /\ ~Unread.exited
  <2>1. "Error" \in Outcomes /\ NoCode \in Codes
    BY OutcomesAre DEF Codes
  <2> QED BY <2>1 DEF Fresh, Results, Unread
<1>6. "root" \in Processes /\ "leaf" \in Processes /\ "console" \in Processes /\ "stdout" \in Streams
  BY DEF Processes, Streams
<1>7. ShapeInv
  <2>1. <<>> \in Seq(Texts) /\ Len(<<>>) = 0
    OBVIOUS
  <2>2. /\ state = [p \in Processes |-> state[p]] /\ acts = [p \in Processes |-> acts[p]] /\ code = [p \in Processes |-> code[p]]
        /\ pipe = [s \in Streams |-> pipe[s]] /\ kept = [s \in Streams |-> kept[s]]
        /\ closed = [s \in Streams |-> closed[s]] /\ over = [s \in Streams |-> over[s]]
    BY DEF Init
  <2>3. state \in [Processes -> {"none", "suspended", "running", "exited"}]
    BY <1>1, <2>2
  <2>4. code \in [Processes -> Codes]
    BY <1>1, <1>3, <2>2 DEF Codes
  <2>5. acts \in [Processes -> Seq(Lines)]
    BY <1>1, <1>4, <2>2
  <2>6. pipe \in [Streams -> Seq(Texts)] /\ kept \in [Streams -> Seq(Texts)]
    BY <1>1, <2>1, <2>2
  <2>7. closed \in [Streams -> BOOLEAN] /\ over \in [Streams -> BOOLEAN]
    BY DEF Init
  <2>8. \A s \in Streams : Len(pipe[s]) <= PipeSize /\ Len(kept[s]) <= Limit
    BY <1>1, <2>1, LaunchAssumption
  <2>9. at \in Streams /\ chunk \in 0..1 /\ saw \in [active : 0..3, exited : BOOLEAN]
    BY <1>1, <1>5, <1>6
  <2>11. ready \in BOOLEAN /\ doomed \subseteq Processes
    BY <1>1
  <2>10. result \in Results /\ case \in Cases
    BY <1>1, <1>5
  <2> QED BY <1>1, <2>3, <2>4, <2>5, <2>6, <2>7, <2>8, <2>9, <2>10, <2>11 DEF ShapeInv
<1>8. TreeInv
  <2>1. ASSUME NEW p \in Processes PROVE ProcessInv(p)
    <3>1. Len(Script(p)) <= Len(Script(p)) /\ \A i \in 1..Len(Script(p)) : Len(Script(p)) - Len(Script(p)) + i = i
      BY <1>4
    <3>a. acts[p] = Script(p)
      BY <1>1
    <3>2. Follows(p)
      <4>1. \A i \in 1..Len(Script(p)) : Script(p)[i] = Script(p)[Len(Script(p)) - Len(Script(p)) + i]
        BY <3>1
      <4> QED BY <3>1, <3>a, <4>1 DEF Follows
    <3>3. ~Failed(p) /\ code[p] # Killed
      BY <1>1, <1>3 DEF Failed, Killed
    <3> QED BY <1>1, <3>2, <3>3 DEF ProcessInv
  <2> QED BY <1>1, <1>6, <2>1 DEF TreeInv, Script
<1>9. SpokenInv
  <2>1. \A t : ~Contains(<<>>, t)
    BY DEF Contains
  <2> QED BY <1>1, <1>5, <2>1 DEF SpokenInv, Heard
<1>10. BufferInv
  BY <1>1 DEF BufferInv
<1>11. FloodInv
  <2> SUFFICES ASSUME NEW s \in Streams, case.mode = Flooding[s]
               PROVE  ~Failed("root") /\ Units(s) = Flood
    BY <1>1, LaunchAssumption DEF FloodInv
  <2>1. case.mode \in {"flood-out", "flood-err"}
    BY DEF Streams, Flooding
  <2>2. Len(acts["root"]) = Flood
    BY <1>1, <1>6, <2>1, RootScript DEF Script
  <2>a. Len(<<>>) = 0
    OBVIOUS
  <2>3. Units(s) = 0 + 0 + Flood
    BY <1>1, <2>2, <2>a DEF Units
  <2> QED BY <1>1, <1>3, <1>6, <2>3, LaunchAssumption DEF Failed
<1>12. Asleep /\ Spared
  <2>1. case.mode \in Sleepers => acts["root"] # <<>>
    <3>1. case.mode \in Sleepers => Len(acts["root"]) = 3
      BY <1>1, <1>6, RootScript DEF Script
    <3> QED BY <3>1
  <2> QED BY <1>1, <1>3, <2>1 DEF Asleep, Spared, Killed
<1>13. Unresumed
  BY <1>1, <1>5, <1>6 DEF Unresumed, Script
<1>14. PhaseInv
  BY <1>1, <1>5, <1>6 DEF PhaseInv
<1>15. ExitInv /\ OutcomeInv /\ PassedInv
  BY <1>1, <1>5 DEF ExitInv, OutcomeInv, PassedInv, NaturalEnds
<1> QED BY <1>7, <1>8, <1>9, <1>10, <1>11, <1>12, <1>13, <1>14, <1>15 DEF LaunchInv

LEMMA StutterKeeps == ASSUME LaunchInv, UNCHANGED vars PROVE LaunchInv'
<1>1. Quiet /\ UNCHANGED <<doomed, phase, at, chunk, saw, clock, ready, result>>
  BY DEF vars, Quiet
<1>2. ShapeInv'
  BY <1>1 DEF LaunchInv, ShapeInv, Quiet
<1>3. TreeInv'
  BY <1>1, TreeKeeps DEF Quiet
<1>4. UNCHANGED <<Live, Writers, LeafSpoke, RootSpoke>> /\ \A t : Heard(t)' = Heard(t)
  BY <1>1 DEF Quiet, Live, Writers, LeafSpoke, RootSpoke, Failed, Heard
<1>5. SpokenInv' /\ BufferInv'
  BY <1>1, <1>4 DEF LaunchInv, SpokenInv, BufferInv, Quiet
<1>6. FloodInv' /\ Asleep' /\ Spared' /\ Unresumed'
  BY <1>1 DEF LaunchInv, FloodInv, Units, Failed, Asleep, Spared, Unresumed, Early, Quiet
<1>7. PhaseInv'
  BY <1>1, <1>4 DEF LaunchInv, PhaseInv, Early, Quiet
<1>8. ExitInv' /\ OutcomeInv'
  BY <1>1 DEF LaunchInv, ExitInv, OutcomeInv, Failed, Quiet
<1>9. PassedInv'
  <2>1. Passed(result)' = Passed(result)
    BY <1>1 DEF Passed, Quiet
  <2> QED BY <1>1, <1>4, <2>1 DEF LaunchInv, PassedInv, Quiet
<1> QED BY <1>2, <1>3, <1>5, <1>6, <1>7, <1>8, <1>9 DEF LaunchInv

LEMMA NextKeeps == ASSUME LaunchInv, [Next]_vars PROVE LaunchInv'
<1>1. ASSUME NEW p \in Processes, ChildActs(p) \/ ChildFails(p) \/ ChildExits(p) \/ Dies(p) PROVE LaunchInv'
  BY <1>1, ActsEffect, FailsEffect, ExitsEffect, DiesEffect, ChildKeeps
<1>2. CASE ConsoleStarts
  BY <1>2, ConsoleEffect, ChildKeeps
<1>3. CASE Supervise
  BY <1>3, CreateKeeps, InspectKeeps, DrainKeeps, ActiveKeeps, ExitedKeeps, DecideKeeps, TerminateKeeps, CleanupDecideKeeps, CleanupExpiresKeeps
     DEF Supervise
<1>4. CASE CallFails
  BY <1>4, CallFailsKeeps
<1>5. CASE TimePasses
  BY <1>5, TimeKeeps
<1>6. CASE SupervisorKilled
  BY <1>6, KilledKeeps
<1>7. CASE UNCHANGED vars
  BY <1>7, StutterKeeps
<1> QED BY <1>1, <1>2, <1>3, <1>4, <1>5, <1>6, <1>7 DEF Next, Children

\* What the invariant says of a case that has passed.
LEMMA Earned ==
  ASSUME LaunchInv, result.passed
  PROVE  /\ case.cancelled => result = [Fresh EXCEPT !.outcome = "CancelledBeforeCreate", !.passed = TRUE]
         /\ ~case.cancelled => Passed(result) /\ Live = {} /\ phase = "done"
  BY DEF LaunchInv, PassedInv

LEMMA TypesHold == LaunchInv => TypeOK
<1> SUFFICES ASSUME LaunchInv PROVE TypeOK
  OBVIOUS
<1>1. case \in Cases /\ state \in [Processes -> {"none", "suspended", "running", "exited"}] /\ doomed \subseteq Processes
  BY DEF LaunchInv, ShapeInv
<1>2. code \in [Processes -> {NoCode, 0, 2, 17, 91, 94, Killed}]
  BY DEF LaunchInv, ShapeInv, Codes
<1>3. \A s \in Streams : Len(pipe[s]) <= PipeSize /\ Len(kept[s]) <= Limit /\ {closed[s], over[s]} \subseteq BOOLEAN
  BY DEF LaunchInv, ShapeInv
<1>4. /\ phase \in {"start", "inspect", "poll", "terminate", "cleanup", "done", "killed"}
      /\ at \in Streams \cup {"active", "exited", "decide"} /\ chunk \in 0..1 /\ clock \in {"none", "grace", "all"}
  BY DEF LaunchInv, ShapeInv
<1>5. saw.active \in 0..3 /\ saw.exited \in BOOLEAN /\ ready \in BOOLEAN /\ result.outcome \in Outcomes
  BY DEF LaunchInv, ShapeInv, Results
<1> QED BY <1>1, <1>2, <1>3, <1>4, <1>5 DEF TypeOK

\* The leaf of a case in which it was heard, when nothing is left.
LEMMA LeafEnded == ASSUME LaunchInv, result.tree, Live = {} PROVE LeafRan /\ ~Failed("root") /\ case.mode \in TreeModes
<1>1. LeafSpoke /\ RootSpoke
  BY DEF LaunchInv, SpokenInv
<1>2. state["leaf"] # "running"
  BY DEF Live, Processes
<1> QED BY <1>1, <1>2 DEF LeafSpoke, RootSpoke, LeafRan

LEMMA EarnedHolds == LaunchInv => PassedIsEarned
<1> SUFFICES ASSUME LaunchInv, result.passed, result.created PROVE
      /\ Live = {}
      /\ CASE result.outcome = "Completed"   -> code["root"] = 0 /\ kept = [stdout |-> <<"OUT">>, stderr |-> <<"ERR">>]
           [] result.outcome = "NonZeroExit" -> code["root"] = 17
           [] result.outcome \in {"Timeout", "Cancelled"} -> LeafRan
           [] result.outcome = "StdoutLimit" -> Len(kept["stdout"]) = Limit
           [] result.outcome = "StderrLimit" -> Len(kept["stderr"]) = Limit
           [] result.outcome = "DescendantsAfterParentExit" -> code["root"] = 0 /\ LeafRan
           [] result.outcome = "InjectedBeforeResume" -> acts["root"] = Acts(case.mode)
  BY DEF PassedIsEarned
<1>1. ~case.cancelled
  <2>1. ~[Fresh EXCEPT !.outcome = "CancelledBeforeCreate", !.passed = TRUE].created
    BY DEF Fresh
  <2> QED BY <2>1, Earned
<1>2. Passed(result) /\ Live = {} /\ phase = "done"
  BY <1>1, Earned
<1>3. /\ result.outcome = case.expected /\ result.resumed = ~case.injected /\ (case.mode \in TreeModes => result.tree)
      /\ case.mode = "nonzero" => result.exit = 17
  BY <1>2 DEF Passed
<1>4. CaseIs(case)
  BY CasesAre DEF LaunchInv, ShapeInv
<1>5. result.outcome = "Completed" => code["root"] = 0 /\ kept = [stdout |-> <<"OUT">>, stderr |-> <<"ERR">>]
  <2> SUFFICES ASSUME result.outcome = "Completed" PROVE code["root"] = 0 /\ kept = [stdout |-> <<"OUT">>, stderr |-> <<"ERR">>]
    OBVIOUS
  <2>1. code["root"] = 0 /\ kept["stdout"] = <<"OUT">> /\ kept["stderr"] = <<"ERR">>
    BY <1>3, <1>4 DEF LaunchInv, OutcomeInv, CaseIs
  <2>2. kept = [s \in Streams |-> kept[s]] /\ Streams = {"stdout", "stderr"}
    BY DEF LaunchInv, ShapeInv, Streams
  <2>3. kept = [stdout |-> kept["stdout"], stderr |-> kept["stderr"]]
    BY <2>2
  <2> QED BY <2>1, <2>3
<1>6. result.outcome = "NonZeroExit" => code["root"] = 17
  <2>1. result.outcome = "NonZeroExit" => result.exit = 17 /\ result.exit # NoCode
    BY <1>3, <1>4 DEF CaseIs, NoCode
  <2> QED BY <2>1 DEF LaunchInv, ExitInv
<1>7. result.outcome \in {"Timeout", "Cancelled"} => LeafRan
  <2>1. result.outcome \in {"Timeout", "Cancelled"} => result.tree
    BY <1>3, <1>4 DEF CaseIs, TreeModes
  <2> QED BY <1>2, <2>1, LeafEnded
<1>8. /\ result.outcome = "StdoutLimit" => Len(kept["stdout"]) = Limit
      /\ result.outcome = "StderrLimit" => Len(kept["stderr"]) = Limit
  BY DEF LaunchInv, OutcomeInv, BufferInv, Streams
<1>9. result.outcome = "DescendantsAfterParentExit" => code["root"] = 0 /\ LeafRan
  <2> SUFFICES ASSUME result.outcome = "DescendantsAfterParentExit" PROVE code["root"] = 0 /\ LeafRan
    OBVIOUS
  <2>1. case.mode = "leave-tree" /\ result.tree
    BY <1>3, <1>4 DEF CaseIs, TreeModes
  <2>2. LeafRan /\ ~Failed("root")
    BY <1>2, <2>1, LeafEnded
  <2>3. code["root"] # Killed
    BY DEF LaunchInv, OutcomeInv, ExitInv
  <2>4. EndOf("root") = 0
    BY <2>1 DEF EndOf, Ends
  <2> QED BY <2>2, <2>3, <2>4 DEF LaunchInv, TreeInv, ProcessInv, Processes, Failed
<1>10. result.outcome = "InjectedBeforeResume" => acts["root"] = Acts(case.mode)
  <2>1. result.outcome = "InjectedBeforeResume" => ~result.resumed
    BY <1>3, <1>4 DEF CaseIs
  <2> QED BY <1>2, <2>1 DEF LaunchInv, Unresumed
<1>11. result.outcome \in {"Completed", "NonZeroExit", "Timeout", "Cancelled", "StdoutLimit", "StderrLimit",
                          "DescendantsAfterParentExit", "InjectedBeforeResume"}
  BY <1>1, <1>3, <1>4 DEF CaseIs
<1> QED BY <1>2, <1>5, <1>6, <1>7, <1>8, <1>9, <1>10, <1>11

LEMMA WholeHolds == LaunchInv => NaturalEndIsWhole
<1> SUFFICES ASSUME LaunchInv, result.outcome \in NaturalEnds
             PROVE  Writers = {} /\ (\A s \in Streams : pipe[s] = <<>> /\ ~over[s]) /\ result.exit = code["root"]
  BY DEF NaturalEndIsWhole, NaturalEnds
<1>1. phase # "killed" /\ result.exit # NoCode /\ \A s \in Streams : closed[s] /\ ~over[s]
  BY DEF LaunchInv, OutcomeInv
<1>2. "stdout" \in Streams
  BY DEF Streams
<1> QED BY <1>1, <1>2 DEF LaunchInv, BufferInv, ExitInv

LEMMA ContractHolds == LaunchInv => ContractAgrees
<1> SUFFICES ASSUME LaunchInv, result.passed PROVE result.outcome = case.expected /\ Accepts(result)
  BY DEF ContractAgrees
<1>0. CaseIs(case)
  BY CasesAre DEF LaunchInv, ShapeInv
<1>1. CASE case.cancelled
  <2>1. result = [Fresh EXCEPT !.outcome = "CancelledBeforeCreate", !.passed = TRUE]
    BY <1>1, Earned
  <2>2. /\ result.outcome = "CancelledBeforeCreate" /\ ~result.created /\ ~result.resumed /\ ~result.standard /\ ~result.rootExited
        /\ ~result.jobEmpty /\ ~result.pipesClosed /\ ~result.tree /\ result.exit = NoCode /\ result.error = "None"
    BY <2>1 DEF Fresh
  <2> QED BY <1>0, <1>1, <2>2 DEF CaseIs, Accepts
<1>2. CASE ~case.cancelled
  <2>1. Passed(result) /\ Live = {} /\ phase = "done"
    BY <1>2, Earned
  <2>2. /\ result.created /\ result.standard /\ result.rootExited /\ result.jobEmpty /\ result.pipesClosed
        /\ result.outcome = case.expected /\ result.resumed = ~case.injected /\ (case.mode \in TreeModes => result.tree)
        /\ case.mode = "nonzero" => result.exit = 17
    BY <2>1 DEF Passed
  <2>3. result.error = IF case.injected THEN "INJECTED_PRE_RESUME" ELSE "None"
    BY <1>0, <2>2 DEF LaunchInv, OutcomeInv, CaseIs
  <2>4. result.tree = (case.mode \in TreeModes)
    <3>1. result.tree \in BOOLEAN /\ (result.tree => case.mode \in TreeModes)
      BY <2>1, LeafEnded DEF LaunchInv, ShapeInv, Results
    <3> QED BY <2>2, <3>1
  <2>5. case.expected = "NonZeroExit" => result.exit = 17
    BY <1>0, <2>2 DEF CaseIs
  <2>6. case.expected = "Completed" => result.exit = 0
    BY <2>2 DEF LaunchInv, OutcomeInv, ExitInv, NaturalEnds
  <2>7. case.expected = "DescendantsAfterParentExit" => result.exit = 0
    <3> SUFFICES ASSUME case.expected = "DescendantsAfterParentExit" PROVE result.exit = 0
      OBVIOUS
    <3>1. case.mode = "leave-tree" /\ result.tree
      BY <1>0, <2>2 DEF CaseIs, TreeModes
    <3>2. ~Failed("root")
      BY <2>1, <3>1, LeafEnded
    <3>3. result.exit = code["root"] /\ code["root"] # Killed
      BY <2>2 DEF LaunchInv, OutcomeInv, ExitInv
    <3>4. EndOf("root") = 0
      BY <3>1 DEF EndOf, Ends
    <3> QED BY <3>2, <3>3, <3>4 DEF LaunchInv, TreeInv, ProcessInv, Processes, Failed
  <2>8. case.expected \in {"Timeout", "Cancelled"} => result.exit = NoCode
    <3>1. case.expected \in {"Timeout", "Cancelled"} => case.mode \in Sleepers /\ result.tree
      BY <1>0, <2>2 DEF CaseIs, TreeModes, Sleepers
    <3>2. result.tree => ~Failed("root")
      BY <2>1, LeafEnded
    <3> QED BY <3>1, <3>2 DEF LaunchInv, ExitInv
  <2>9. case.expected \in {"StdoutLimit", "StderrLimit"} => result.exit = NoCode
    <3> SUFFICES ASSUME NEW s \in Streams, case.mode = Flooding[s], over[s], result.exit # NoCode PROVE FALSE
      BY <1>0, <2>2 DEF CaseIs, Flooding, Streams, LaunchInv, OutcomeInv
    <3>1. case.mode \in {"flood-out", "flood-err"}
      BY DEF Flooding, Streams
    <3>2. Failed("root")
      BY <3>1 DEF LaunchInv, ExitInv
    <3> QED BY <2>1, <3>2 DEF LaunchInv, FloodInv
  <2>10. case.expected = "InjectedBeforeResume" => result.exit = NoCode
    BY <1>0, <2>1, <2>2 DEF CaseIs, LaunchInv, Unresumed
  <2>11. case.expected \in {"Completed", "NonZeroExit", "Timeout", "Cancelled", "StdoutLimit", "StderrLimit",
                           "DescendantsAfterParentExit", "InjectedBeforeResume"}
    BY <1>0, <1>2 DEF CaseIs
  <2>12. result.exit = CASE case.expected = "NonZeroExit" -> 17
                         [] case.expected \in {"Completed", "DescendantsAfterParentExit"} -> 0
                         [] OTHER -> NoCode
    BY <2>5, <2>6, <2>7, <2>8, <2>9, <2>10, <2>11
  <2> QED BY <1>2, <2>2, <2>3, <2>4, <2>12 DEF Accepts
<1> QED BY <1>1, <1>2

-----------------------------------------------------------------------------
(* The run                                                                 *)

SupervisionInv == LaunchInv /\ ProbeInv

LEMMA ProbeStarts == Tree!Init => ProbeInv
<1> SUFFICES ASSUME Tree!Init PROVE ProbeInv
  OBVIOUS
<1>1. /\ child = "none" /\ kin = FALSE /\ sent = [s \in Tree!Streams |-> 0] /\ seen = sent /\ retained = sent
      /\ reason = "none" /\ direct = "none" /\ taskkill = "none" /\ ended = "pending" /\ main = "waiting"
      /\ timers \subseteq {"TimedOut", "ExplicitCancellation"} /\ pid = "absent" /\ stop = FALSE /\ observer = "waiting"
  BY DEF Tree!Init
<1>2. 0 \in 0..MaxBytes /\ 0 \in 0..ByteLimit
  BY ProbeAssumption
<1>3. sent \in [Tree!Streams -> 0..MaxBytes] /\ retained \in [Tree!Streams -> 0..ByteLimit]
  BY <1>1, <1>2
<1>4. kin \in BOOLEAN /\ stop \in BOOLEAN
  BY <1>1
<1>5. "none" \in Tree!Reasons
  BY DEF Tree!Reasons
<1>6. Tree!TypeOK
  BY <1>1, <1>3, <1>4, <1>5 DEF Tree!TypeOK
<1>7. \A s \in Tree!Streams : seen[s] = 0 /\ sent[s] = 0 /\ retained[s] = 0
  BY <1>1
<1>8. Tree!Least(0, ByteLimit) = 0 /\ ~(0 > ByteLimit) /\ 0 <= 0
  BY ProbeAssumption DEF Tree!Least
<1>9. \A s \in Tree!Streams : Tree!Exceeded[s] # "none"
  BY DEF Tree!Exceeded, Tree!Streams
<1>10. StreamInv
  BY <1>1, <1>7, <1>8, <1>9 DEF StreamInv
<1>11. CloseInv
  BY <1>1 DEF CloseInv, Tree!TerminationIsComplete
<1> QED BY <1>6, <1>10, <1>11 DEF ProbeInv

LEMMA SupervisionInvHolds == MCSpec => []SupervisionInv
<1>1. MCInit => SupervisionInv
  BY InitInv, ProbeStarts DEF MCInit, SupervisionInv
<1>2. SupervisionInv /\ [MCNext]_all => SupervisionInv'
  <2> SUFFICES ASSUME SupervisionInv, [MCNext]_all PROVE SupervisionInv'
    OBVIOUS
  <2>1. [Next]_vars
    BY DEF MCNext, all
  <2>2. [Tree!Next]_probeVars
    BY AloneIsTree DEF MCNext, all
  <2> QED BY <2>1, <2>2, NextKeeps, ProbeStep DEF SupervisionInv
<1> QED BY <1>1, <1>2, PTL DEF MCSpec

\* What the probe's summary says of the child, of its output and of the termination it
\* asked for is true, whether or not the child leaves descendants: summary and
\* requestTermination of process-probe.mjs.
THEOREM SummariesAreReal == MCSpec => []SummaryIsReal
<1>1. SupervisionInv => SummaryIsReal
  <2> SUFFICES ASSUME ProbeInv PROVE SummaryIsReal
    BY DEF SupervisionInv
  <2>1. Tree!TypeOK /\ Tree!TerminationIsComplete
    BY DEF ProbeInv, CloseInv
  <2>2. Tree!SummaryIsTrue
    BY DEF ProbeInv, CloseInv, Tree!SummaryIsTrue
  <2>3. Tree!LimitsExplained
    BY DEF ProbeInv, StreamInv, Tree!LimitsExplained
  <2> QED BY <2>1, <2>2, <2>3 DEF SummaryIsReal
<1> QED BY <1>1, SupervisionInvHolds, PTL

\* A case of the launch harness that passes, and an end it calls the child's own, is what
\* happened to the child, and the independent contract accepts its record, in whatever
\* order the supervisor's calls and the children's steps come and whichever calls fail.
THEOREM PassesAreReal == MCSpec => []PassIsReal
<1>1. SupervisionInv => PassIsReal
  BY TypesHold, EarnedHolds, WholeHolds, ContractHolds DEF SupervisionInv, PassIsReal
<1> QED BY <1>1, SupervisionInvHolds, PTL
=============================================================================
