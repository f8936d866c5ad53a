---------------------------- MODULE SyntheticLaunch ----------------------------
(***************************************************************************)
(* One case of the synthetic launch harness                                *)
(* (tools/backend/native-synthetic/SyntheticLaunchHarness.cs): a           *)
(* supervisor creates its child suspended in a kill-on-close Job, checks   *)
(* it, resumes it and polls two pipes, the Job and the process, one system *)
(* call after the other, while the child and its leaf write, fork and      *)
(* exit; then it terminates the Job and polls again until all is gone.     *)
(*                                                                         *)
(* A line or a kibibyte of output is one unit.  Elapsed time is modelled   *)
(* by the deadlines it has passed, which it may do at any time.            *)
(***************************************************************************)
EXTENDS Integers, FiniteSets, SequencesExt

CONSTANTS
  Limit,          \* PipeBuffer.Limit
  PipeSize,       \* units a pipe holds, and units one read takes
  Flood,          \* units the flooding children write
  ConsoleHelper   \* whether the system may add a console process to the Job

ASSUME LaunchAssumption ==
  /\ {Limit, PipeSize, Flood} \subseteq Nat /\ Limit >= 2 /\ PipeSize >= 1
  /\ Flood > Limit + PipeSize /\ ConsoleHelper \in BOOLEAN

\* The suite.  Whether the token is restricted makes no difference to the supervisor.
Case(mode, expected) == [mode |-> mode, expected |-> expected, cancelled |-> FALSE, injected |-> FALSE]
Cases ==
  { Case("normal", "Completed"), Case("timeout-tree", "Timeout"), Case("cancel-tree", "Cancelled"),
    Case("flood-out", "StdoutLimit"), Case("flood-err", "StderrLimit"), Case("nonzero", "NonZeroExit"),
    Case("leave-tree", "DescendantsAfterParentExit"),
    [Case("normal", "CancelledBeforeCreate") EXCEPT !.cancelled = TRUE],
    [Case("normal", "InjectedBeforeResume") EXCEPT !.injected = TRUE] }
TreeModes == {"timeout-tree", "cancel-tree", "leave-tree"}

Streams == {"stdout", "stderr"}
Processes == {"root", "leaf", "console"}
Line(stream, text) == [do |-> stream, text |-> text]
Fork  == Line("fork", "")
Sleep == Line("sleep", "")
\* What a child does before it exits, and the code it exits with.
Acts(mode) ==
  CASE mode = "normal"    -> <<Line("stdout", "OUT"), Line("stderr", "ERR")>>
    [] mode = "nonzero"   -> <<>>
    [] mode = "flood-out" -> [i \in 1..Flood |-> Line("stdout", "x")]
    [] mode = "flood-err" -> [i \in 1..Flood |-> Line("stderr", "x")]
    [] mode = "leave-tree" -> <<Fork, Line("stdout", "READY")>>
    [] mode \in {"timeout-tree", "cancel-tree"} -> <<Fork, Line("stdout", "READY"), Sleep>>
    [] mode = "sleep"     -> <<Line("stdout", "LEAF"), Sleep>>
Ends(mode) == CASE mode = "nonzero" -> 17 [] mode \in {"timeout-tree", "cancel-tree", "sleep"} -> 94 [] OTHER -> 0
NoCode == -1
Killed == 125
Unread == [active |-> 0, exited |-> FALSE]
Fresh  == [outcome |-> "Error", error |-> "None", created |-> FALSE, resumed |-> FALSE, standard |-> FALSE, exit |-> NoCode,
           tree |-> FALSE, rootExited |-> FALSE, jobEmpty |-> FALSE, pipesClosed |-> FALSE, passed |-> FALSE]

VARIABLES
  case,
  state, acts, code,    \* of each process; code is what it will exit or has exited with
  doomed,               \* processes that are being terminated
  pipe,                 \* units written and not read, by stream
  kept, closed, over,   \* PipeBuffer: retained, Closed, Exceeded
  phase, at, chunk,     \* the supervisor, the call its polling is at, and the read of the drain
  saw,                  \* what this round of polling has read of Job and process
  clock,                \* deadlines passed: none, grace (300 ms after READY) or all
  ready,                \* readyAt >= 0
  result
vars == <<case, state, acts, code, doomed, pipe, kept, closed, over, phase, at, chunk, saw, clock, ready, result>>
children   == <<state, acts, code>>
buffers    == <<kept, closed, over>>
supervisor == <<phase, at, chunk, saw, ready, result>>

Outcomes == {"Error", "OutputMismatch", "CleanupFailed"} \cup {c.expected : c \in Cases}
TypeOK ==
  /\ case \in Cases /\ state \in [Processes -> {"none", "suspended", "running", "exited"}] /\ doomed \subseteq Processes
  /\ code \in [Processes -> {NoCode, 0, 2, 17, 91, 94, Killed}]
  /\ \A s \in Streams : Len(pipe[s]) <= PipeSize /\ Len(kept[s]) <= Limit /\ {closed[s], over[s]} \subseteq BOOLEAN
  /\ phase \in {"start", "inspect", "poll", "terminate", "cleanup", "done", "killed"}
  /\ at \in Streams \cup {"active", "exited", "decide"} /\ chunk \in 0..1 /\ clock \in {"none", "grace", "all"}
  /\ saw.active \in 0..3 /\ saw.exited \in BOOLEAN /\ ready \in BOOLEAN /\ result.outcome \in Outcomes

Init ==
  /\ case \in Cases /\ state = [p \in Processes |-> "none"] /\ doomed = {}
  /\ acts = [p \in Processes |-> CASE p = "root" -> Acts(case.mode) [] p = "leaf" -> Acts("sleep") [] OTHER -> <<>>]
  /\ code = [p \in Processes |-> CASE p = "root" -> Ends(case.mode) [] p = "leaf" -> Ends("sleep") [] OTHER -> 0]
  /\ pipe = [s \in Streams |-> <<>>] /\ kept = pipe /\ closed = [s \in Streams |-> FALSE] /\ over = closed
  /\ phase = "start" /\ at = "stdout" /\ chunk = 0 /\ saw = Unread /\ clock = "none" /\ ready = FALSE
  /\ result = Fresh

Live    == {p \in Processes : state[p] \in {"suspended", "running"}}
Writers == Live \cap {"root", "leaf"}      \* who inherited the write ends of the pipes

-----------------------------------------------------------------------------
\* Plausible faults, used only to show that the properties can fail.
AnyTree(r) == r.outcome = case.expected /\ r.created /\ r.standard /\ r.rootExited /\ r.jobEmpty /\ r.pipesClosed
NoDeadline == FALSE
-----------------------------------------------------------------------------
(* The supervisor, up to the end of the process's life                     *)

\* Disposing the handles, or the end of the supervisor itself, closes the Job.
KillOnClose == Live
Passed(r) ==
  /\ r.outcome = case.expected /\ r.created /\ r.standard /\ r.rootExited /\ r.jobEmpty /\ r.pipesClosed
  /\ r.resumed = ~case.injected /\ (case.mode \in TreeModes => r.tree) /\ (case.mode = "nonzero" => r.exit = 17)
NextRound == at' = "stdout" /\ chunk' = 0 /\ saw' = Unread
Finish(r) == phase' = "done" /\ doomed' = doomed \cup KillOnClose /\ result' = [r EXCEPT !.passed = Passed(r)]

Create ==
  /\ phase = "start"
  /\ \/ /\ case.cancelled /\ phase' = "done" /\ UNCHANGED <<state, doomed>>
        /\ result' = [result EXCEPT !.outcome = "CancelledBeforeCreate", !.passed = case.expected = "CancelledBeforeCreate"]
     \/ ~case.cancelled /\ state' = [state EXCEPT !["root"] = "suspended"] /\ phase' = "inspect"
        /\ result' = [result EXCEPT !.created = TRUE] /\ UNCHANGED doomed
     \* The Job, a pipe, the token or the process could not be created: there is nothing to clean up.
     \/ ~case.cancelled /\ Finish([result EXCEPT !.error = "SETUP"]) /\ UNCHANGED state
  /\ UNCHANGED <<case, acts, code, pipe, buffers, at, chunk, saw, clock, ready>>

Fail(r, error, outcome) == phase' = "terminate" /\ result' = [r EXCEPT !.error = error, !.outcome = outcome]
Inspect ==
  /\ phase = "inspect"
  /\ LET checked == [result EXCEPT !.standard = TRUE] IN
     \/ Fail(result, "CHECK", "Error") /\ UNCHANGED state                  \* membership, token, privilege policy
     \/ case.injected /\ Fail(checked, "INJECTED_PRE_RESUME", "InjectedBeforeResume") /\ UNCHANGED state
     \/ ~case.injected /\ Fail(checked, "RESUME", "Error") /\ UNCHANGED state
     \/ /\ ~case.injected /\ state' = [state EXCEPT !["root"] = "running"] /\ phase' = "poll"
        /\ result' = [checked EXCEPT !.resumed = TRUE]
  /\ UNCHANGED <<case, acts, code, doomed, pipe, buffers, at, chunk, saw, clock, ready>>

-----------------------------------------------------------------------------
(* Polling, before and after the termination of the Job                    *)

Following ==
  IF phase = "cleanup" THEN [stdout |-> "stderr", stderr |-> "exited", exited |-> "active", active |-> "decide"]
  ELSE [stdout |-> "stderr", stderr |-> "active", active |-> "exited", exited |-> "decide"]
Polling(call) == phase \in {"poll", "cleanup"} /\ at = call

Room(s) == Limit
\* One turn of Drain's loop: at most two reads, each of all that is there.
Drain(s) ==
  /\ Polling(s) /\ ~(phase = "cleanup" /\ s = "stdout" /\ chunk = 0 /\ clock = "all")
  /\ IF closed[s] \/ pipe[s] = <<>>
     THEN closed' = [closed EXCEPT ![s] = @ \/ Writers = {}] /\ UNCHANGED <<pipe, kept, over>>
     ELSE /\ pipe' = [pipe EXCEPT ![s] = <<>>] /\ UNCHANGED closed
          /\ LET all == kept[s] \o pipe[s] IN
             /\ kept' = [kept EXCEPT ![s] = IF Len(all) <= Room(s) THEN all ELSE SubSeq(all, 1, Room(s))]
             /\ over' = [over EXCEPT ![s] = @ \/ Len(all) > Room(s)]
  /\ IF chunk = 0 /\ ~closed[s] /\ pipe[s] # <<>> THEN chunk' = 1 /\ UNCHANGED at ELSE chunk' = 0 /\ at' = Following[s]
  /\ UNCHANGED <<case, children, doomed, phase, saw, clock, ready, result>>

Active ==
  /\ Polling("active") /\ saw' = [saw EXCEPT !.active = Cardinality(Live)] /\ at' = Following["active"]
  /\ UNCHANGED <<case, children, doomed, pipe, buffers, phase, chunk, clock, ready, result>>
Exited ==
  /\ Polling("exited") /\ saw' = [saw EXCEPT !.exited = state["root"] = "exited"] /\ at' = Following["exited"]
  /\ UNCHANGED <<case, children, doomed, pipe, buffers, phase, chunk, clock, ready, result>>

Said(text) == Contains(kept["stdout"], text)
TreeSeen(active, exited) == Said("READY") /\ Said("LEAF") /\ (active >= 2 \/ (exited /\ active >= 1))

Deadline == clock = "all" \/ (case.mode = "timeout-tree" /\ clock = "grace")
AtEnd(exited) == exited /\ closed["stdout"] /\ closed["stderr"]
NaturalEnd ==
  IF case.mode = "normal" /\ (kept["stdout"] # <<"OUT">> \/ kept["stderr"] # <<"ERR">>) THEN "OutputMismatch"
  ELSE IF code["root"] = 0 THEN "Completed" ELSE "NonZeroExit"
\* The reasons to stop, in the order in which they are asked for; the exit code is read after the fourth.
Reasons(active, exited, tree) ==
  << [holds |-> over["stdout"], outcome |-> "StdoutLimit"],
     [holds |-> over["stderr"], outcome |-> "StderrLimit"],
     [holds |-> case.mode = "cancel-tree" /\ Said("READY") /\ tree, outcome |-> "Cancelled"],
     [holds |-> Deadline, outcome |-> "Timeout"],
     [holds |-> exited /\ active > 0 /\ (case.mode # "leave-tree" \/ tree), outcome |-> "DescendantsAfterParentExit"],
     [holds |-> AtEnd(exited), outcome |-> NaturalEnd] >>
Decide ==
  /\ phase = "poll" /\ at = "decide" /\ NextRound /\ ready' = (ready \/ Said("READY"))
  /\ LET tree == result.tree \/ TreeSeen(saw.active, saw.exited)
         reasons == Reasons(saw.active, saw.exited, tree)
         holding == {n \in DOMAIN reasons : reasons[n].holds}
         first == IF holding = {} THEN 0 ELSE Min(holding) IN
     /\ result' = [result EXCEPT !.tree = tree, !.outcome = IF first = 0 THEN @ ELSE reasons[first].outcome,
                                 !.exit = IF first \notin 1..4 /\ saw.exited THEN code["root"] ELSE @]
     /\ phase' = (IF first = 0 THEN "poll" ELSE "terminate")
  /\ UNCHANGED <<case, children, doomed, pipe, buffers, clock>>

\* TerminateJobObject, then TerminateProcess of a root that has not exited; neither result is looked at.
Terminate ==
  /\ phase = "terminate" /\ phase' = "cleanup" /\ clock' = "none"
  /\ \E ended \in {{}, {"root"}, Processes} : doomed' = doomed \cup (Live \cap ended)
  /\ UNCHANGED <<case, children, pipe, buffers, at, chunk, saw, ready, result>>

CleanupDecide ==
  /\ phase = "cleanup" /\ at = "decide" /\ NextRound
  /\ LET r == [result EXCEPT !.rootExited = saw.exited, !.jobEmpty = saw.active = 0,
                             !.pipesClosed = closed["stdout"] /\ closed["stderr"]] IN
     IF r.rootExited /\ r.jobEmpty /\ r.pipesClosed THEN Finish(r) ELSE result' = r /\ UNCHANGED <<phase, doomed>>
  /\ UNCHANGED <<case, children, pipe, buffers, clock, ready>>
\* The deadline is asked for before each round.
CleanupExpires ==
  /\ phase = "cleanup" /\ at = "stdout" /\ chunk = 0 /\ clock = "all"
  /\ Finish([result EXCEPT !.outcome = "CleanupFailed", !.error = "CLEANUP_DEADLINE"])
  /\ UNCHANGED <<case, children, pipe, buffers, at, chunk, saw, clock, ready>>

\* Any call of a round may fail: before the termination that ends the case, after it the cleanup.
CallFails ==
  /\ \/ phase = "poll" /\ Fail(result, "QUERY", "Error") /\ UNCHANGED doomed
     \/ /\ phase \in {"terminate", "cleanup"}
        /\ Finish([result EXCEPT !.outcome = "CleanupFailed", !.error = "CLEANUP_QUERY"])
  /\ NextRound /\ UNCHANGED <<case, children, pipe, buffers, clock, ready>>

-----------------------------------------------------------------------------
(* Time, the children, and the system                                      *)

TimePasses ==
  /\ \/ clock = "none" /\ phase = "poll" /\ ready /\ clock' = "grace"
     \/ clock # "all" /\ phase \in {"poll", "cleanup"} /\ clock' = "all"
  /\ UNCHANGED <<case, children, doomed, pipe, buffers, supervisor>>

\* A child sleeps for longer than the supervisor's own deadlines.
Slept == clock = "all" \/ phase \notin {"inspect", "poll"}
Runs(p) == state[p] = "running" /\ p \notin doomed
ChildActs(p) ==
  /\ Runs(p) /\ acts[p] # <<>> /\ acts' = [acts EXCEPT ![p] = Tail(@)]
  /\ LET act == Head(acts[p]) IN
     \/ /\ act.do \in Streams /\ Len(pipe[act.do]) < PipeSize
        /\ pipe' = [pipe EXCEPT ![act.do] = Append(@, act.text)] /\ UNCHANGED state
     \/ act = Fork /\ state' = [state EXCEPT !["leaf"] = "running"] /\ UNCHANGED pipe
     \/ act = Sleep /\ Slept /\ UNCHANGED <<state, pipe>>
  /\ UNCHANGED <<case, code, doomed, buffers, supervisor, clock>>
\* A child that refuses its own Job or token, or cannot start its leaf, says so at its start.
ChildFails(p) ==
  /\ Runs(p) /\ p # "console" /\ acts[p] = Acts(IF p = "root" THEN case.mode ELSE "sleep") /\ code[p] \notin {2, 91}
  /\ \/ acts' = [acts EXCEPT ![p] = <<Line("stdout", "FAIL")>>] /\ code' = [code EXCEPT ![p] = 2]
     \/ acts' = [acts EXCEPT ![p] = <<>>] /\ code' = [code EXCEPT ![p] = 91]
  /\ UNCHANGED <<case, state, doomed, pipe, buffers, supervisor, clock>>
ChildExits(p) ==
  /\ Runs(p) /\ acts[p] = <<>> /\ (p = "console" => state["root"] = "exited")
  /\ state' = [state EXCEPT ![p] = "exited"]
  /\ UNCHANGED <<case, acts, code, doomed, pipe, buffers, supervisor, clock>>
Dies(p) ==
  /\ p \in doomed \cap Live /\ state' = [state EXCEPT ![p] = "exited"] /\ code' = [code EXCEPT ![p] = Killed]
  /\ UNCHANGED <<case, acts, doomed, pipe, buffers, supervisor, clock>>
ConsoleStarts ==
  /\ ConsoleHelper /\ Runs("root") /\ state["console"] = "none" /\ state' = [state EXCEPT !["console"] = "running"]
  /\ UNCHANGED <<case, acts, code, doomed, pipe, buffers, supervisor, clock>>

\* The runner's outer deadline, or anything else, ends the supervisor with all it knew: no finally block runs.
SupervisorKilled ==
  /\ phase \notin {"done", "killed"} /\ phase' = "killed" /\ doomed' = doomed \cup KillOnClose
  /\ pipe' = [s \in Streams |-> <<>>] /\ kept' = pipe' /\ closed' = [s \in Streams |-> TRUE] /\ over' = [s \in Streams |-> FALSE]
  /\ NextRound /\ clock' = "none" /\ ready' = FALSE /\ result' = Fresh /\ UNCHANGED <<case, children>>

Supervise ==
  \/ Create \/ Inspect \/ \E s \in Streams : Drain(s)
  \/ Active \/ Exited \/ Decide \/ Terminate \/ CleanupDecide \/ CleanupExpires
Children == \E p \in Processes : ChildActs(p) \/ ChildFails(p) \/ ChildExits(p)
Next == Supervise \/ CallFails \/ TimePasses \/ Children \/ (\E p \in Processes : Dies(p)) \/ ConsoleStarts \/ SupervisorKilled

\* The supervisor's thread runs, time passes, and the system ends what it accepted to
\* terminate.  Nothing is assumed of the children.
Spec ==
  /\ Init /\ [][Next]_vars
  /\ WF_vars(Supervise) /\ WF_vars(TimePasses) /\ \A p \in Processes : WF_vars(Dies(p))

-----------------------------------------------------------------------------
(* Properties                                                              *)

LeafRan == state["leaf"] = "exited" /\ code["leaf"] \in {94, Killed}
\* A case that passed was what its row says: nothing of it is left, and what is said of
\* the child happened to it, whatever the supervisor read in which order.
PassedIsEarned ==
  result.passed /\ result.created =>
    /\ Live = {}
    /\ CASE result.outcome = "Completed"   -> code["root"] = 0 /\ kept = [stdout |-> <<"OUT">>, stderr |-> <<"ERR">>]
         [] result.outcome = "NonZeroExit" -> code["root"] = 17
         [] result.outcome \in {"Timeout", "Cancelled"} -> LeafRan
         [] result.outcome = "StdoutLimit" -> Len(kept["stdout"]) = Limit
         [] result.outcome = "StderrLimit" -> Len(kept["stderr"]) = Limit
         [] result.outcome = "DescendantsAfterParentExit" -> code["root"] = 0 /\ LeafRan
         [] result.outcome = "InjectedBeforeResume" -> acts["root"] = Acts(case.mode)

\* An end that is reported as the child's own left nothing in a pipe and nobody to write.
NaturalEndIsWhole ==
  result.outcome \in {"Completed", "NonZeroExit", "OutputMismatch"} =>
    Writers = {} /\ (\A s \in Streams : pipe[s] = <<>> /\ ~over[s]) /\ result.exit = code["root"]

\* validateSuccessfulResult of result-contract.mjs, which reads the row without having seen the run.
Accepts(r) ==
  IF case.cancelled
  THEN ~(r.created \/ r.resumed \/ r.standard \/ r.rootExited \/ r.jobEmpty \/ r.pipesClosed \/ r.tree) /\ r.exit = NoCode /\ r.error = "None"
  ELSE /\ r.created /\ r.standard /\ r.rootExited /\ r.jobEmpty /\ r.pipesClosed /\ r.resumed = ~case.injected
       /\ r.error = (IF case.injected THEN "INJECTED_PRE_RESUME" ELSE "None")
       /\ r.tree = (case.mode \in TreeModes)
       /\ r.exit = CASE case.expected = "NonZeroExit" -> 17
                     [] case.expected \in {"Completed", "DescendantsAfterParentExit"} -> 0
                     [] OTHER -> NoCode
\* Harness and record agree: every case that passed is a row the independent contract accepts.
ContractAgrees == result.passed => result.outcome = case.expected /\ Accepts(result)

\* Every case ends, whatever the children and the calls do.
CaseEnds == <>(phase \in {"done", "killed"})

\* Nothing outlives the supervisor, however it ended.
NothingSurvives == phase \in {"done", "killed"} ~> Live = {}

\* tests/backend/native-synthetic/README.md:29 says of SN-007: "Exit 17 is preserved as
\* NonZeroExit, never Completed".  The Job is counted before the process is asked.
ExitPreserved == case.mode = "nonzero" /\ result.exit = 17 => result.outcome # "DescendantsAfterParentExit"
=============================================================================
