---------------------------- MODULE DirectOutputGate ----------------------------
(***************************************************************************)
(* The output gate of a direct check (createDirectDefenderOutputGate in    *)
(* src/src/backend/direct-defender-operation.mjs) and those who call it:   *)
(* two pipes, the exit of the backend and an owner that may give up, whose *)
(* events arrive in any order, late and repeated.                          *)
(*                                                                         *)
(* A byte of stdout is "ok", part of an output the preview accepts, or     *)
(* "bad".  Reading the output is ProtectionAssessment's Preview.           *)
(***************************************************************************)
EXTENDS Naturals, SequencesExt

CONSTANTS
  MaxSourceBytes,    \* DEFENDER_OUTPUT_LIMITS.maxSourceBytes
  MaxChunk,          \* bytes of one chunk
  MaxCalls           \* bound on the calls of a history

AbortCode ==
  [Cancelled |-> "DIRECT_CANCELLED", TimedOut |-> "DIRECT_TIMED_OUT", LaunchFailed |-> "DIRECT_LAUNCH_FAILED",
   CleanupFailed |-> "DIRECT_CLEANUP_FAILED", TransportFailed |-> "DIRECT_TRANSPORT_FAILED"]
AbortReasons == DOMAIN AbortCode \cup {"unknown"}
Exits == {"zero", "nonzero", "invalid"}
Chunks == SeqOf({"ok", "bad"}, MaxChunk)

VARIABLES
  storage,       \* the bytes kept: storage up to length
  capacity,      \* storage.length
  ended,         \* the streams that ended
  completed, firstFailure,
  last,          \* what the last call threw, "none" when it returned
  preview,       \* the bytes the preview was made of, if one was returned
  delivered,     \* history: every byte the pipes delivered, with the order of streams kept
  spoilt,        \* history: bytes on stderr, an abort or another exit than zero
  calls
gate    == <<storage, capacity, ended, completed, firstFailure, last, preview>>
history == <<delivered, spoilt, calls>>
vars    == <<gate, history>>

TypeOK ==
  /\ Len(storage) <= MaxSourceBytes /\ capacity \in {0, MaxSourceBytes}
  /\ ended \subseteq {"stdout", "stderr"} /\ {completed, spoilt} \subseteq BOOLEAN
  /\ last \in {"none", firstFailure}

Init ==
  /\ storage = <<>> /\ capacity = MaxSourceBytes /\ ended = {} /\ completed = FALSE /\ firstFailure = "none" /\ last = "none"
  /\ preview = "none" /\ delivered = <<>> /\ spoilt = FALSE /\ calls = 0

-----------------------------------------------------------------------------
\* A plausible fault, used only to show that a property can fail.
OneEnded            == ended # {}
-----------------------------------------------------------------------------
(* reject and active                                                       *)

Cleared(bytes) == <<>>
Clear == storage' = Cleared(storage) /\ capacity' = 0
First(code) == IF firstFailure = "none" THEN code ELSE firstFailure
Reject(code) ==
  /\ firstFailure' = First(code) /\ last' = First(code) /\ Clear
  /\ UNCHANGED <<ended, completed, preview>>

\* What every call asks first: a failure is repeated, a completed gate is not used again.
Failing == firstFailure # "none"
Call(Body) ==
  IF Failing THEN Reject(firstFailure)
  ELSE IF completed THEN Reject("DIRECT_ALREADY_COMPLETED") ELSE Body

Fits(chunk) == Len(chunk) <= capacity - Len(storage)
Stdout(chunk) ==
  Call(CASE "stdout" \in ended -> Reject("DIRECT_STDOUT_AFTER_END")
         [] "stdout" \notin ended /\ ~Fits(chunk) -> Reject("DIRECT_STDOUT_LIMIT")
         [] OTHER -> storage' = storage \o chunk /\ last' = "none" /\ UNCHANGED <<capacity, ended, completed, firstFailure, preview>>)

Stderr(chunk) ==
  Call(CASE "stderr" \in ended -> Reject("DIRECT_STDERR_AFTER_END")
         [] "stderr" \notin ended /\ chunk # <<>> -> Reject("DIRECT_STDERR_PRESENT")
         [] OTHER -> last' = "none" /\ UNCHANGED <<storage, capacity, ended, completed, firstFailure, preview>>)

DuplicateEnd == [stdout |-> "DIRECT_STDOUT_DUPLICATE_END", stderr |-> "DIRECT_STDERR_DUPLICATE_END"]
EndStream(s) ==
  Call(IF s \in ended THEN Reject(DuplicateEnd[s])
       ELSE ended' = ended \cup {s} /\ last' = "none" /\ UNCHANGED <<storage, capacity, completed, firstFailure, preview>>)

InvalidChunk == Call(Reject("DIRECT_CHUNK_INVALID"))

Abort(reason) == Call(Reject(IF reason \in DOMAIN AbortCode THEN AbortCode[reason] ELSE "DIRECT_ABORT_REASON_INVALID"))

\* The preview takes the bytes when it accepts them; either way nothing is kept.
BothEnded == ended = {"stdout", "stderr"}
Readable(bytes) == \A n \in DOMAIN bytes : bytes[n] = "ok"
Complete(exit) ==
  Call(CASE exit = "invalid" -> Reject("DIRECT_EXIT_INVALID")
         [] exit = "nonzero" -> Reject("DIRECT_EXIT_NONZERO")
         [] exit = "zero" /\ ~BothEnded -> Reject("DIRECT_STREAMS_INCOMPLETE")
         [] OTHER ->
              /\ completed' = TRUE /\ Clear /\ UNCHANGED ended
              /\ IF Readable(storage) THEN preview' = storage /\ last' = "none" /\ UNCHANGED firstFailure
                 ELSE firstFailure' = "DIRECT_OUTPUT_INVALID" /\ last' = firstFailure' /\ UNCHANGED preview)

-----------------------------------------------------------------------------
(* The owner, the pipes and the backend, in any order and as often as they like *)

Counted == calls < MaxCalls /\ calls' = calls + 1
Next ==
  \/ \E c \in Chunks : Stdout(c) /\ delivered' = delivered \o c /\ UNCHANGED spoilt /\ Counted
  \/ \E c \in Chunks : Stderr(c) /\ spoilt' = (spoilt \/ c # <<>>) /\ UNCHANGED delivered /\ Counted
  \/ InvalidChunk /\ UNCHANGED <<delivered, spoilt>> /\ Counted
  \/ \E s \in {"stdout", "stderr"} : EndStream(s) /\ UNCHANGED <<delivered, spoilt>> /\ Counted
  \/ \E r \in AbortReasons : Abort(r) /\ spoilt' = TRUE /\ UNCHANGED delivered /\ Counted
  \/ \E e \in Exits : Complete(e) /\ spoilt' = (spoilt \/ e # "zero") /\ UNCHANGED delivered /\ Counted
Spec == Init /\ [][Next]_vars

-----------------------------------------------------------------------------
(* Properties                                                              *)

\* A preview is made of everything the backend had written when it was returned, both
\* streams at their end, with nothing on stderr, no abort and no other exit before it.
PreviewIsWhole ==
  [][preview = "none" /\ preview' # "none" => preview' = delivered /\ ~spoilt /\ ended = {"stdout", "stderr"}]_vars

\* Whoever asks later, and whatever happens meanwhile, hears of the failure that came
\* first; a gate that failed never returns a preview.
FirstFailureSticks ==
  [][firstFailure # "none" /\ calls' # calls => firstFailure' = firstFailure /\ last' = firstFailure /\ preview' = preview]_vars

\* Nothing of the output stays behind in a gate that failed or completed.
NothingKept == firstFailure # "none" \/ completed => storage = <<>>
=============================================================================
