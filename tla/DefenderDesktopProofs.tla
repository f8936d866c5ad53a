----------------------- MODULE DefenderDesktopProofs -----------------------
(***************************************************************************)
(* The safety of DefenderDesktop for every set of texts, any number of     *)
(* clicks and pipes of any length.  No step is taken twice by the workflow *)
(* (FlowInv); its prompt and the session's states belong together          *)
(* (SessionInv); the rows on their way to the window speak of the past     *)
(* truly (RowInv); and an open prompt will see the first answer the window *)
(* ever sent before any other (AnswerInv).                                 *)
(***************************************************************************)
EXTENDS DefenderDesktop, SequenceTheorems, TLAPS

AnswersOf  == Answers \cup {NoAnswer}
Rows       == [state : States, code : Codes]
Working    == {"preparing", "prompting", "discarding", "running"}

\* What each await of the workflow says of the calls made so far.
FlowInv ==
  /\ pc \in Working \cup {"idle", "settled"}
  /\ calls \in [Operations -> {0, 1}]
  /\ build \in BOOLEAN /\ runStarted \in BOOLEAN /\ discardAttempted \in BOOLEAN
  /\ pc = "idle" => calls["prepare"] = 0 /\ ~build
  /\ pc = "preparing" => ~build
  /\ pc \in {"idle", "preparing", "prompting"} => ~runStarted /\ ~discardAttempted
  /\ pc = "discarding" => discardAttempted
  /\ pc = "running" => runStarted
  /\ calls["run"] = 1 <=> runStarted
  /\ calls["discard"] = 1 <=> discardAttempted
  /\ ~(runStarted /\ discardAttempted)
  /\ pc # "settled" => exit = Unsettled
  /\ pc = "settled" => /\ exit \in {0, 1, 2, 3}
                       /\ exit \in {0, 2} => runStarted
                       /\ exit = 3 => discardAttempted

\* A prompt is open or answered exactly while the workflow waits for it; it is never open
\* on a lost channel, and what a lost channel answered is no consent.
SessionInv ==
  /\ pc = "settled" => state = FinalState(exit) /\ code = exit
  /\ pc # "settled"   => code = NoCode
  /\ pc = "idle"       => state \in {"Connecting", "Ready"}
  /\ pc = "preparing"  => state = "Preparing"
  /\ pc = "prompting"  => state \in {"AwaitingConfirmation", "Submitting"}
  /\ pc = "discarding" => state = "Discarding"
  /\ pc = "running"    => state = "Running"
  /\ prompting => pc = "prompting" /\ state = "AwaitingConfirmation" /\ connected /\ ~Resolved
  /\ Resolved => pc = "prompting" /\ state = "Submitting"
  /\ pc = "prompting" => prompting \/ Resolved
  /\ ~EmitMayFail /\ Resolved /\ ~connected => answer = NoAnswer

\* The end of the owner: the window is gone, nothing of the workflow moves any more, and
\* the exit code was taken from the settled session.
OwnerInv ==
  /\ ended => ~windowOpen /\ ~connected
  /\ ownerExit # NoCode => /\ ended /\ OwnerMayExit(pc)
                           /\ ownerExit = ExitOf(broken \/ wstate = "Crashed", code)

\* What a row says, on its way or shown, is so: an outcome is the workflow's, and a
\* question means that the prompt has been opened.
RowTrue(s, c) ==
  /\ s = "Finished" => pc = "settled" /\ c = exit /\ exit # 1
  /\ s = "Failed"   => pc = "settled" /\ exit = 1
  /\ s = "AwaitingConfirmation" => pc \notin {"idle", "preparing"}
\* Every row on its way to the window, and the one shown, says what is so.
RowInv ==
  /\ \A i \in 1..Len(toWindow) : RowTrue(toWindow[i].state, toWindow[i].code)
  /\ RowTrue(wstate, wcode)
  /\ windowOpen /\ "cancel" \in controls => wstate = "AwaitingConfirmation"

\* The place of the first answer among the commands the owner has not read.
FirstAnswerAt(k) ==
  /\ toOwner[k][1] = "answer" /\ toOwner[k][2] = answered[1]
  /\ \A j \in 1..k-1 : toOwner[j][1] # "answer"
\* The first answer sent is on its way, or is the one the prompt was settled with.
AnswerInv ==
  /\ answered # <<>> => pc \notin {"idle", "preparing"}
  /\ answered = <<>> => \A j \in 1..Len(toOwner) : toOwner[j][1] # "answer"
  /\ prompting /\ answered # <<>> => \E k \in 1..Len(toOwner) : FirstAnswerAt(k)
  /\ Resolved /\ answer # NoAnswer => answered # <<>> /\ answered[1] = answer
  /\ runStarted => answered # <<>> /\ answered[1] = Phrase

\* The inductive invariant of the window, the owner and the session.
Inv == TypeOK /\ FlowInv /\ SessionInv /\ OwnerInv /\ RowInv /\ AnswerInv

-----------------------------------------------------------------------------
(* The pipes                                                               *)

\* Only the row r is added to what the window has not read; a channel is never restored.
Adds(r) ==
  /\ toWindow' \in Seq(Rows)
  /\ \A i \in 1..Len(toWindow') : (i \in 1..Len(toWindow) /\ toWindow'[i] = toWindow[i]) \/ toWindow'[i] = r
  /\ connected' \in BOOLEAN /\ broken' \in BOOLEAN
  /\ connected' => connected
  /\ ~connected => broken' = broken
  /\ ~EmitMayFail => connected' = connected

\* Rows are only added at the end; a channel is never restored, and is only lost with a
\* trace, and only if a message may fail.
LEMMA PublishAdds ==
  ASSUME toWindow \in Seq(Rows), connected \in BOOLEAN, broken \in BOOLEAN, NEW rows \in Seq(Rows), Publish(rows)
  PROVE  /\ toWindow' \in Seq(Rows)
         /\ \A i \in 1..Len(toWindow') :
              \/ i \in 1..Len(toWindow) /\ toWindow'[i] = toWindow[i]
              \/ \E j \in 1..Len(rows) : toWindow'[i] = rows[j]
         /\ connected' \in BOOLEAN /\ broken' \in BOOLEAN
         /\ connected' => connected
         /\ ~connected => broken' = broken
         /\ ~EmitMayFail => connected' = connected
<1>1. PICK n \in 0..Len(rows) :
        /\ n = Len(rows) \/ ~connected \/ EmitMayFail
        /\ toWindow' = IF connected THEN toWindow \o SubSeq(rows, 1, n) ELSE toWindow
        /\ connected' = (connected /\ n = Len(rows))
        /\ broken' = (broken \/ (connected /\ n < Len(rows)))
  BY DEF Publish
<1> DEFINE sent == SubSeq(rows, 1, n)
<1>2. /\ Len(rows) \in Nat /\ n \in Int /\ \A j \in 1..n : rows[j] \in Rows
      /\ n <= Len(rows)
  BY <1>1, LenProperties, ElementOfSeq
<1>3. sent \in Seq(Rows) /\ Len(sent) = n /\ \A j \in 1..n : sent[j] = rows[j]
  BY <1>1, <1>2, SubSeqProperties
<1> HIDE DEF sent
<1>4. /\ toWindow \o sent \in Seq(Rows)
      /\ \A i \in 1..Len(toWindow \o sent) :
           (toWindow \o sent)[i] = IF i <= Len(toWindow) THEN toWindow[i] ELSE sent[i - Len(toWindow)]
      /\ Len(toWindow \o sent) = Len(toWindow) + n /\ Len(toWindow) \in Nat
  <2>1. /\ toWindow \o sent \in Seq(Rows)
        /\ Len(toWindow \o sent) = Len(toWindow) + Len(sent)
        /\ \A i \in 1..Len(toWindow) + Len(sent) :
             (toWindow \o sent)[i] = IF i <= Len(toWindow) THEN toWindow[i] ELSE sent[i - Len(toWindow)]
    BY <1>3, ConcatProperties
  <2>2. Len(toWindow) \in Nat
    BY LenProperties
  <2> QED BY <1>3, <2>1, <2>2
<1>5. /\ toWindow' \in Seq(Rows)
      /\ \A i \in 1..Len(toWindow') :
           \/ i \in 1..Len(toWindow) /\ toWindow'[i] = toWindow[i]
           \/ \E j \in 1..Len(rows) : toWindow'[i] = rows[j]
  <2>1. CASE connected
    <3>1. toWindow' = toWindow \o sent
      BY <1>1, <2>1 DEF sent
    <3>2. ASSUME NEW i \in 1..Len(toWindow'), i > Len(toWindow)
          PROVE  \E j \in 1..Len(rows) : toWindow'[i] = rows[j]
      <4>1. i - Len(toWindow) \in 1..Len(rows) /\ i - Len(toWindow) \in 1..n
        BY <1>2, <1>4, <3>1, <3>2
      <4>2. toWindow'[i] = rows[i - Len(toWindow)]
        <5>1. toWindow'[i] = sent[i - Len(toWindow)]
          BY <1>4, <3>1, <3>2
        <5> QED BY <1>3, <4>1, <5>1
      <4> QED BY <4>1, <4>2
    <3>3. ASSUME NEW i \in 1..Len(toWindow'), ~(i > Len(toWindow))
          PROVE  i \in 1..Len(toWindow) /\ toWindow'[i] = toWindow[i]
      BY <1>4, <3>1, <3>3
    <3>4. toWindow' \in Seq(Rows)
      BY <1>4, <3>1
    <3> QED BY <3>2, <3>3, <3>4
  <2>2. CASE ~connected
    BY <1>1, <2>2
  <2> QED BY <2>1, <2>2
<1> QED BY <1>1, <1>2, <1>5

\* A pipe cut off keeps what came first.
LEMMA CutKeeps ==
  ASSUME NEW S, NEW s \in Seq(S), NEW n \in 0..Len(s)
  PROVE  /\ SubSeq(s, 1, n) \in Seq(S) /\ Len(SubSeq(s, 1, n)) = n
         /\ \A i \in 1..n : i \in 1..Len(s) /\ SubSeq(s, 1, n)[i] = s[i]
<1>1. Len(s) \in Nat /\ n \in Int /\ \A j \in 1..n : s[j] \in S
  BY LenProperties, ElementOfSeq
<1> QED BY <1>1, SubSeqProperties

\* Reading takes the first element.
LEMMA TailKeeps ==
  ASSUME NEW S, NEW s \in Seq(S), s # <<>>
  PROVE  /\ Tail(s) \in Seq(S) /\ Len(Tail(s)) = Len(s) - 1 /\ Len(s) \in Nat \ {0}
         /\ \A i \in 1..Len(Tail(s)) : i + 1 \in 1..Len(s) /\ Tail(s)[i] = s[i + 1]
         /\ Head(s) = s[1] /\ s[1] \in S
BY HeadTailProperties, EmptySeq, LenProperties, ElementOfSeq

\* Publishing one row adds that row at most.
LEMMA PublishOne ==
  ASSUME TypeOK, NEW r \in Rows, Publish(<<r>>)
  PROVE  Adds(r)
<1>1. <<r>> \in Seq(Rows) /\ Len(<<r>>) = 1 /\ <<r>>[1] = r
  OBVIOUS
<1>2. \A j \in 1..Len(<<r>>) : <<r>>[j] = r
  BY <1>1
<1>3. toWindow \in Seq(Rows) /\ connected \in BOOLEAN /\ broken \in BOOLEAN
  BY DEF TypeOK, Rows
<1> DEFINE rows == <<r>>
<1> HIDE DEF rows
<1>4. rows \in Seq(Rows) /\ Publish(rows) /\ \A j \in 1..Len(rows) : rows[j] = r
  BY <1>1, <1>2 DEF rows
<1> QED BY <1>3, <1>4, PublishAdds DEF Adds

\* A duplicated delivery adds the same row twice at most.
LEMMA PublishTwo ==
  ASSUME TypeOK, NEW r \in Rows, Publish([i \in 1..2 |-> r])
  PROVE  Adds(r)
<1> DEFINE rows == [i \in 1..2 |-> r]
<1>1. rows \in Seq(Rows) /\ Len(rows) = 2
  OBVIOUS
<1>2. \A j \in 1..Len(rows) : rows[j] = r
  BY <1>1
<1>3. toWindow \in Seq(Rows) /\ connected \in BOOLEAN /\ broken \in BOOLEAN
  BY DEF TypeOK, Rows
<1>4. Publish(rows)
  OBVIOUS
<1> HIDE DEF rows
<1> QED BY <1>1, <1>2, <1>3, <1>4, PublishAdds DEF Adds

-----------------------------------------------------------------------------
(* The workflow                                                            *)

\* Every step of Next is one of the workflow, told that no message was lost, or none.
FlowStep ==
  \/ Begin(TRUE)
  \/ \E ok \in BOOLEAN : Prepared(ok, TRUE) \/ Discarded(ok, TRUE)
  \/ Decline(answer)
  \/ Accept(answer, TRUE)
  \/ \E o \in RunOutcomes : RunEnded(o, TRUE)

\* The workflow is only moved by its own steps.
LEMMA FlowMoves == [Next]_vars => FlowStep \/ UNCHANGED flowVars
<1> SUFFICES ASSUME [Next]_vars PROVE FlowStep \/ UNCHANGED flowVars
  OBVIOUS
<1>1. CASE OwnerStep
  BY <1>1 DEF OwnerStep, OwnerCommand, Resume, WindowClosed, OwnerExits, FlowStep
<1>2. CASE Executor
  BY <1>2 DEF Executor, PrepareEnds, DiscardEnds, RunEnds, FlowStep
<1>3. CASE PromptExpires \/ ChannelFails
  BY <1>3 DEF PromptExpires, ChannelFails
<1>4. CASE WindowStep \/ User \/ WindowCrashes
  BY <1>4 DEF WindowStep, WindowReads, WindowLosesOwner, User, ClickPrimary, ClickCancel, CloseWindow, WindowCrashes
<1>5. CASE UNCHANGED vars
  BY <1>5 DEF vars
<1> QED BY <1>1, <1>2, <1>3, <1>4, <1>5 DEF Next

\* Each step of the workflow starts the next operation at most once.
LEMMA FlowKeeps == FlowInv /\ [Next]_vars => FlowInv'
<1> SUFFICES ASSUME FlowInv, FlowStep \/ UNCHANGED flowVars PROVE FlowInv'
  BY FlowMoves
<1> USE DEF FlowInv, Working, Operations, Call, Settle, Catch, MayRescue, Unsettled
<1>1. CASE Begin(TRUE)
  BY <1>1 DEF Begin
<1>2. ASSUME NEW ok \in BOOLEAN, Prepared(ok, TRUE) PROVE FlowInv'
  BY <1>2 DEF Prepared
<1>3. ASSUME NEW ok \in BOOLEAN, Discarded(ok, TRUE) PROVE FlowInv'
  BY <1>3 DEF Discarded
<1>4. CASE Decline(answer)
  BY <1>4 DEF Decline
<1>5. CASE Accept(answer, TRUE)
  BY <1>5 DEF Accept
<1>6. ASSUME NEW o \in RunOutcomes, RunEnded(o, TRUE) PROVE FlowInv'
  BY <1>6 DEF RunEnded, RunExit
<1>7. CASE UNCHANGED flowVars
  BY <1>7 DEF flowVars
<1> HIDE DEF FlowInv, Working, Operations, Call, Settle, Catch, MayRescue, Unsettled
<1> QED BY <1>1, <1>2, <1>3, <1>4, <1>5, <1>6, <1>7 DEF FlowStep

-----------------------------------------------------------------------------
(* The session and the owner                                               *)

\* The types of what the owner and the session keep.
SessionType ==
  /\ connected \in BOOLEAN /\ prompting \in BOOLEAN /\ broken \in BOOLEAN /\ ended \in BOOLEAN
  /\ code \in Codes /\ ownerExit \in Codes
  /\ state \in States /\ answer \in AnswersOf \cup {Unresolved}

\* What an owner's step leaves of the pipe from the window.
Consumes == toOwner # <<>> /\ toOwner' = Tail(toOwner)

\* The row each step of the session publishes.
LEMMA SettledRow ==
  ASSUME TypeOK, FlowInv', pc' = "settled", ShowSettled
  PROVE  /\ code' = exit' /\ state' = FinalState(exit') /\ code' \in Codes /\ state' \in {"Failed", "Finished"}
         /\ Adds([state |-> FinalState(exit'), code |-> exit'])
<1>1. exit' \in Codes
  BY DEF FlowInv, Codes
<1>2. FinalState(exit') \in {"Failed", "Finished"}
  BY DEF FinalState
<1>3. [state |-> FinalState(exit'), code |-> exit'] \in Rows
  BY <1>1, <1>2 DEF Rows, States
<1>4. Publish(<<[state |-> FinalState(exit'), code |-> exit']>>)
  BY DEF ShowSettled, Row
<1> QED BY <1>1, <1>2, <1>3, <1>4, PublishOne DEF ShowSettled

\* A row without an outcome carries no code.
LEMMA PlainRow ==
  ASSUME TypeOK, NEW st \in States, Publish(<<Row(st, NoCode)>>)
  PROVE  Adds([state |-> st, code |-> NoCode])
<1>1. [state |-> st, code |-> NoCode] \in Rows
  BY DEF Rows, Codes
<1> QED BY <1>1, PublishOne DEF Row

\* The question may reach the window twice, and nothing else.
LEMMA PromptRows ==
  ASSUME TypeOK, Publish([i \in 1..2 |-> Row("AwaitingConfirmation", NoCode)])
  PROVE  Adds([state |-> "AwaitingConfirmation", code |-> NoCode])
<1>1. [state |-> "AwaitingConfirmation", code |-> NoCode] \in Rows
  BY DEF Rows, Codes, States
<1> QED BY <1>1, PublishTwo DEF Row

\* The steps of the session, each with the row it publishes; and no other step touches it.
\* The session publishes the state st.
Publishes(st) == Adds([state |-> st, code |-> NoCode])
\* The steps of the session, each with the row it publishes: the machine is ready, the
\* check begins, the first answer settles the prompt, the prompt opens, the workflow goes
\* on with the answer, the workflow settles, and the channel is lost.
SaysReady ==
  /\ state = "Connecting" /\ state' = "Ready" /\ Publishes("Ready") /\ UNCHANGED <<flowVars, prompting, answer, code>>
SaysPreparing ==
  /\ state = "Ready" /\ state' = "Preparing" /\ pc = "idle" /\ pc' = "preparing"
  /\ Publishes("Preparing") /\ UNCHANGED <<prompting, answer, code>>
TakesFirst(a) ==
  /\ state = "AwaitingConfirmation" /\ prompting /\ a \in AnswersOf
  /\ prompting' = FALSE /\ answer' = a /\ state' = "Submitting"
  /\ a # NoAnswer /\ ~EmitMayFail => connected'
  /\ Publishes("Submitting") /\ UNCHANGED <<flowVars, code>>
Prompts ==
  /\ pc = "preparing" /\ pc' = "prompting" /\ ~Resolved /\ code' = code
  /\ Publishes("AwaitingConfirmation")
  /\ \/ connected' /\ state' = "AwaitingConfirmation" /\ prompting' = TRUE /\ answer' = answer
     \/ ~connected' /\ prompting' = FALSE /\ answer' = NoAnswer /\ state' = "Submitting"
Resumes ==
  /\ Resolved /\ answer' = Unresolved /\ UNCHANGED <<prompting, code>>
  /\ \/ pc' = "discarding" /\ state' = "Discarding" /\ Publishes("Discarding") /\ UNCHANGED runStarted
     \/ pc' = "running" /\ state' = "Running" /\ Publishes("Running") /\ answer = Phrase /\ runStarted'
SettlesSession ==
  /\ ~Resolved /\ pc \in {"preparing", "discarding", "running"} /\ pc' = "settled"
  /\ code' = exit' /\ state' = FinalState(exit') /\ UNCHANGED <<prompting, answer, runStarted>>
  /\ Adds([state |-> FinalState(exit'), code |-> exit'])
LosesChannel ==
  /\ ~Resolved /\ connected' = FALSE /\ UNCHANGED <<flowVars, code>>
  /\ \/ prompting /\ prompting' = FALSE /\ answer' = NoAnswer /\ state' = "Submitting"
     \/ ~prompting /\ UNCHANGED <<state, prompting, answer>>

\* A command of the window is an answer only together with a text.
LEMMA CommandParts ==
  ASSUME NEW c \in Commands, c[1] = "answer"
  PROVE  c[2] \in AnswersOf
BY DEF Commands, AnswersOf

\* What a command of the window does: nothing, unless the session waits for it.
LEMMA CommandMoves ==
  ASSUME Inv, OwnerCommand
  PROVE  /\ Consumes /\ ~ended /\ UNCHANGED <<window, ended, ownerExit>>
         /\ \/ SaysReady
            \/ SaysPreparing
            \/ TakesFirst(Head(toOwner)[2]) /\ Head(toOwner)[1] = "answer"
            \/ /\ UNCHANGED <<flowVars, session, broken, toWindow>>
               /\ Head(toOwner)[1] = "answer" => ~prompting
<1> DEFINE c == Head(toOwner)
<1>1. TypeOK /\ c \in Commands
  <2>1. TypeOK
    BY DEF Inv
  <2>2. toOwner # <<>> /\ toOwner \in Seq(Commands)
    BY <2>1 DEF OwnerCommand, TypeOK
  <2> QED BY <2>1, <2>2, HeadTailProperties
<1> HIDE DEF c
<1>2. Consumes /\ ~ended /\ UNCHANGED <<window, ended, ownerExit>>
  BY DEF OwnerCommand, Consumes
<1>3. CASE state = "Connecting" /\ state' = "Ready" /\ Publish(<<Row("Ready", NoCode)>>) /\ UNCHANGED <<flowVars, prompting, answer, code>>
  BY <1>1, <1>2, <1>3, PlainRow DEF SaysReady, Publishes, States
<1>4. CASE /\ state = "Ready" /\ Begin(TRUE) /\ state' = "Preparing" /\ Publish(<<Row("Preparing", NoCode)>>)
           /\ UNCHANGED <<prompting, answer, code>>
  <2>1. pc = "idle" /\ pc' = "preparing"
    BY <1>4 DEF Begin
  <2> QED BY <1>1, <1>2, <1>4, <2>1, PlainRow DEF SaysPreparing, Publishes, States
<1>5. CASE /\ connected /\ c[1] = "answer" /\ TakesAnswer(state, prompting) /\ FinishPrompt(c[2])
           /\ Publish(<<Row("Submitting", NoCode)>>) /\ UNCHANGED <<flowVars, code>>
  <2>1. Publishes("Submitting") /\ c[2] \in AnswersOf
    BY <1>1, <1>5, PlainRow, CommandParts DEF Publishes, States
  <2>2. ~EmitMayFail => connected'
    BY <1>5, <2>1 DEF Publishes, Adds
  <2> QED BY <1>2, <1>5, <2>1, <2>2 DEF TakesFirst, FinishPrompt, TakesAnswer, c
<1>6. CASE /\ UNCHANGED <<flowVars, session, broken, toWindow>>
           /\ \/ ~connected
              \/ c[1] = "ready" /\ state # "Connecting"
              \/ c[1] = "prepare" /\ state # "Ready"
              \/ c[1] = "answer" /\ ~TakesAnswer(state, prompting)
  <2>1. c[1] = "answer" => ~prompting
    BY <1>6 DEF TakesAnswer, Inv, SessionInv
  <2> QED BY <1>2, <1>6, <2>1 DEF c
<1> QED BY <1>3, <1>4, <1>5, <1>6 DEF OwnerCommand, c

\* A timeout settles the prompt as no answer, once.
LEMMA ExpiryMoves ==
  ASSUME Inv, PromptExpires
  PROVE  TakesFirst(NoAnswer) /\ UNCHANGED <<flowVars, ended, ownerExit, toOwner, window>>
<1>1. TypeOK /\ state = "AwaitingConfirmation"
  BY DEF PromptExpires, Inv, SessionInv
<1> QED BY <1>1, PlainRow DEF PromptExpires, FinishPrompt, TakesFirst, Publishes, States, AnswersOf

\* A settled operation opens the prompt or settles the check.
LEMMA ExecutorMoves ==
  ASSUME Inv, FlowInv', Executor
  PROVE  ((Prompts /\ UNCHANGED runStarted) \/ SettlesSession) /\ UNCHANGED <<ended, ownerExit, toOwner, window>>
<1> TypeOK
  BY DEF Inv
<1>1. ASSUME NEW ok \in BOOLEAN, PrepareEnds(ok)
      PROVE  ((Prompts /\ UNCHANGED runStarted) \/ SettlesSession) /\ UNCHANGED <<ended, ownerExit, toOwner, window>>
  <2>1. CASE ok
    <3>1. pc = "preparing" /\ pc' = "prompting" /\ UNCHANGED runStarted
      BY <1>1, <2>1 DEF PrepareEnds, Prepared
    <3> QED BY <1>1, <2>1, <3>1, PromptRows DEF PrepareEnds, FinishPrompt, Prompts, Publishes
  <2>2. CASE ~ok
    <3>1. pc = "preparing" /\ pc' = "settled" /\ UNCHANGED runStarted
      BY <1>1, <2>2 DEF PrepareEnds, Prepared, Catch, MayRescue, Settle
    <3>2. ShowSettled /\ UNCHANGED <<prompting, answer, ended, ownerExit, toOwner, window>>
      BY <1>1, <2>2 DEF PrepareEnds
    <3> QED BY <1>1, <3>1, <3>2, SettledRow DEF PrepareEnds, SettlesSession
  <2> QED BY <2>1, <2>2
<1>2. ASSUME NEW ok \in BOOLEAN, DiscardEnds(ok)
      PROVE  SettlesSession /\ UNCHANGED <<ended, ownerExit, toOwner, window>>
  <2>1. pc = "discarding" /\ pc' = "settled" /\ UNCHANGED runStarted
    BY <1>2 DEF DiscardEnds, Discarded, Catch, MayRescue, Settle, Inv, FlowInv, Working
  <2> QED BY <1>2, <2>1, SettledRow DEF DiscardEnds, SettlesSession
<1>3. ASSUME NEW o \in RunOutcomes, RunEnds(o)
      PROVE  SettlesSession /\ UNCHANGED <<ended, ownerExit, toOwner, window>>
  <2>1. pc = "running" /\ pc' = "settled" /\ UNCHANGED runStarted
    BY <1>3 DEF RunEnds, RunEnded, Catch, MayRescue, Settle, Inv, FlowInv
  <2> QED BY <1>3, <2>1, SettledRow DEF RunEnds, SettlesSession
<1> QED BY <1>1, <1>2, <1>3 DEF Executor

\* An answered prompt starts the discard or, after the phrase, the run.
LEMMA ResumeMoves ==
  ASSUME Inv, Resume
  PROVE  Resumes /\ UNCHANGED <<ended, ownerExit, toOwner, window>>
<1>1. TypeOK
  BY DEF Inv
<1>2. CASE Decline(answer) /\ state' = "Discarding" /\ Publish(<<Row("Discarding", NoCode)>>)
  BY <1>1, <1>2, PlainRow DEF Resume, Decline, Resumes, Publishes, States
<1>3. CASE Accept(answer, TRUE) /\ state' = "Running" /\ Publish(<<Row("Running", NoCode)>>)
  BY <1>1, <1>3, PlainRow DEF Resume, Accept, Confirms, Resumes, Publishes, States
<1> QED BY <1>2, <1>3 DEF Resume

\* Everything that can happen to the session.
SessionStep ==
  \/ SaysReady \/ SaysPreparing \/ Prompts \/ Resumes \/ SettlesSession
  \/ \E a \in AnswersOf : TakesFirst(a)
  \/ LosesChannel /\ broken' \in BOOLEAN
  \/ UNCHANGED <<flowVars, session, broken>>

\* Whatever happens, the session only takes one of its steps.
LEMMA SessionMoves ==
  ASSUME Inv, FlowInv', [Next]_vars
  PROVE  SessionStep
<1>1. CASE OwnerCommand
  <2>1. ASSUME TakesFirst(Head(toOwner)[2]) PROVE \E a \in AnswersOf : TakesFirst(a)
    BY <2>1 DEF TakesFirst
  <2> QED BY <1>1, <2>1, CommandMoves DEF SessionStep
<1>2. CASE Resume \/ Executor
  BY <1>2, ResumeMoves, ExecutorMoves DEF SessionStep
<1>3. CASE PromptExpires
  BY <1>3, ExpiryMoves DEF SessionStep, AnswersOf
<1>4. CASE WindowClosed \/ ChannelFails
  <2>1. broken \in BOOLEAN /\ (prompting => state = "AwaitingConfirmation")
    BY DEF Inv, TypeOK, SessionInv
  <2> QED BY <1>4, <2>1 DEF WindowClosed, ChannelFails, Disconnect, FinishPrompt, LosesChannel, SessionStep
<1>5. CASE OwnerExits \/ WindowStep \/ User \/ WindowCrashes \/ UNCHANGED vars
  BY <1>5 DEF OwnerExits, WindowStep, WindowReads, WindowLosesOwner, User, ClickPrimary, ClickCancel, CloseWindow,
              WindowCrashes, vars, owner, SessionStep
<1> QED BY <1>1, <1>2, <1>3, <1>4, <1>5 DEF Next, OwnerStep

\* Each of these steps keeps the published state in line with the workflow.
LEMMA SessionKeeps ==
  ASSUME Inv, FlowInv', SessionStep
  PROVE  /\ SessionInv' /\ connected' \in BOOLEAN /\ prompting' \in BOOLEAN /\ broken' \in BOOLEAN
         /\ code' \in Codes /\ state' \in States /\ answer' \in AnswersOf \cup {Unresolved}
         /\ connected' => connected
<1> DEFINE Goal == /\ SessionInv' /\ connected' \in BOOLEAN /\ prompting' \in BOOLEAN /\ broken' \in BOOLEAN
                   /\ code' \in Codes /\ state' \in States /\ answer' \in AnswersOf \cup {Unresolved}
                   /\ connected' => connected
<1>1. /\ connected \in BOOLEAN /\ prompting \in BOOLEAN /\ broken \in BOOLEAN
      /\ code \in Codes /\ state \in States /\ answer \in AnswersOf \cup {Unresolved}
      /\ NoAnswer # Unresolved /\ Unresolved \notin AnswersOf
      /\ SessionInv /\ FlowInv
  BY DesktopAssumption DEF Inv, TypeOK, AnswersOf
<1> USE <1>1 DEF SessionInv, Resolved
<1>2. CASE SaysReady
  BY <1>2 DEF SaysReady, Publishes, Adds, flowVars, States, FlowInv, Working, FinalState
<1>3. CASE SaysPreparing
  BY <1>3 DEF SaysPreparing, Publishes, Adds, States
<1>4. CASE Prompts
  BY <1>4 DEF Prompts, Publishes, Adds, States, AnswersOf
<1>5. CASE Resumes
  BY <1>5 DEF Resumes, Publishes, Adds, States, AnswersOf
<1>6. CASE SettlesSession
  BY <1>6 DEF SettlesSession, Adds, States, FinalState, FlowInv, Codes
<1>7. ASSUME NEW a \in AnswersOf, TakesFirst(a) PROVE Goal
  BY <1>7 DEF TakesFirst, Publishes, Adds, flowVars, States, AnswersOf
<1>8. CASE LosesChannel /\ broken' \in BOOLEAN
  <2>1. UNCHANGED <<pc, exit, code>> /\ connected' = FALSE /\ ~Resolved
    BY <1>8 DEF LosesChannel, flowVars
  <2>2. CASE prompting
    <3>1. /\ pc = "prompting" /\ prompting' = FALSE /\ answer' = NoAnswer /\ state' = "Submitting"
          /\ broken' \in BOOLEAN /\ code = NoCode
      BY <1>8, <2>2 DEF LosesChannel
    <3> QED BY <2>1, <3>1 DEF States, AnswersOf
  <2>3. CASE ~prompting
    <3>1. UNCHANGED <<state, prompting, answer>> /\ broken' \in BOOLEAN
      BY <1>8, <2>3 DEF LosesChannel
    <3> QED BY <2>1, <2>3, <3>1 DEF FinalState
  <2> QED BY <2>2, <2>3
<1>9. CASE UNCHANGED <<flowVars, session, broken>>
  <2>1. UNCHANGED <<pc, exit, state, connected, prompting, answer, code, broken>>
    BY <1>9 DEF flowVars, session
  <2> QED BY <2>1
<1> QED BY <1>2, <1>3, <1>4, <1>5, <1>6, <1>7, <1>8, <1>9 DEF SessionStep

-----------------------------------------------------------------------------
(* The owner process                                                       *)

\* The workflow only goes forward: what has settled stays, and no prompt is left for an
\* earlier stage.
LEMMA FlowForward ==
  ASSUME FlowInv, [Next]_vars
  PROVE  /\ pc = "settled" => pc' = "settled" /\ exit' = exit
         /\ pc \notin {"idle", "preparing"} => pc' \notin {"idle", "preparing"}
<1>1. FlowStep \/ UNCHANGED flowVars
  BY FlowMoves
<1>2. CASE FlowStep
  BY <1>2 DEF FlowStep, Begin, Prepared, Discarded, Decline, Accept, RunEnded, Catch, Settle
<1>3. CASE UNCHANGED flowVars
  BY <1>3 DEF flowVars
<1> QED BY <1>1, <1>2, <1>3

\* Once the owner has promised an exit code nothing happens any more.
LEMMA NothingAfterExit ==
  ASSUME Inv, ownerExit # NoCode, [Next]_vars
  PROVE  UNCHANGED vars
<1>1. /\ ended /\ ~windowOpen /\ ~prompting /\ ~Resolved /\ pc \notin Working
  BY DEF Inv, OwnerInv, OwnerMayExit, SessionInv, Working
<1>2. ~OwnerCommand /\ ~Resume /\ ~WindowClosed /\ ~OwnerExits /\ ~PromptExpires /\ ~ChannelFails
  BY <1>1 DEF OwnerCommand, Resume, WindowClosed, OwnerExits, PromptExpires, ChannelFails
<1>3. ~Executor
  BY <1>1 DEF Executor, PrepareEnds, DiscardEnds, RunEnds, Prepared, Discarded, RunEnded, Working, Inv, FlowInv
<1>4. ~WindowStep /\ ~User /\ ~WindowCrashes
  BY <1>1 DEF WindowStep, WindowReads, WindowLosesOwner, User, ClickPrimary, ClickCancel, CloseWindow, Click, WindowCrashes
<1> QED BY <1>2, <1>3, <1>4 DEF Next, OwnerStep

\* The owner only exits once it has ended, with the code of the outcome or of the crash.
LEMMA OwnerKeeps ==
  ASSUME Inv, FlowInv', [Next]_vars
  PROVE  OwnerInv' /\ ended' \in BOOLEAN /\ ownerExit' \in Codes
<1>1. (windowOpen' => windowOpen) /\ (connected' => connected)
  <2>1. connected' => connected
    BY SessionMoves, SessionKeeps
  <2>2. windowOpen' => windowOpen
    <3>1. CASE OwnerStep
      BY <3>1, CommandMoves DEF OwnerStep, Resume, WindowClosed, OwnerExits, window
    <3>2. CASE Executor \/ PromptExpires \/ ChannelFails \/ UNCHANGED vars
      BY <3>2 DEF Executor, PrepareEnds, DiscardEnds, RunEnds, PromptExpires, ChannelFails, window, vars
    <3>3. CASE WindowStep \/ User \/ WindowCrashes
      BY <3>3 DEF WindowStep, WindowReads, WindowLosesOwner, User, ClickPrimary, ClickCancel, CloseWindow, Click, WindowCrashes
    <3> QED BY <3>1, <3>2, <3>3 DEF Next
  <2> QED BY <2>1, <2>2
<1>2. CASE ownerExit # NoCode
  <2>1. UNCHANGED <<pc, code, connected, broken, ended, ownerExit, wstate, windowOpen>>
    <3>1. UNCHANGED vars
      BY <1>2, NothingAfterExit
    <3> QED BY <3>1 DEF vars, flowVars, session, owner, window
  <2> QED BY <2>1 DEF Inv, OwnerInv, OwnerMayExit, ExitOf, TypeOK
<1>3. CASE OwnerExits
  <2>1. /\ ended /\ OwnerMayExit(pc) /\ ownerExit' = ExitOf(broken \/ wstate = "Crashed", code)
        /\ UNCHANGED <<pc, code, broken, ended, wstate>> /\ code \in Codes
    BY <1>3 DEF OwnerExits, flowVars, session, window, Inv, TypeOK
  <2>2. ended /\ ended' => ~windowOpen' /\ ~connected'
    BY <1>1 DEF Inv, OwnerInv
  <2>3. ownerExit' \in Codes /\ ended' \in BOOLEAN
    BY <2>1 DEF ExitOf, Codes, Inv, TypeOK
  <2> QED BY <2>1, <2>2, <2>3 DEF OwnerInv, OwnerMayExit, ExitOf
<1>4. CASE ownerExit = NoCode /\ ~OwnerExits
  <2>1. ownerExit' = ownerExit /\ (ended' = ended \/ WindowClosed)
    <3>1. CASE OwnerStep
      BY <1>4, <3>1, CommandMoves DEF OwnerStep, Resume, WindowClosed
    <3>2. CASE Executor \/ PromptExpires \/ ChannelFails \/ UNCHANGED vars
      BY <3>2 DEF Executor, PrepareEnds, DiscardEnds, RunEnds, PromptExpires, ChannelFails, owner, vars
    <3>3. CASE WindowStep \/ User \/ WindowCrashes
      BY <3>3 DEF WindowStep, WindowReads, WindowLosesOwner, User, ClickPrimary, ClickCancel, CloseWindow, WindowCrashes, owner
    <3> QED BY <3>1, <3>2, <3>3 DEF Next
  <2>2. ended' => ~windowOpen' /\ ~connected'
    <3>1. CASE ended' = ended
      BY <1>1, <3>1 DEF Inv, OwnerInv
    <3>2. CASE WindowClosed
      BY <1>1, <3>2 DEF WindowClosed, Disconnect
    <3> QED BY <2>1, <3>1, <3>2
  <2>3. ended' \in BOOLEAN
    BY <2>1 DEF WindowClosed, Inv, TypeOK
  <2> QED BY <1>4, <2>1, <2>2, <2>3 DEF OwnerInv, Inv, TypeOK
<1> QED BY <1>2, <1>3, <1>4

-----------------------------------------------------------------------------
(* The rows                                                                *)

\* The pipe to the window: a true row is added, its end is lost, its head is read.
Cuts  == \E n \in 0..Len(toWindow) : toWindow' = SubSeq(toWindow, 1, n)
\* The window takes the oldest row.
Reads == toWindow # <<>> /\ toWindow' = Tail(toWindow)

\* What the row (s, c) says will be so after the step.
StaysTrue(s, c) ==
  /\ s = "Finished" => pc' = "settled" /\ c = exit' /\ exit' # 1
  /\ s = "Failed"   => pc' = "settled" /\ exit' = 1
  /\ s = "AwaitingConfirmation" => pc' \notin {"idle", "preparing"}

\* The row added says what will be so.
AddsTrue == \E r \in Rows : Adds(r) /\ StaysTrue(r.state, r.code)

\* A row that is neither a question nor an outcome is true whenever it is shown.
LEMMA PlainIsTrue ==
  ASSUME NEW st \in {"Ready", "Preparing", "Submitting", "Discarding", "Running"}, Publishes(st)
  PROVE  AddsTrue
<1> DEFINE r == [state |-> st, code |-> NoCode]
<1>1. r \in Rows
  BY DEF Rows, States, Codes
<1>2. r.state = st
  OBVIOUS
<1>3. StaysTrue(r.state, r.code)
  BY <1>2 DEF StaysTrue
<1> QED BY <1>1, <1>3 DEF AddsTrue, Publishes

\* A published outcome is the outcome of the workflow.
LEMMA SettledIsTrue ==
  ASSUME Inv, FlowInv', SettlesSession
  PROVE  AddsTrue
<1> DEFINE r == [state |-> FinalState(exit'), code |-> exit']
<1>1. pc' = "settled" /\ exit' \in {0, 1, 2, 3} /\ Adds(r)
  BY DEF SettlesSession, FlowInv
<1>2. r.state = FinalState(exit') /\ r.code = exit' /\ r \in Rows
  BY <1>1 DEF Rows, FinalState, States, Codes
<1>3. StaysTrue(r.state, r.code)
  BY <1>1, <1>2 DEF StaysTrue, FinalState
<1> QED BY <1>1, <1>2, <1>3 DEF AddsTrue

\* The question is published once the prompt is open.
LEMMA PromptIsTrue ==
  ASSUME Prompts
  PROVE  AddsTrue
<1> DEFINE r == [state |-> "AwaitingConfirmation", code |-> NoCode]
<1>1. r \in Rows
  BY DEF Rows, States, Codes
<1>2. Adds(r) /\ StaysTrue(r.state, r.code)
  BY DEF Prompts, Publishes, StaysTrue
<1> QED BY <1>1, <1>2 DEF AddsTrue

\* Rows are added true, cut off with the pipe, or read.
LEMMA RowMoves ==
  ASSUME Inv, FlowInv', [Next]_vars
  PROVE  AddsTrue \/ Cuts \/ Reads \/ UNCHANGED toWindow
<1>1. CASE OwnerCommand
  <2>1. CASE SaysReady
    BY <2>1, PlainIsTrue DEF SaysReady
  <2>2. CASE SaysPreparing
    BY <2>2, PlainIsTrue DEF SaysPreparing
  <2>3. CASE TakesFirst(Head(toOwner)[2])
    BY <2>3, PlainIsTrue DEF TakesFirst
  <2>4. CASE UNCHANGED toWindow
    BY <2>4
  <2> QED BY <1>1, <2>1, <2>2, <2>3, <2>4, CommandMoves
<1>2. CASE Resume
  <2>1. Resumes
    BY <1>2, ResumeMoves
  <2> QED BY <2>1, PlainIsTrue DEF Resumes
<1>3. CASE Executor
  BY <1>3, ExecutorMoves, PromptIsTrue, SettledIsTrue
<1>4. CASE PromptExpires
  BY <1>4, ExpiryMoves, PlainIsTrue DEF TakesFirst
<1>5. CASE ChannelFails
  BY <1>5 DEF ChannelFails, Cuts
<1>6. CASE WindowReads
  BY <1>6 DEF WindowReads, Reads
<1>7. CASE WindowClosed \/ OwnerExits \/ WindowLosesOwner \/ User \/ WindowCrashes \/ UNCHANGED vars
  BY <1>7 DEF WindowClosed, OwnerExits, WindowLosesOwner, User, ClickPrimary, ClickCancel, CloseWindow, WindowCrashes, vars
<1> QED BY <1>1, <1>2, <1>3, <1>4, <1>5, <1>6, <1>7 DEF Next, OwnerStep, WindowStep

\* What was true of a row stays true of it.
LEMMA RowsStayTrue ==
  ASSUME Inv, FlowInv', [Next]_vars
  PROVE  /\ toWindow' \in Seq(Rows)
         /\ \A i \in 1..Len(toWindow') : StaysTrue(toWindow'[i].state, toWindow'[i].code)
<1>1. /\ toWindow \in Seq(Rows) /\ Len(toWindow) \in Nat
      /\ \A i \in 1..Len(toWindow) : toWindow[i] \in Rows
  BY LenProperties, ElementOfSeq DEF Inv, TypeOK, Rows
<1>2. \A i \in 1..Len(toWindow) : StaysTrue(toWindow[i].state, toWindow[i].code)
  <2> SUFFICES ASSUME NEW i \in 1..Len(toWindow) PROVE StaysTrue(toWindow[i].state, toWindow[i].code)
    OBVIOUS
  <2>1. RowTrue(toWindow[i].state, toWindow[i].code)
    BY DEF Inv, RowInv
  <2>2. /\ pc = "settled" => pc' = "settled" /\ exit' = exit
        /\ pc \notin {"idle", "preparing"} => pc' \notin {"idle", "preparing"}
    BY FlowForward DEF Inv
  <2> QED BY <2>1, <2>2 DEF RowTrue, StaysTrue
<1>3. CASE AddsTrue
  <2>1. PICK r \in Rows : Adds(r) /\ StaysTrue(r.state, r.code)
    BY <1>3 DEF AddsTrue
  <2> QED BY <1>2, <2>1 DEF Adds
<1>4. CASE Cuts
  <2>1. PICK n \in 0..Len(toWindow) : toWindow' = SubSeq(toWindow, 1, n)
    BY <1>4 DEF Cuts
  <2>2. /\ SubSeq(toWindow, 1, n) \in Seq(Rows) /\ Len(SubSeq(toWindow, 1, n)) = n
        /\ \A i \in 1..n : i \in 1..Len(toWindow) /\ SubSeq(toWindow, 1, n)[i] = toWindow[i]
    BY <1>1, CutKeeps
  <2> QED BY <1>2, <2>1, <2>2
<1>5. CASE Reads
  <2>1. /\ toWindow' \in Seq(Rows)
        /\ \A i \in 1..Len(toWindow') : i + 1 \in 1..Len(toWindow) /\ toWindow'[i] = toWindow[i + 1]
    BY <1>1, <1>5, TailKeeps DEF Reads
  <2> QED BY <1>2, <2>1
<1>6. CASE UNCHANGED toWindow
  BY <1>1, <1>2, <1>6
<1> QED BY <1>3, <1>4, <1>5, <1>6, RowMoves

\* What the window shows is the row it read last, and it asks only while it shows a question.
ShownType ==
  /\ wstate \in States \cup {"Lost", "Crashed"} /\ wcode \in Codes
  /\ controls \subseteq {"primary", "cancel"} /\ windowOpen \in BOOLEAN

\* What the window shows stays true, and it only lets the user cancel a question.
LEMMA ShownIsTrue ==
  ASSUME Inv, FlowInv', [Next]_vars
  PROVE  /\ RowTrue(wstate, wcode)' /\ ShownType'
         /\ (windowOpen /\ "cancel" \in controls => wstate = "AwaitingConfirmation")'
<1>1. /\ RowTrue(wstate, wcode) /\ ShownType
      /\ windowOpen /\ "cancel" \in controls => wstate = "AwaitingConfirmation"
      /\ pc = "settled" => pc' = "settled" /\ exit' = exit
      /\ pc \notin {"idle", "preparing"} => pc' \notin {"idle", "preparing"}
  BY FlowForward DEF Inv, RowInv, TypeOK, ShownType
<1>2. CASE WindowReads
  <2>1. /\ wstate' = Head(toWindow).state /\ wcode' = Head(toWindow).code /\ controls' = ControlsOf(wstate')
        /\ windowOpen' \in BOOLEAN /\ UNCHANGED <<pc, exit>> /\ toWindow # <<>> /\ toWindow \in Seq(Rows)
    BY <1>2 DEF WindowReads, flowVars, Inv, TypeOK, Rows
  <2>2. Head(toWindow) = toWindow[1] /\ 1 \in 1..Len(toWindow) /\ toWindow[1] \in Rows
    BY <2>1, TailKeeps
  <2>3. RowTrue(toWindow[1].state, toWindow[1].code)
    BY <2>2 DEF Inv, RowInv
  <2>4. RowTrue(wstate, wcode)'
    BY <2>1, <2>2, <2>3 DEF RowTrue
  <2>5. ShownType' /\ ("cancel" \in controls' => wstate' = "AwaitingConfirmation")
    BY <2>1, <2>2 DEF ShownType, Rows, ControlsOf
  <2> QED BY <2>4, <2>5
<1>3. CASE WindowLosesOwner
  BY <1>1, <1>3 DEF WindowLosesOwner, RowTrue, ShownType, NoCode, Codes
<1>4. CASE WindowCrashes
  BY <1>1, <1>4 DEF WindowCrashes, RowTrue, ShownType
<1>5. CASE User
  <2>1. /\ UNCHANGED <<wstate, wcode>> /\ windowOpen /\ windowOpen' \in BOOLEAN
        /\ controls' \subseteq controls
    BY <1>1, <1>5 DEF User, ClickPrimary, ClickCancel, CloseWindow, Click, ShownType
  <2> QED BY <1>1, <2>1 DEF RowTrue, ShownType
<1>6. CASE UNCHANGED window
  BY <1>1, <1>6 DEF window, RowTrue, ShownType
<1>7. WindowReads \/ WindowLosesOwner \/ WindowCrashes \/ User \/ UNCHANGED window
  <2>1. CASE OwnerStep
    BY <2>1, CommandMoves DEF OwnerStep, Resume, WindowClosed, OwnerExits
  <2>2. CASE Executor \/ PromptExpires \/ ChannelFails \/ UNCHANGED vars
    BY <2>2 DEF Executor, PrepareEnds, DiscardEnds, RunEnds, PromptExpires, ChannelFails, vars
  <2> QED BY <2>1, <2>2 DEF Next, WindowStep
<1> QED BY <1>2, <1>3, <1>4, <1>5, <1>6, <1>7

\* The rows stay true, on their way and shown.
LEMMA RowKeeps ==
  ASSUME Inv, FlowInv', [Next]_vars
  PROVE  RowInv' /\ ShownType' /\ toWindow' \in Seq(Rows)
<1>1. \A i \in 1..Len(toWindow') : RowTrue(toWindow[i].state, toWindow[i].code)'
  BY RowsStayTrue DEF RowTrue, StaysTrue
<1> QED BY <1>1, RowsStayTrue, ShownIsTrue DEF RowInv

-----------------------------------------------------------------------------
(* The first answer                                                        *)

\* The pipe from the window: the window appends a command, the owner takes the oldest.
SendsPrepare   == toOwner' = Append(toOwner, <<"prepare">>) /\ UNCHANGED <<answered, flowVars, session>>
\* The user sends the answer a.
SendsAnswer(a) == /\ toOwner' = Append(toOwner, <<"answer", a>>) /\ answered' = Append(answered, a)
                  /\ pc \notin {"idle", "preparing"} /\ UNCHANGED <<flowVars, session>>

\* The clicks so far.
ClickType == clicks \in 0..MaxClicks /\ closing \in BOOLEAN

\* A click sends at most one command, and an answer only after the prompt opened.
LEMMA UserMoves ==
  ASSUME Inv, User
  PROVE  /\ SendsPrepare \/ (\E a \in AnswersOf : SendsAnswer(a)) \/ UNCHANGED <<toOwner, answered, flowVars, session>>
         /\ ClickType'
<1>1. ClickType /\ MaxClicks \in Nat
  BY DesktopAssumption DEF Inv, TypeOK, ClickType
<1>2. windowOpen /\ clicks < MaxClicks /\ clicks' = clicks + 1 /\ closing' \in BOOLEAN /\ UNCHANGED <<flowVars, session>>
  BY <1>1 DEF User, ClickPrimary, ClickCancel, CloseWindow, Click, ClickType
<1>3. ClickType'
  BY <1>1, <1>2 DEF ClickType
<1>4. wstate = "AwaitingConfirmation" => pc \notin {"idle", "preparing"}
  BY DEF Inv, RowInv, RowTrue
<1>5. "cancel" \in controls => wstate = "AwaitingConfirmation"
  BY <1>2 DEF Inv, RowInv
<1>6. CASE ClickPrimary
  <2>1. CASE Send(<<"prepare">>) /\ UNCHANGED answered
    BY <1>2, <1>3, <2>1 DEF Send, SendsPrepare
  <2>2. CASE wstate = "AwaitingConfirmation" /\ \E a \in Answers : Send(<<"answer", a>>) /\ answered' = Append(answered, a)
    BY <1>2, <1>3, <1>4, <2>2 DEF Send, SendsAnswer, AnswersOf
  <2> QED BY <1>3, <1>6, <2>1, <2>2 DEF ClickPrimary
<1>7. CASE ClickCancel
  <2>1. SendsAnswer(NoAnswer)
    BY <1>2, <1>4, <1>5, <1>7 DEF ClickCancel, Send, SendsAnswer
  <2> QED BY <1>3, <2>1 DEF AnswersOf
<1>8. CASE CloseWindow
  <2>1. CASE UNCHANGED <<toOwner, answered>>
    BY <1>2, <1>3, <2>1
  <2>2. CASE wstate = "AwaitingConfirmation" /\ Send(<<"answer", NoAnswer>>) /\ answered' = Append(answered, NoAnswer)
    <3>1. SendsAnswer(NoAnswer)
      BY <1>2, <1>4, <2>2 DEF Send, SendsAnswer
    <3> QED BY <1>3, <3>1 DEF AnswersOf
  <2> QED BY <1>8, <2>1, <2>2 DEF CloseWindow
<1> QED BY <1>6, <1>7, <1>8 DEF User

\* What can happen to the commands on their way to the owner.
LEMMA PipeMoves ==
  ASSUME Inv, [Next]_vars
  PROVE  /\ \/ OwnerCommand /\ Consumes /\ UNCHANGED answered
            \/ SendsPrepare
            \/ \E a \in AnswersOf : SendsAnswer(a)
            \/ ~OwnerCommand /\ UNCHANGED <<toOwner, answered>>
         /\ ClickType'
<1>1. ClickType
  BY DEF Inv, TypeOK, ClickType
<1>2. CASE OwnerCommand
  BY <1>1, <1>2, CommandMoves DEF window, ClickType
<1>3. CASE User /\ ~OwnerCommand
  BY <1>3, UserMoves
<1>4. CASE ~OwnerCommand /\ (Resume \/ WindowClosed \/ OwnerExits \/ Executor)
  BY <1>1, <1>4 DEF Resume, WindowClosed, OwnerExits, Executor, PrepareEnds, DiscardEnds, RunEnds, window, ClickType
<1>5. CASE ~OwnerCommand /\ (PromptExpires \/ ChannelFails \/ WindowStep \/ WindowCrashes \/ UNCHANGED vars)
  BY <1>1, <1>5 DEF PromptExpires, ChannelFails, WindowStep, WindowReads, WindowLosesOwner, WindowCrashes, window, vars, ClickType
<1> QED BY <1>2, <1>3, <1>4, <1>5 DEF Next, OwnerStep

\* Only commands travel to the owner.
LEMMA CommandsTyped ==
  ASSUME Inv, [Next]_vars
  PROVE  toOwner' \in Seq(Commands) /\ answered' \in Seq(AnswersOf)
<1>1. toOwner \in Seq(Commands) /\ answered \in Seq(AnswersOf)
  BY DEF Inv, TypeOK, AnswersOf
<1>2. CASE Consumes /\ UNCHANGED answered
  BY <1>1, <1>2, TailKeeps DEF Consumes
<1>3. CASE SendsPrepare
  <2>1. <<"prepare">> \in Commands
    BY DEF Commands
  <2> QED BY <1>1, <1>3, <2>1, AppendProperties DEF SendsPrepare
<1>4. ASSUME NEW a \in AnswersOf, SendsAnswer(a)
      PROVE  toOwner' \in Seq(Commands) /\ answered' \in Seq(AnswersOf)
  <2>1. <<"answer", a>> \in Commands
    BY DEF Commands, AnswersOf
  <2> QED BY <1>1, <1>4, <2>1, AppendProperties DEF SendsAnswer
<1>5. CASE UNCHANGED <<toOwner, answered>>
  BY <1>1, <1>5
<1> QED BY <1>2, <1>3, <1>4, <1>5, PipeMoves

\* What the open prompt will be answered with is what was answered first.
LEMMA TakenIsFirst ==
  ASSUME Inv, OwnerCommand, TakesFirst(Head(toOwner)[2]), Head(toOwner)[1] = "answer"
  PROVE  answered # <<>> /\ answered[1] = Head(toOwner)[2]
<1>1. toOwner \in Seq(Commands) /\ toOwner # <<>> /\ prompting
  BY DEF Inv, TypeOK, OwnerCommand, TakesFirst
<1>2. Head(toOwner) = toOwner[1] /\ Len(toOwner) \in Nat \ {0}
  BY <1>1, TailKeeps
<1>3. answered # <<>>
  BY <1>2 DEF Inv, AnswerInv
<1>4. PICK k \in 1..Len(toOwner) : FirstAnswerAt(k)
  BY <1>1, <1>3 DEF Inv, AnswerInv
<1>5. k = 1
  BY <1>2, <1>4 DEF FirstAnswerAt
<1> QED BY <1>2, <1>3, <1>4, <1>5 DEF FirstAnswerAt

\* While the prompt is open the first answer, once given, is on its way to it.
LEMMA FirstIsOnItsWay ==
  ASSUME Inv, FlowInv', [Next]_vars
  PROVE  /\ (answered = <<>> => \A j \in 1..Len(toOwner) : toOwner[j][1] # "answer")'
         /\ (prompting /\ answered # <<>> => \E k \in 1..Len(toOwner) : FirstAnswerAt(k))'
         /\ answered # <<>> => answered' # <<>> /\ answered'[1] = answered[1]
<1> DEFINE Goal == /\ (answered = <<>> => \A j \in 1..Len(toOwner) : toOwner[j][1] # "answer")'
                   /\ (prompting /\ answered # <<>> => \E k \in 1..Len(toOwner) : FirstAnswerAt(k))'
                   /\ answered # <<>> => answered' # <<>> /\ answered'[1] = answered[1]
<1>1. /\ toOwner \in Seq(Commands) /\ answered \in Seq(AnswersOf) /\ Len(toOwner) \in Nat /\ Len(answered) \in Nat
      /\ answered = <<>> => \A j \in 1..Len(toOwner) : toOwner[j][1] # "answer"
      /\ prompting /\ answered # <<>> => \E k \in 1..Len(toOwner) : FirstAnswerAt(k)
      /\ answered # <<>> => Len(answered) > 0
  BY LenProperties, EmptySeq DEF Inv, TypeOK, AnswersOf, AnswerInv
<1>2. CASE OwnerCommand /\ Consumes /\ UNCHANGED answered
  <2>1. /\ toOwner # <<>> /\ toOwner' = Tail(toOwner) /\ Len(Tail(toOwner)) = Len(toOwner) - 1
        /\ \A i \in 1..Len(Tail(toOwner)) : i + 1 \in 1..Len(toOwner) /\ Tail(toOwner)[i] = toOwner[i + 1]
        /\ Head(toOwner) = toOwner[1]
    BY <1>1, <1>2, TailKeeps DEF Consumes
  <2>2. ASSUME prompting', answered # <<>> PROVE \E k \in 1..Len(toOwner') : FirstAnswerAt(k)'
    <3>1. prompting /\ toOwner[1][1] # "answer"
      <4>1. ~SaysReady
        BY <2>2 DEF SaysReady, Inv, SessionInv
      <4>2. ~SaysPreparing
        BY <2>2 DEF SaysPreparing, Inv, AnswerInv
      <4>3. ~TakesFirst(Head(toOwner)[2])
        BY <2>2 DEF TakesFirst
      <4>4. UNCHANGED session /\ (Head(toOwner)[1] = "answer" => ~prompting)
        BY <1>2, <4>1, <4>2, <4>3, CommandMoves
      <4> QED BY <2>1, <2>2, <4>4 DEF session
    <3>2. PICK k \in 1..Len(toOwner) : FirstAnswerAt(k)
      BY <1>1, <2>2, <3>1
    <3>3. k > 1 /\ k - 1 \in 1..Len(toOwner')
      BY <1>1, <2>1, <3>1, <3>2 DEF FirstAnswerAt
    <3>4. toOwner'[k - 1] = toOwner[k] /\ \A j \in 1..k-2 : toOwner'[j] = toOwner[j + 1] /\ j + 1 \in 1..k-1
      BY <1>1, <2>1, <3>3
    <3>5. FirstAnswerAt(k - 1)'
      BY <1>2, <3>2, <3>3, <3>4, SMTT(30) DEF FirstAnswerAt
    <3> QED BY <3>3, <3>5
  <2>3. (answered = <<>> => \A j \in 1..Len(toOwner) : toOwner[j][1] # "answer")'
    BY <1>1, <1>2, <2>1
  <2> QED BY <1>2, <2>2, <2>3
<1>3. CASE SendsPrepare
  <2>1. /\ Len(toOwner') = Len(toOwner) + 1 /\ answered' = answered /\ prompting' = prompting
        /\ \A i \in 1..Len(toOwner) : toOwner'[i] = toOwner[i]
        /\ toOwner'[Len(toOwner) + 1] = <<"prepare">>
    BY <1>1, <1>3 DEF SendsPrepare, session
  <2>2. ASSUME prompting', answered # <<>> PROVE \E k \in 1..Len(toOwner') : FirstAnswerAt(k)'
    <3>1. PICK k \in 1..Len(toOwner) : FirstAnswerAt(k)
      BY <1>1, <2>1, <2>2
    <3>2. k \in 1..Len(toOwner') /\ FirstAnswerAt(k)'
      BY <1>1, <2>1, <3>1 DEF FirstAnswerAt
    <3> QED BY <3>2
  <2>3. (answered = <<>> => \A j \in 1..Len(toOwner) : toOwner[j][1] # "answer")'
    BY <1>1, <2>1
  <2> QED BY <2>1, <2>2, <2>3
<1>4. ASSUME NEW a \in AnswersOf, SendsAnswer(a) PROVE Goal
  <2>1. /\ Len(toOwner') = Len(toOwner) + 1 /\ prompting' = prompting
        /\ \A i \in 1..Len(toOwner) : toOwner'[i] = toOwner[i]
        /\ toOwner'[Len(toOwner) + 1] = <<"answer", a>>
    BY <1>1, <1>4 DEF SendsAnswer, session
  <2>2. /\ Len(answered') = Len(answered) + 1 /\ answered' # <<>>
        /\ \A i \in 1..Len(answered) : answered'[i] = answered[i]
        /\ answered'[Len(answered) + 1] = a
    BY <1>1, <1>4 DEF SendsAnswer
  <2>3. CASE answered = <<>>
    <3>1. Len(answered) = 0 /\ answered'[1] = a
      BY <2>2, <2>3
    <3>2. PICK k \in Nat : k = Len(toOwner) + 1
      BY <1>1
    <3>3. toOwner'[k] = <<"answer", a>> /\ \A j \in 1..k-1 : toOwner'[j][1] # "answer"
      BY <1>1, <2>1, <2>3, <3>2
    <3>4. FirstAnswerAt(k)' /\ k \in 1..Len(toOwner')
      BY <1>1, <2>1, <3>1, <3>2, <3>3 DEF FirstAnswerAt
    <3> QED BY <2>2, <2>3, <3>4
  <2>4. CASE answered # <<>>
    <3>1. answered'[1] = answered[1]
      BY <1>1, <2>2, <2>4
    <3>2. ASSUME NEW k \in 1..Len(toOwner), FirstAnswerAt(k) PROVE k \in 1..Len(toOwner') /\ FirstAnswerAt(k)'
      BY <1>1, <2>1, <3>1, <3>2, SMTT(30) DEF FirstAnswerAt
    <3> QED BY <1>1, <2>1, <2>2, <2>4, <3>1, <3>2
  <2> QED BY <2>3, <2>4
<1>5. CASE ~OwnerCommand /\ UNCHANGED <<toOwner, answered>>
  <2>1. prompting' => prompting \/ answered = <<>>
    <3>1. SessionStep
      BY SessionMoves
    <3> QED BY <3>1 DEF SessionStep, SaysReady, SaysPreparing, Prompts, Resumes, SettlesSession, TakesFirst,
                        LosesChannel, session, Inv, AnswerInv
  <2> QED BY <1>1, <1>5, <2>1 DEF FirstAnswerAt
<1> QED BY <1>2, <1>3, <1>4, <1>5, PipeMoves

\* No answer is given before the question, and an answer that is no refusal is the first one.
LEMMA AnswerKeeps ==
  ASSUME Inv, FlowInv', [Next]_vars
  PROVE  AnswerInv'
<1>1. /\ answered # <<>> => pc \notin {"idle", "preparing"}
      /\ Resolved /\ answer # NoAnswer => answered # <<>> /\ answered[1] = answer
      /\ runStarted => answered # <<>> /\ answered[1] = Phrase
      /\ answered # <<>> => answered' # <<>> /\ answered'[1] = answered[1]
      /\ pc \notin {"idle", "preparing"} => pc' \notin {"idle", "preparing"}
      /\ NoAnswer # Phrase /\ SessionStep
  BY FirstIsOnItsWay, FlowForward, SessionMoves, AnswersAssumption DEF Inv, AnswerInv
<1>2. answered' # <<>> => pc' \notin {"idle", "preparing"}
  <2>1. CASE UNCHANGED answered
    BY <1>1, <2>1
  <2>2. ASSUME NEW a \in AnswersOf, SendsAnswer(a) PROVE pc' \notin {"idle", "preparing"}
    BY <2>2 DEF SendsAnswer, flowVars
  <2> QED BY <2>1, <2>2, PipeMoves DEF SendsPrepare
<1>3. (Resolved /\ answer # NoAnswer)' => answered' # <<>> /\ answered'[1] = answer'
  <2>1. CASE UNCHANGED answer
    BY <1>1, <2>1 DEF Resolved
  <2>2. CASE answer' \in {NoAnswer, Unresolved}
    BY <2>2 DEF Resolved
  <2>3. CASE OwnerCommand /\ TakesFirst(Head(toOwner)[2]) /\ Head(toOwner)[1] = "answer"
    BY <1>1, <2>3, TakenIsFirst DEF TakesFirst
  <2>4. \/ UNCHANGED answer
        \/ answer' \in {NoAnswer, Unresolved}
        \/ OwnerCommand /\ TakesFirst(Head(toOwner)[2]) /\ Head(toOwner)[1] = "answer"
    <3>1. CASE OwnerCommand
      BY <3>1, CommandMoves DEF SaysReady, SaysPreparing, session
    <3>2. CASE Resume \/ Executor
      BY <3>2, ResumeMoves, ExecutorMoves DEF Resumes, Prompts, SettlesSession
    <3>3. CASE PromptExpires
      BY <3>3, ExpiryMoves DEF TakesFirst
    <3>4. CASE WindowClosed \/ ChannelFails
      BY <3>4 DEF WindowClosed, ChannelFails, Disconnect, FinishPrompt
    <3>5. CASE OwnerExits \/ WindowStep \/ User \/ WindowCrashes \/ UNCHANGED vars
      BY <3>5 DEF OwnerExits, WindowStep, WindowReads, WindowLosesOwner, User, ClickPrimary, ClickCancel, CloseWindow,
                  WindowCrashes, vars, session
    <3> QED BY <3>1, <3>2, <3>3, <3>4, <3>5 DEF Next, OwnerStep
  <2> QED BY <2>1, <2>2, <2>3, <2>4
<1>4. runStarted' => answered' # <<>> /\ answered'[1] = Phrase
  <2>1. CASE runStarted
    BY <1>1, <2>1
  <2>2. CASE Resumes /\ answer = Phrase
    BY <1>1, <2>2 DEF Resumes
  <2>3. runStarted' => runStarted \/ (Resumes /\ answer = Phrase)
    <3>1. ~SaysPreparing \/ ~runStarted'
      BY DEF SaysPreparing, FlowInv
    <3>2. ~Prompts \/ ~runStarted'
      BY DEF Prompts, FlowInv
    <3> QED BY <1>1, <3>1, <3>2 DEF SessionStep, SaysReady, Resumes, SettlesSession, TakesFirst, LosesChannel, flowVars
  <2> QED BY <2>1, <2>2, <2>3
<1> QED BY <1>2, <1>3, <1>4, FirstIsOnItsWay DEF AnswerInv

-----------------------------------------------------------------------------
(* The invariant                                                           *)

\* Every step keeps the types.
LEMMA TypeKeeps ==
  ASSUME Inv, FlowInv', [Next]_vars
  PROVE  TypeOK'
<1>1. /\ connected' \in BOOLEAN /\ prompting' \in BOOLEAN /\ broken' \in BOOLEAN /\ ended' \in BOOLEAN
      /\ code' \in Codes /\ state' \in States /\ answer' \in AnswersOf \cup {Unresolved} /\ ownerExit' \in Codes
  BY SessionMoves, SessionKeeps, OwnerKeeps
<1>2. toOwner' \in Seq(Commands) /\ answered' \in Seq(AnswersOf) /\ toWindow' \in Seq(Rows) /\ ShownType' /\ ClickType'
  BY CommandsTyped, RowKeeps, PipeMoves
<1>3. /\ pc' \in Working \cup {"idle", "settled"} /\ calls' \in [Operations -> Nat] /\ exit' \in Codes
      /\ build' \in BOOLEAN /\ runStarted' \in BOOLEAN /\ discardAttempted' \in BOOLEAN
  <2>1. calls' \in [Operations -> Nat]
    BY DEF FlowInv
  <2>2. exit' \in Codes
    BY DEF FlowInv, Codes, NoCode
  <2> QED BY <2>1, <2>2 DEF FlowInv
<1> QED BY <1>1, <1>2, <1>3 DEF TypeOK, ShownType, ClickType, Working, AnswersOf, Rows

\* The invariant holds when the window opens.
LEMMA InitHolds == Init => Inv
<1> SUFFICES ASSUME Init PROVE Inv
  OBVIOUS
<1>1. FlowInv
  <2>1. calls = [op \in Operations |-> 0] /\ pc = "idle" /\ build = FALSE /\ exit = Unsettled
        /\ runStarted = FALSE /\ discardAttempted = FALSE
    BY DEF Init, FlowInit
  <2>2. calls \in [Operations -> {0, 1}] /\ calls["prepare"] = 0 /\ calls["run"] = 0 /\ calls["discard"] = 0
    BY <2>1 DEF Operations
  <2>3. ~runStarted /\ ~discardAttempted /\ ~build /\ {build, runStarted, discardAttempted} \subseteq BOOLEAN
    BY <2>1
  <2>4. ~(calls["run"] = 1) /\ ~(calls["discard"] = 1)
    BY <2>2
  <2> QED BY <2>1, <2>2, <2>3, <2>4 DEF FlowInv
<1>2. SessionInv /\ OwnerInv
  BY DEF Init, FlowInit, SessionInv, OwnerInv, Resolved
<1>3. RowInv
  BY DEF Init, FlowInit, RowInv, RowTrue
<1>4. AnswerInv
  BY DEF Init, FlowInit, AnswerInv, Resolved
<1>5. TypeOK
  <2>1. toOwner \in Seq(Commands) /\ toWindow \in Seq([state : States, code : Codes]) /\ answered \in Seq(AnswersOf)
    BY DEF Init, Commands
  <2>2. calls \in [Operations -> Nat] /\ clicks \in 0..MaxClicks
    BY DesktopAssumption DEF Init, FlowInit
  <2>3. exit \in Codes /\ code \in Codes /\ ownerExit \in Codes /\ wcode \in Codes
    BY DEF Init, FlowInit, Codes, NoCode
  <2> QED BY <2>1, <2>2, <2>3 DEF Init, FlowInit, TypeOK, States, AnswersOf
<1> QED BY <1>1, <1>2, <1>3, <1>4, <1>5 DEF Inv

\* The inductive invariant of the desktop check: every step of the window, of the user, of the
\* owner and of the workflow keeps it.
THEOREM DesktopInvariance == Spec => []Inv
<1>1. Inv /\ [Next]_vars => Inv'
  <2> SUFFICES ASSUME Inv, [Next]_vars PROVE Inv'
    OBVIOUS
  <2>1. FlowInv'
    BY FlowKeeps DEF Inv
  <2> QED BY <2>1, TypeKeeps, SessionMoves, SessionKeeps, OwnerKeeps, RowKeeps, AnswerKeeps DEF Inv
<1> QED BY InitHolds, <1>1, PTL DEF Spec

\* Whatever the user clicks, however often and however late, the elevated run is requested only
\* if the very first answer the window sent was the phrase, and a window has one effect at most.
THEOREM ConsentIsDecided == Spec => []ConsentDecides
<1>1. Inv => ConsentDecides
  BY DEF Inv, FlowInv, AnswerInv, ConsentDecides, FirstAnswerDecides, OneEffect, Operations
<1> QED BY <1>1, DesktopInvariance, PTL

\* The exit code of the command and the text of the window are both the outcome of the workflow.
THEOREM OutcomesAreTrue == Spec => []OutcomeIsTrue
<1>1. Inv => OutcomeIsTrue
  <2> SUFFICES ASSUME Inv PROVE OutcomeIsTrue
    OBVIOUS
  <2>1. WindowShowsOutcome
    BY DEF Inv, RowInv, RowTrue, WindowShowsOutcome
  <2>2. ExitCodeIsTrue
    <3>1. CASE ownerExit = NoCode
      BY <3>1 DEF ExitCodeIsTrue, NoCode, Unsettled
    <3>2. CASE ownerExit # NoCode
      <4>1. /\ pc \in {"idle", "settled"} /\ ownerExit = ExitOf(broken \/ wstate = "Crashed", code)
            /\ pc = "settled" => code = exit /\ exit \in {0, 1, 2, 3} /\ (exit = 3 => discardAttempted)
            /\ pc = "idle" => code = NoCode /\ calls["prepare"] = 0
            /\ calls \in [Operations -> {0, 1}]
            /\ discardAttempted => calls["discard"] = 1 /\ calls["run"] = 0
        BY <3>2 DEF Inv, OwnerInv, OwnerMayExit, SessionInv, FlowInv, Operations
      <4> QED BY <4>1 DEF ExitCodeIsTrue, ExitOf, NoCode, Unsettled
    <3> QED BY <3>1, <3>2
  <2> QED BY <2>1, <2>2 DEF OutcomeIsTrue
<1> QED BY <1>1, DesktopInvariance, PTL

\* If no message can fail inside a publish, a channel lost before the run never lets it start:
\* the preparation is finished and discarded.
THEOREM LostWindow == ASSUME EmitMayFail = FALSE PROVE Spec => LostWindowNeverRuns
<1>1. Inv /\ [Next]_vars => [~connected /\ ~runStarted => ~runStarted']_vars
  <2> SUFFICES ASSUME Inv, Next, ~connected, ~runStarted, runStarted' PROVE FALSE
    OBVIOUS
  <2>1. FlowInv'
    BY FlowKeeps DEF Inv
  <2>2. Resumes
    <3>1. ~SaysPreparing
      BY <2>1 DEF SaysPreparing, FlowInv
    <3>2. ~Prompts
      BY <2>1 DEF Prompts, FlowInv
    <3> QED BY <2>1, <3>1, <3>2, SessionMoves DEF SessionStep, SaysReady, SettlesSession, TakesFirst, LosesChannel, flowVars
  <2>3. Resolved /\ answer = Phrase
    BY <2>2 DEF Resumes
  <2>4. answer = NoAnswer
    BY <2>3 DEF Inv, SessionInv
  <2> QED BY <2>3, <2>4, AnswersAssumption
<1> QED BY <1>1, DesktopInvariance, PTL DEF Spec, LostWindowNeverRuns
=============================================================================
