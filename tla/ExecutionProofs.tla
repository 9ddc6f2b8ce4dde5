--------------------------- MODULE ExecutionProofs ---------------------------
(***************************************************************************)
(* What an implementation is told about its posts to a backend, and how    *)
(* long it may wait for it, proved for every maxRetryTime and any number   *)
(* of sends; and what is stored of an Execution and answered to the client *)
(* when it ends, for any number of failing saves.                          *)
(***************************************************************************)
EXTENDS Execution, TLAPS

\* LastPostDecides is not inductive: it says nothing of a post that is about to
\* be judged.  Then `failed' tells whether it was good, and only what failed is
\* tried again.
FlagsTell ==
    phase = "judging" => /\ last <=> ~flags.failed
                         /\ flags.retry => flags.failed

\* Nor is SleepBounded: the next sleep of the first send is one second longer
\* than all before it, and while there is one to come it is within the limit.
SleepsAdd ==
    /\ sleeptime \in Nat \ {0} /\ slept \in Nat /\ sends \in Nat
    /\ sends = 0 => phase = "idle" /\ sleeptime = 1
    /\ sends = 1 => /\ slept = sleeptime - 1
                    /\ phase \in {"posting", "judging"} =>
                          sleeptime = 1 \/ sleeptime <= MaxRetryTime

SendInv == LastPostDecides /\ FlagsTell /\ SleepBounded /\ SleepsAdd

\* A post makes the flags anew.
LEMMA PostKeeps ==
    ASSUME SendInv, Post
    PROVE  SendInv'
<1>1. PICK outcome \in Answers, match \in Matches :
        /\ flags' = Judged(outcome, match)
        /\ phase' = IF match = "unusable" THEN "threw" ELSE "judging"
        /\ last' = (outcome = "good" /\ match = "none")
  BY DEF Post
<1>2. /\ flags'.failed <=> outcome # "good" \/ match = "again"
      /\ flags'.retry <=> outcome = "busy" \/ match = "again"
  BY <1>1 DEF Judged
<1>3. last' <=> outcome = "good" /\ match = "none"
  BY <1>1
<1>4. phase' = IF match = "unusable" THEN "threw" ELSE "judging"
  BY <1>1
<1>5. LastPostDecides' /\ FlagsTell'
  BY <1>2, <1>3, <1>4 DEF LastPostDecides, FlagsTell, Matches
<1>6. SleepBounded' /\ SleepsAdd'
  BY <1>4 DEF SendInv, Post, SleepBounded, SleepsAdd
<1> QED BY <1>5, <1>6 DEF SendInv

\* A sleep doubles the next one; if that is too long there is no further try.
LEMMA RetryKeeps ==
    ASSUME SendInv, RetryHandling
    PROVE  SendInv'
<1>1. LastPostDecides' /\ FlagsTell'
  BY DEF SendInv, RetryHandling, LastPostDecides, FlagsTell
<1>2. /\ slept' = slept + sleeptime
      /\ sleeptime' = sleeptime * 2
      /\ sends' = sends
      /\ phase = "judging"
      /\ phase' = "posting" => sleeptime * 2 <= MaxRetryTime
      /\ phase' \in {"posting", "threw"}
  BY OutboundAssumption DEF SendInv, SleepsAdd, RetryHandling, OutOfTime
<1>3. SleepBounded' /\ SleepsAdd'
  BY <1>2, OutboundAssumption DEF SendInv, SleepBounded, SleepsAdd
<1> QED BY <1>1, <1>3 DEF SendInv

\* The steps of send and of its caller keep it.
LEMMA SendingKeeps ==
    ASSUME SendInv, CallSend \/ Post \/ RetryHandling \/ EndSend \/ AfterSend
    PROVE  SendInv'
<1> USE DEF SendInv, LastPostDecides, FlagsTell, SleepBounded, SleepsAdd
<1>1. CASE CallSend
  BY <1>1, OutboundAssumption DEF CallSend
<1>2. CASE EndSend
  BY <1>2 DEF EndSend
<1>3. CASE AfterSend
  BY <1>3 DEF AfterSend
<1> QED BY <1>1, <1>2, <1>3, PostKeeps, RetryKeeps

\* A step outside of send leaves the object alone, or leaves send for good.
LEMMA OutsideKeeps ==
    ASSUME SendInv,
           \/ UNCHANGED phase
           \/ phase' = "idle",
           UNCHANGED <<flags, sleeptime, sends, slept, last>>
    PROVE  SendInv'
BY DEF SendInv, LastPostDecides, FlagsTell, SleepBounded, SleepsAdd

\* The invariant holds however the process goes on, is interrupted or killed.
LEMMA SendInvariance == Spec => []SendInv
<1>1. Init => SendInv
  BY OutboundAssumption
  DEF Init, OutboundInit, SendInv, LastPostDecides, FlagsTell, SleepBounded, SleepsAdd
<1>2. SendInv /\ [Next]_allVars => SendInv'
  <2> SUFFICES ASSUME SendInv, [Next]_allVars PROVE SendInv'
    OBVIOUS
  <2>1. CASE Sending
    BY <2>1, SendingKeeps DEF Sending
  <2>2. CASE Refuse \/ SaveStarted \/ Execute \/ SetResponse \/ Return \/ Finish \/ Handle
    BY <2>2, OutsideKeeps
    DEF Refuse, SaveStarted, Execute, SetResponse, Return, Finish, Handle, outboundVars
  <2>3. CASE Throw \/ Warning
    BY <2>3, OutsideKeeps DEF Throw, Warning, AfterSend, outboundVars
  <2>4. CASE Answer \/ RunEnds \/ Exit \/ Shutdown
    BY <2>4, OutsideKeeps DEF Answer, RunEnds, Exit, Shutdown, outboundVars
  <2>5. CASE Die("error") \/ Die("fatal") \/ Kill
    BY <2>5, OutsideKeeps DEF Die, Kill
  <2>6. CASE UNCHANGED allVars
    BY <2>6, OutsideKeeps DEF allVars, outboundVars
  <2> QED BY <2>1, <2>2, <2>3, <2>4, <2>5, <2>6 DEF Next, Step
<1> QED BY <1>1, <1>2, PTL DEF Spec

\* send returns only what was answered well and throws only what was not,
\* whatever is tried again, reused, interrupted or killed.
THEOREM SendTells == Spec => []LastPostDecides
<1>1. SendInv => LastPostDecides
  BY DEF SendInv
<1> QED BY <1>1, SendInvariance, PTL

\* The first send of an object sleeps less than twice maxRetryTime, or a second.
THEOREM SendWaits == Spec => []SleepBounded
<1>1. SendInv => SleepBounded
  BY DEF SendInv
<1> QED BY <1>1, SendInvariance, PTL

-----------------------------------------------------------------------------
(* The end of an Execution.  What the collection says when the process is  *)
(* over was decided on the way there: the invariant says for each place of *)
(* the process what has been saved, and under which flags.                 *)

\* Where the process is tells what it has done.
PathTells ==
    /\ pc = "new" => exec = NoExecution /\ stored = NoExecution
    /\ pc \in {"new", "saved", "executing"} => ~returned
    /\ pc = "saved" => stored.status = "STARTED"
    /\ pc = "executing" => current
    /\ pc = "returned" => returned
    /\ pc \in {"handling", "unwinding"} => thrown # "none"
    /\ pc = "handling" /\ thrown = "Haltable" => ~returned
    /\ pc = "shutdown" => ending \in {"normal", "exit"}
    /\ pc = "fatal" => ending \in {"error", "fatal"}
    /\ pc \notin {"shutdown", "fatal", "over"} => ending = "normal"
    /\ answer.code # 0 => pc \in {"shutdown", "over"}

\* What is stored was put there on the way to where the process is.
StoredTells ==
    /\ stored.status = "DONE" => returned /\ pc \in {"ended", "shutdown", "over"}
    /\ stored.status = "HALTED" =>
          /\ thrown = "Haltable" /\ ~warned /\ ~returned
          /\ pc \in {"unwinding", "shutdown", "fatal", "over"}
    /\ stored.status = "STARTED" =>
          \/ pc \in {"saved", "executing", "returned", "handling"}
          \/ faults > 0
          \/ ending \in {"killed", "exit", "fatal"}
          \/ ending = "error" /\ (pc = "fatal" \/ ~current)

\* What is answered is what is stored, unless a save has failed.
AnswerReady ==
    /\ pc = "ended" => stored = exec /\ exec.status = "DONE" /\ exec.response # "none"
    /\ pc \in {"saved", "executing", "returned", "ended"} /\ exec.response = "error" => warned
    /\ pc = "unwinding" /\ faults = 0 =>
          /\ stored = exec
          /\ \/ exec = NoExecution /\ thrown \in {"InvalidCredentials", "Gen", "Other"}
             \/ exec.status = "HALTED" /\ exec.errorCode = 412
             \/ exec.status = "ERROR" /\ exec.errorCode \in {400, 500}

EndInv == ExecutionTypeOK /\ PathTells /\ StoredTells /\ AnswerReady /\ AnswerTells

Statuses == {"none", "STARTED", "DONE", "ERROR", "HALTED"}
ErrorCodes == {0, 400, 412, 500}
Responses == {"none", "own", "default", "error"}

\* The type of an Execution, and values of its fields.
LEMMA ExecutionType ==
    /\ Executions = [status : Statuses, errorCode : ErrorCodes, response : Responses]
    /\ "STARTED" \in Statuses /\ "DONE" \in Statuses /\ "ERROR" \in Statuses
    /\ "HALTED" \in Statuses
    /\ 500 \in ErrorCodes
    /\ "own" \in Responses /\ "default" \in Responses /\ "error" \in Responses
BY DEF Executions, Statuses, ErrorCodes, Responses

\* An Execution marked by an error handler.
LEMMA FailedFacts ==
    ASSUME NEW e \in Executions, NEW class \in Classes, NEW code \in ErrorCodes
    PROVE  /\ Failed(e, class, code) \in Executions
           /\ Failed(e, class, code).status =
                 IF class = "Haltable" THEN "HALTED" ELSE "ERROR"
           /\ Failed(e, class, code).errorCode = code
           /\ Failed(e, class, code).response = "error"
<1> DEFINE status == IF class = "Haltable" THEN "HALTED" ELSE "ERROR"
<1>1. status \in Statuses
  BY ExecutionType
<1> HIDE DEF status
<1>2. Failed(e, class, code)
         = [e EXCEPT !.status = status, !.errorCode = code, !.response = "error"]
  BY DEF Failed, status
<1>3. [e EXCEPT !.status = status, !.errorCode = code, !.response = "error"] \in Executions
  BY ZenonT(30), <1>1, ExecutionType
<1>4. /\ Failed(e, class, code).status = status
      /\ Failed(e, class, code).errorCode = code
      /\ Failed(e, class, code).response = "error"
  BY <1>2, ExecutionType
<1> QED
  BY <1>2, <1>3, <1>4 DEF status

\* The codes of exceptions.
LEMMA CodeFacts ==
    ASSUME NEW class \in Classes
    PROVE  /\ CodeFor(class) \in ErrorCodes \ {0}
           /\ CodeFor(class) = 412 <=> class = "Haltable"
           /\ ResponseCodeFor(class) \in {400, 401, 412, 500, 501}
           /\ ResponseCodeFor(class) = 412 <=> class = "Haltable"
BY DEF CodeFor, ResponseCodeFor, Classes, ErrorCodes

\* What the sender's object is does not change while nobody uses it.
LEMMA SenderKept ==
    ASSUME OutboundTypeOK, UNCHANGED outboundVars
    PROVE  OutboundTypeOK'
BY DEF OutboundTypeOK, outboundVars

\* The steps of send keep the types of its object.
LEMMA SendTypes ==
    ASSUME OutboundTypeOK, CallSend \/ Post \/ RetryHandling \/ EndSend \/ AfterSend
    PROVE  OutboundTypeOK'
<1> USE DEF OutboundTypeOK
<1>1. CASE CallSend
  <2>1. sends + 1 \in 0 .. MaxSends
    BY <1>1, OutboundAssumption DEF CallSend
  <2> QED
    BY <1>1, <2>1 DEF CallSend
<1>2. CASE Post
  BY <1>2 DEF Post, Judged, Answers, Matches
<1>3. CASE RetryHandling
  <2>1. sleeptime' \in Nat \ {0} /\ slept' \in Nat
    BY <1>3 DEF RetryHandling
  <2>2. \/ flags' = [failed |-> TRUE, retry |-> FALSE]
        \/ flags' = flags
    BY <1>3 DEF RetryHandling
  <2>3. flags' \in [failed : BOOLEAN, retry : BOOLEAN]
    <3>1. CASE flags' = [failed |-> TRUE, retry |-> FALSE]
      BY <3>1
    <3>2. CASE flags' = flags
      BY <3>2
    <3> QED BY <2>2, <3>1, <3>2
  <2>4. phase' \in {"posting", "threw"} /\ UNCHANGED <<sends, last>>
    BY <1>3 DEF RetryHandling
  <2> QED
    BY <2>1, <2>3, <2>4
<1>4. CASE EndSend \/ AfterSend
  BY <1>4 DEF EndSend, AfterSend
<1> QED BY <1>1, <1>2, <1>3, <1>4

\* A step that is only the sender's changes nothing that is stored or answered.
LEMMA SendingEnds ==
    ASSUME EndInv, Sending
    PROVE  EndInv'
<1>1. OutboundTypeOK'
  BY SendTypes DEF EndInv, ExecutionTypeOK, Sending
<1>2. current /\ UNCHANGED execVars
  BY DEF EndInv, PathTells, Sending
<1>3. ExecutionTypeOK'
  BY <1>1, <1>2 DEF EndInv, ExecutionTypeOK, execVars
<1> QED BY <1>2, <1>3 DEF EndInv, execVars, PathTells, StoredTells, AnswerReady, AnswerTells

\* No Execution comes about.
LEMMA RefuseEnds ==
    ASSUME EndInv, Refuse
    PROVE  EndInv'
<1>1. ExecutionTypeOK'
  BY SenderKept DEF EndInv, ExecutionTypeOK, Refuse, Pcs, Classes, outboundVars
<1> QED
  BY <1>1 DEF EndInv, Refuse, PathTells, StoredTells, AnswerReady, AnswerTells, NoExecution

\* The first save, successful or not.
LEMMA SaveStartedEnds ==
    ASSUME EndInv, SaveStarted
    PROVE  EndInv'
<1> DEFINE started == [exec EXCEPT !.status = "STARTED"]
           failed == [exec EXCEPT !.status = "ERROR", !.errorCode = 500]
<1>1. exec = NoExecution /\ stored = NoExecution /\ ~current /\ ~returned
  BY DEF EndInv, SaveStarted, PathTells, ExecutionTypeOK, NoExecution
<1>2. /\ started \in Executions /\ started.status = "STARTED" /\ started.response = "none"
      /\ failed \in Executions /\ failed.status = "ERROR"
  <2>1. exec \in Executions
    BY DEF EndInv, ExecutionTypeOK
  <2>2. started \in Executions
    BY <2>1, ExecutionType
  <2>3. failed \in Executions
    BY ZenonT(60), <2>1, ExecutionType
  <2>4. started.status = "STARTED" /\ started.response = exec.response /\ failed.status = "ERROR"
    BY <2>1 DEF Executions
  <2> QED
    BY <1>1, <2>2, <2>3, <2>4 DEF NoExecution
<1> HIDE DEF started, failed
<1>3. CASE Saved(started) /\ exec' = started /\ pc' = "saved" /\ UNCHANGED thrown
  <2>1. ExecutionTypeOK'
    BY <1>1, <1>2, <1>3, SenderKept
    DEF EndInv, ExecutionTypeOK, SaveStarted, Saved, Pcs, outboundVars
  <2> QED
    BY <1>1, <1>2, <1>3, <2>1
    DEF EndInv, SaveStarted, Saved, PathTells, StoredTells, AnswerReady, AnswerTells
<1>4. CASE NotSaved /\ exec' = failed /\ thrown' = "Other" /\ pc' = "unwinding"
  <2>1. ExecutionTypeOK' /\ faults' > 0
    BY <1>1, <1>2, <1>4, ExecutionAssumption, SenderKept
    DEF EndInv, ExecutionTypeOK, SaveStarted, NotSaved, Pcs, Classes, outboundVars
  <2> QED
    BY <1>1, <1>2, <1>4, <2>1
    DEF EndInv, SaveStarted, NotSaved, PathTells, StoredTells, AnswerReady, AnswerTells,
        NoExecution
<1> QED BY <1>3, <1>4 DEF SaveStarted, started, failed

\* Between the saves: execute() is called, sets a response, throws or returns.
LEMMA ExecutingEnds ==
    ASSUME EndInv, Execute \/ SetResponse \/ Throw \/ Return
    PROVE  EndInv'
<1>1. OutboundTypeOK'
  <2>1. Execute \/ SetResponse \/ Return => UNCHANGED outboundVars
    BY DEF Execute, SetResponse, Return
  <2>2. Throw => UNCHANGED outboundVars \/ AfterSend
    BY DEF Throw
  <2> QED
    BY <2>1, <2>2, SenderKept, SendTypes DEF EndInv, ExecutionTypeOK
<1>2. CASE Execute
  BY <1>1, <1>2
  DEF EndInv, ExecutionTypeOK, Execute, Pcs, PathTells, StoredTells, AnswerReady, AnswerTells
<1>3. CASE SetResponse
  <2>1. exec' \in Executions /\ exec'.response = "own"
    BY <1>3, ExecutionType DEF SetResponse, EndInv, ExecutionTypeOK
  <2> QED
    BY <1>1, <1>3, <2>1
    DEF EndInv, ExecutionTypeOK, SetResponse, InImplementation, outboundVars, PathTells,
        StoredTells, AnswerReady, AnswerTells
<1>4. CASE Throw
  <2>1. /\ pc = "executing" /\ pc' = "handling" /\ current
        /\ thrown' \in Classes /\ thrown' # "none"
        /\ UNCHANGED <<kind, exec, stored, current, answer, returned, warned, faults, ending>>
    BY <1>4 DEF Throw, Classes, EndInv, PathTells
  <2> QED
    BY <1>1, <2>1
    DEF EndInv, ExecutionTypeOK, Pcs, PathTells, StoredTells, AnswerReady, AnswerTells
<1>5. CASE Return
  BY ZenonT(30), <1>1, <1>5
  DEF EndInv, ExecutionTypeOK, Return, InImplementation, outboundVars, Pcs, PathTells,
      StoredTells, AnswerReady, AnswerTells
<1> QED BY <1>2, <1>3, <1>4, <1>5

\* A step outside of send whose process keeps its sender.
LEMMA TypesKept ==
    ASSUME ExecutionTypeOK, UNCHANGED <<outboundVars, kind>>,
           pc' \in Pcs, exec' \in Executions, stored' \in Executions,
           thrown' \in Classes \cup {"none"}, answer' \in AnswersGiven \cup {NoAnswer},
           warned' \in BOOLEAN, faults' \in 0 .. MaxFaults,
           UNCHANGED <<current, returned, ending>>,
           current => stored'.status # "none"
    PROVE  ExecutionTypeOK'
BY SenderKept DEF ExecutionTypeOK, outboundVars

\* A save that fails is one of the faults.
LEMMA NotSavedFaults ==
    ASSUME ExecutionTypeOK, NotSaved
    PROVE  faults' \in 0 .. MaxFaults /\ faults' > 0 /\ stored' = stored
BY ExecutionAssumption DEF ExecutionTypeOK, NotSaved

\* The second save.
LEMMA FinishEnds ==
    ASSUME EndInv, Finish
    PROVE  EndInv'
<1> DEFINE resp == IF exec.response = "none" THEN "default" ELSE exec.response
           done == [exec EXCEPT !.status = "DONE", !.response = resp]
<1>1. exec \in Executions /\ resp \in Responses /\ resp # "none"
      /\ (resp = "error" => exec.response = "error")
  BY ExecutionType DEF EndInv, ExecutionTypeOK
<1> HIDE DEF resp
<1>2. done \in Executions /\ done.status = "DONE" /\ done.response = resp
  BY ZenonT(30), <1>1, ExecutionType
<1>3. /\ pc = "returned" /\ returned /\ ~current
      /\ exec' = done
      /\ UNCHANGED <<outboundVars, kind, current, answer, returned, warned, ending>>
  BY DEF Finish, EndInv, PathTells, ExecutionTypeOK, resp
<1>4. CASE Saved(done) /\ pc' = "ended" /\ UNCHANGED thrown
  <2> HIDE DEF done
  <2>1. ExecutionTypeOK'
    BY <1>2, <1>3, <1>4, TypesKept DEF EndInv, ExecutionTypeOK, Saved, Pcs
  <2> QED
    BY <1>1, <1>2, <1>3, <1>4, <2>1
    DEF EndInv, Saved, PathTells, StoredTells, AnswerReady, AnswerTells
<1>5. CASE NotSaved /\ pc' = "handling" /\ thrown' = "Other"
  <2> HIDE DEF done
  <2>1. faults' \in 0 .. MaxFaults /\ faults' > 0 /\ stored' = stored
    BY <1>5, NotSavedFaults DEF EndInv
  <2>2. ExecutionTypeOK'
    BY <1>2, <1>3, <1>5, <2>1, TypesKept DEF EndInv, ExecutionTypeOK, Pcs, Classes
  <2> QED
    BY <1>2, <1>3, <1>5, <2>1, <2>2
    DEF EndInv, PathTells, StoredTells, AnswerReady, AnswerTells
<1> QED BY <1>4, <1>5 DEF Finish, resp

\* start's catch blocks.
LEMMA HandleEnds ==
    ASSUME EndInv, Handle
    PROVE  EndInv'
<1> DEFINE f == Failed(exec, thrown, CodeFor(thrown))
<1>1. thrown \in Classes /\ exec \in Executions
  BY DEF EndInv, ExecutionTypeOK, Handle, PathTells
<1>2. CodeFor(thrown) \in ErrorCodes \ {0} /\ (CodeFor(thrown) = 412 <=> thrown = "Haltable")
  BY <1>1, CodeFacts
<1>3. /\ f \in Executions
      /\ f.status = IF thrown = "Haltable" THEN "HALTED" ELSE "ERROR"
      /\ f.errorCode = CodeFor(thrown)
  BY <1>1, <1>2, FailedFacts
<1>4. f.errorCode \in {400, 412, 500} /\ (f.errorCode = 412 <=> f.status = "HALTED")
      /\ f.status \in {"HALTED", "ERROR"} /\ (f.status = "HALTED" <=> thrown = "Haltable")
  BY <1>2, <1>3 DEF ErrorCodes
<1>5. /\ pc = "handling" /\ pc' = "unwinding" /\ exec' = f /\ ~warned' /\ warned' \in BOOLEAN
      /\ (thrown = "Haltable" => ~returned)
      /\ UNCHANGED <<outboundVars, kind, current, answer, returned, ending>>
  BY DEF Handle, EndInv, PathTells
<1>6. CASE Saved(exec') /\ UNCHANGED thrown
  <2> HIDE DEF f
  <2>1. ExecutionTypeOK'
    BY <1>1, <1>3, <1>4, <1>5, <1>6, TypesKept DEF EndInv, ExecutionTypeOK, Saved, Pcs
  <2> QED
    BY <1>1, <1>4, <1>5, <1>6, <2>1
    DEF EndInv, Saved, PathTells, StoredTells, AnswerReady, AnswerTells, Classes
<1>7. CASE NotSaved /\ thrown' = "Other"
  <2> HIDE DEF f
  <2>1. faults' \in 0 .. MaxFaults /\ faults' > 0 /\ stored' = stored
    BY <1>7, NotSavedFaults DEF EndInv
  <2>2. ExecutionTypeOK'
    BY <1>3, <1>5, <1>7, <2>1, TypesKept DEF EndInv, ExecutionTypeOK, Pcs, Classes
  <2> QED
    BY <1>5, <1>7, <2>1, <2>2
    DEF EndInv, PathTells, StoredTells, AnswerReady, AnswerTells
<1> QED BY <1>6, <1>7 DEF Handle

\* An error handler marks the Execution, or its save throws in execute().
LEMMA WarningEnds ==
    ASSUME EndInv, Warning
    PROVE  EndInv'
<1> DEFINE f == Failed(exec, "Other", 500)
<1>1. /\ f \in Executions /\ f.status = "ERROR" /\ f.errorCode = 500
  BY ExecutionType, FailedFacts DEF EndInv, ExecutionTypeOK, Classes
<1>2. /\ current /\ ~returned /\ exec' = f /\ warned' /\ warned' \in BOOLEAN
      /\ pc \in {"executing", "unwinding", "shutdown"}
      /\ UNCHANGED <<kind, current, answer, returned, ending>>
  BY DEF Warning, EndInv, ExecutionTypeOK
<1> HIDE DEF f
<1>3. CASE Saved(exec') /\ UNCHANGED <<pc, thrown, outboundVars>>
  <2>1. ExecutionTypeOK'
    BY <1>1, <1>2, <1>3, TypesKept DEF EndInv, ExecutionTypeOK, Saved
  <2> QED
    BY <1>1, <1>2, <1>3, <2>1
    DEF EndInv, ExecutionTypeOK, Saved, PathTells, StoredTells, AnswerReady, AnswerTells
<1>4. CASE /\ pc = "executing" /\ NotSaved
           /\ pc' = "handling" /\ thrown' = "Other"
           /\ phase' = "idle" /\ UNCHANGED <<flags, sleeptime, sends, slept, last>>
  <2>1. faults' \in 0 .. MaxFaults /\ faults' > 0 /\ stored' = stored
    BY <1>4, NotSavedFaults DEF EndInv
  <2>2. OutboundTypeOK'
    BY <1>4 DEF EndInv, ExecutionTypeOK, OutboundTypeOK
  <2>3. ExecutionTypeOK'
    BY <1>1, <1>2, <1>4, <2>1, <2>2 DEF EndInv, ExecutionTypeOK, Pcs, Classes
  <2> QED
    BY <1>1, <1>2, <1>4, <2>1, <2>3
    DEF EndInv, PathTells, StoredTells, AnswerReady, AnswerTells
<1> QED BY <1>3, <1>4 DEF Warning, f

\* What is answered when start has returned, and when an exception has come up.
LEMMA AnswerFacts ==
    ASSUME EndInv, Answer
    PROVE  /\ answer' \in AnswersGiven
           /\ pc = "ended" => answer' = [code |-> 200, body |-> exec.response]
           /\ pc = "unwinding" =>
                 /\ answer'.code # 200 /\ answer'.body = "error"
                 /\ faults = 0 /\ exec # NoExecution => answer'.code = exec.errorCode
                 /\ exec.errorCode = 0 => answer'.code = ResponseCodeFor(thrown)
<1>1. exec \in Executions
  BY DEF EndInv, ExecutionTypeOK
<1>2. CASE pc = "ended"
  <2>1. exec.response \in {"own", "default", "error"}
    BY <1>1, <1>2 DEF Executions, EndInv, AnswerReady
  <2>2. answer' = [code |-> 200, body |-> exec.response]
    BY <1>2 DEF Answer
  <2>3. answer' \in AnswersGiven
    BY <2>1, <2>2 DEF AnswersGiven
  <2> QED
    BY <1>2, <2>2, <2>3
<1>3. CASE pc = "unwinding"
  <2> DEFINE c == CodeAnswered(exec, thrown)
  <2>1. thrown \in Classes /\ exec.errorCode \in {0, 400, 412, 500}
    BY <1>1, <1>3 DEF EndInv, ExecutionTypeOK, PathTells, Executions
  <2>2. ResponseCodeFor(thrown) \in {400, 401, 412, 500, 501}
    BY <2>1, CodeFacts
  <2>3. /\ c \in {400, 401, 412, 500, 501}
        /\ exec.errorCode # 0 => c = exec.errorCode
        /\ exec.errorCode = 0 => c = ResponseCodeFor(thrown)
    BY <2>1, <2>2 DEF CodeAnswered
  <2> HIDE DEF c
  <2>4. answer' = [code |-> c, body |-> "error"]
    BY <1>3 DEF Answer, c
  <2>5. answer' \in AnswersGiven
    BY <2>3, <2>4 DEF AnswersGiven
  <2>6. faults = 0 /\ exec # NoExecution => exec.errorCode # 0
    BY <1>3 DEF EndInv, AnswerReady
  <2> QED
    BY <1>3, <2>3, <2>4, <2>5, <2>6
<1> QED BY <1>2, <1>3 DEF Answer

\* A client is answered.
LEMMA AnswerEnds ==
    ASSUME EndInv, Answer
    PROVE  EndInv'
<1>1. /\ pc \in {"ended", "unwinding"} /\ pc' = "shutdown" /\ ending = "normal"
      /\ UNCHANGED <<outboundVars, kind, exec, stored, current, thrown, returned,
                     warned, faults, ending>>
  BY DEF Answer, EndInv, PathTells
<1>2. ExecutionTypeOK'
  BY <1>1, AnswerFacts, TypesKept DEF EndInv, ExecutionTypeOK, Pcs
<1>3. PathTells' /\ StoredTells' /\ AnswerReady'
  BY <1>1 DEF EndInv, PathTells, StoredTells, AnswerReady
<1>4. AnswerTells'
  <2>1. CASE pc = "ended"
    <3>1. answer'.code = 200 /\ answer'.body = exec.response
      BY <2>1, AnswerFacts
    <3> QED
      BY <1>1, <2>1, <3>1 DEF EndInv, AnswerTells, AnswerReady
  <2>2. CASE pc = "unwinding"
    <3>1. answer'.code # 200 /\ answer'.body = "error" /\ stored.status # "DONE"
      BY <2>2, AnswerFacts DEF EndInv, StoredTells
    <3>2. CASE faults = 0 /\ exec # NoExecution
      BY <1>1, <2>2, <3>1, <3>2, AnswerFacts DEF EndInv, AnswerTells, AnswerReady
    <3>3. CASE faults = 0 /\ exec = NoExecution
      <4>1. /\ exec.errorCode = 0 /\ stored.status = "none"
            /\ thrown \in {"InvalidCredentials", "Gen", "Other"}
        BY <2>2, <3>3 DEF EndInv, AnswerReady, NoExecution
      <4>2. answer'.code # 412
        BY <2>2, <4>1, AnswerFacts, CodeFacts DEF Classes
      <4> QED
        BY <1>1, <3>1, <4>1, <4>2 DEF AnswerTells
    <3>4. CASE faults # 0
      BY <1>1, <3>1, <3>4 DEF AnswerTells
    <3> QED BY <3>2, <3>3, <3>4
  <2> QED BY <1>1, <2>1, <2>2
<1> QED BY <1>2, <1>3, <1>4 DEF EndInv

\* The process ends without an answer, or is interrupted.
LEMMA InterruptedEnds ==
    ASSUME EndInv, RunEnds \/ Exit \/ Die("error") \/ Die("fatal") \/ Kill
    PROVE  EndInv'
<1>1. /\ pc' \in {"shutdown", "fatal", "over"}
      /\ UNCHANGED <<kind, exec, stored, current, thrown, answer, returned, warned, faults>>
  BY DEF RunEnds, Exit, Die, Kill
<1>2. OutboundTypeOK' /\ (phase' # "idle" => phase # "idle")
  <2>1. CASE RunEnds \/ Exit
    BY <2>1, SenderKept DEF RunEnds, Exit, EndInv, ExecutionTypeOK, outboundVars
  <2>2. CASE Die("error") \/ Die("fatal") \/ Kill
    BY <2>2 DEF Die, Kill, EndInv, ExecutionTypeOK, OutboundTypeOK
  <2> QED BY <2>1, <2>2
<1>3. ending' \in {"normal", "exit", "error", "fatal", "killed"}
  BY DEF RunEnds, Exit, Die, Kill, EndInv, ExecutionTypeOK
<1>4. ExecutionTypeOK'
  BY <1>1, <1>2, <1>3 DEF EndInv, ExecutionTypeOK, Pcs
<1>5. AnswerReady'
  BY <1>1 DEF EndInv, AnswerReady
<1>6. AnswerTells'
  BY <1>1 DEF EndInv, AnswerTells
<1>7. PathTells'
  BY <1>1 DEF EndInv, PathTells, RunEnds, Exit, InImplementation, Die, Kill
<1>8. StoredTells'
  <2>1. CASE RunEnds
    BY <2>1 DEF EndInv, StoredTells, PathTells, RunEnds
  <2>2. CASE Exit
    BY <2>2 DEF EndInv, StoredTells, PathTells, Exit, InImplementation
  <2>3. CASE Die("error") \/ Die("fatal")
    BY <2>3 DEF EndInv, StoredTells, PathTells, Die
  <2>4. CASE Kill
    BY <2>4 DEF EndInv, StoredTells, PathTells, Kill
  <2> QED BY <2>1, <2>2, <2>3, <2>4
<1> QED BY <1>4, <1>5, <1>6, <1>7, <1>8 DEF EndInv

\* The shutdown function: finalizeRun may fail, and a fatal error is marked.
LEMMA ShutdownEnds ==
    ASSUME EndInv, Shutdown
    PROVE  EndInv'
<1> DEFINE f == Failed(exec, "Other", 500)
           marks == ending = "error" /\ current
<1>1. f \in Executions /\ f.status = "ERROR"
  BY ExecutionType, FailedFacts DEF EndInv, ExecutionTypeOK, Classes
<1>2. /\ pc \in {"shutdown", "fatal"} /\ pc' = "over"
      /\ UNCHANGED <<outboundVars, kind, current, thrown, answer, returned, ending>>
      /\ ending = "error" => answer.code = 0
  BY DEF Shutdown, EndInv, PathTells
<1> HIDE DEF f
<1>3. CASE marks /\ exec' = f /\ Saved(exec') /\ warned' = TRUE
  <2>1. ExecutionTypeOK'
    BY <1>1, <1>2, <1>3, TypesKept DEF EndInv, ExecutionTypeOK, Saved, Pcs
  <2> QED
    BY <1>1, <1>2, <1>3, <2>1
    DEF EndInv, Saved, PathTells, StoredTells, AnswerReady, AnswerTells
<1>4. CASE exec' \in {exec, f} /\ NotSaved /\ UNCHANGED warned
  <2>1. faults' \in 0 .. MaxFaults /\ faults' > 0 /\ stored' = stored
    BY <1>4, NotSavedFaults DEF EndInv
  <2>2. ExecutionTypeOK'
    BY <1>1, <1>2, <1>4, <2>1, TypesKept DEF EndInv, ExecutionTypeOK, Pcs
  <2> QED
    BY <1>2, <1>4, <2>1, <2>2
    DEF EndInv, PathTells, StoredTells, AnswerReady, AnswerTells
<1>5. CASE ~marks /\ UNCHANGED <<exec, stored, warned, faults>>
  <2>1. ExecutionTypeOK'
    BY <1>2, <1>5, TypesKept DEF EndInv, ExecutionTypeOK, Pcs
  <2> QED
    BY <1>2, <1>5, <2>1
    DEF EndInv, PathTells, StoredTells, AnswerReady, AnswerTells
<1> QED BY <1>3, <1>4, <1>5 DEF Shutdown, f

\* The invariant holds on every way an Execution may go.
LEMMA EndInvariance == Spec => []EndInv
<1>1. Init => EndInv
  <2> SUFFICES ASSUME Init PROVE EndInv
    OBVIOUS
  <2>1. NoExecution \in Executions /\ NoExecution.status = "none"
    BY DEF NoExecution, Executions
  <2>2. OutboundTypeOK
    <3>1. flags \in [failed : BOOLEAN, retry : BOOLEAN]
      BY DEF Init, OutboundInit
    <3>2. sleeptime \in Nat \ {0} /\ sends \in 0 .. MaxSends /\ slept \in Nat
      BY OutboundAssumption DEF Init, OutboundInit
    <3> QED
      BY <3>1, <3>2 DEF Init, OutboundInit, OutboundTypeOK
  <2>3. ExecutionTypeOK
    <3>1. faults \in 0 .. MaxFaults
      BY ExecutionAssumption DEF Init
    <3>2. answer \in AnswersGiven \cup {NoAnswer} /\ pc \in Pcs /\ kind \in {"sync", "run"}
      BY DEF Init, Pcs
    <3> QED
      BY <2>1, <2>2, <3>1, <3>2 DEF Init, OutboundInit, ExecutionTypeOK
  <2> QED
    BY <2>1, <2>3 DEF Init, EndInv, PathTells, StoredTells, AnswerReady, AnswerTells, NoAnswer
<1>2. EndInv /\ [Next]_allVars => EndInv'
  <2> SUFFICES ASSUME EndInv, [Next]_allVars PROVE EndInv'
    OBVIOUS
  <2>1. CASE Refuse \/ SaveStarted \/ Execute \/ SetResponse \/ Sending \/ Throw \/ Return
    BY <2>1, RefuseEnds, SaveStartedEnds, ExecutingEnds, SendingEnds
  <2>2. CASE Finish \/ Handle \/ Warning \/ Answer \/ RunEnds \/ Exit \/ Shutdown
    BY <2>2, FinishEnds, HandleEnds, WarningEnds, AnswerEnds, InterruptedEnds, ShutdownEnds
  <2>3. CASE Die("error") \/ Die("fatal") \/ Kill
    BY <2>3, InterruptedEnds
  <2>4. CASE UNCHANGED allVars
    <3>1. ExecutionTypeOK'
      BY <2>4, SenderKept DEF EndInv, ExecutionTypeOK, allVars, execVars, outboundVars
    <3> QED
      BY <2>4, <3>1
      DEF EndInv, PathTells, StoredTells, AnswerReady, AnswerTells, allVars, execVars
  <2> QED BY <2>1, <2>2, <2>3, <2>4 DEF Next, Step
<1> QED BY <1>1, <1>2, PTL DEF Spec

\* Whatever fails, is warned of or is interrupted: what the collection says of an
\* Execution whose process is over is how execute() ended, and only a kill, an
\* exit, a fatal error or a failed save leaves one that says STARTED.
THEOREM EndTells == Spec => []ExecutionInv
<1>1. EndInv => ExecutionInv
  BY DEF EndInv, ExecutionInv, EndIsStored, StoredTells
<1> QED BY <1>1, EndInvariance, PTL

\* The client is answered what is stored, with any number of failing saves.
THEOREM ClientKnows == Spec => []AnswerTells
<1>1. EndInv => AnswerTells
  BY DEF EndInv
<1> QED BY <1>1, EndInvariance, PTL
=============================================================================
