------------------------------ MODULE Execution ------------------------------
(***************************************************************************)
(* One PHP process that executes an implementation, in the API for a       *)
(* synchronous request or as a Run: Execution::start, the ways it ends,    *)
(* the handlers of errors and of the shutdown, and what is answered.       *)
(*                                                                         *)
(* The document in the executions collection is what is left when the      *)
(* process is gone; nothing looks for one that was left behind.            *)
(***************************************************************************)
EXTENDS Outbound

CONSTANT
    MaxFaults   \* bound: saves the database refuses

ASSUME ExecutionAssumption == MaxFaults \in Nat

VARIABLES
    kind,       \* who executes: "sync" (MainAPI) or "run" (Run)
    pc,         \* where the process is
    exec,       \* the Execution object
    stored,     \* its document
    current,    \* it is currentlyExecutedExecution of the session
    thrown,     \* the exception on its way, or "none"
    answer,     \* what the API answered
    returned,   \* history: execute() returned
    warned,     \* history: an error handler marked it, since what was thrown
    faults,     \* history: operations of the database that failed
    ending      \* history: how the process ended, "normal" if on its own

execVars == <<kind, pc, exec, stored, current, thrown, answer, returned, warned, faults, ending>>
allVars == <<execVars, outboundVars>>

Pcs == {"new", "saved", "executing", "returned", "handling", "unwinding",
        "ended", "shutdown", "fatal", "over"}

\* Classes of exceptions: HaltableException, GenericImplementationException and
\* InvalidCredentialsException are GenExceptions.
Classes == {"Haltable", "GenericImplementation", "InvalidCredentials", "Gen", "Other"}

NoExecution == [status |-> "none", errorCode |-> 0, response |-> "none"]

Executions ==
    [status : {"none", "STARTED", "DONE", "ERROR", "HALTED"},
     errorCode : {0, 400, 412, 500},
     response : {"none", "own", "default", "error"}]

AnswersGiven == [code : {200, 400, 401, 412, 500, 501}, body : {"own", "default", "error"}]

NoAnswer == [code |-> 0, body |-> "none"]

ExecutionTypeOK ==
    /\ OutboundTypeOK
    /\ kind \in {"sync", "run"}
    /\ pc \in Pcs
    /\ exec \in Executions /\ stored \in Executions
    /\ current \in BOOLEAN
    /\ thrown \in Classes \cup {"none"}
    /\ answer \in AnswersGiven \cup {NoAnswer}
    /\ returned \in BOOLEAN /\ warned \in BOOLEAN
    /\ faults \in 0 .. MaxFaults
    /\ ending \in {"normal", "exit", "error", "fatal", "killed"}
    /\ current => stored.status # "none" /\ ~returned
    /\ phase # "idle" => current

Init ==
    /\ OutboundInit
    /\ kind \in {"sync", "run"}
    /\ pc = "new"
    /\ exec = NoExecution
    /\ stored = NoExecution
    /\ current = FALSE
    /\ thrown = "none"
    /\ answer = NoAnswer
    /\ returned = FALSE
    /\ warned = FALSE
    /\ faults = 0
    /\ ending = "normal"

-----------------------------------------------------------------------------
(* Saving and the handlers of errors.                                      *)

\* saveToDB of e, or not: the database may fail.
Saved(e) == stored' = e /\ UNCHANGED faults
NotSaved == faults < MaxFaults /\ faults' = faults + 1 /\ UNCHANGED stored

\* The code exceptionHandler is called with.
CodeFor(class) ==
    CASE class = "Haltable" -> 412
      [] class \in {"GenericImplementation", "InvalidCredentials", "Gen"} -> 400
      [] class = "Other" -> 500

\* Mutant of Failed: the status is left as it is for a HaltableException.
FailedUnlessHalted(e, class, code) ==
    [e EXCEPT !.status = IF class = "Haltable" THEN @ ELSE "ERROR",
              !.errorCode = code, !.response = "error"]

\* What exceptionHandler makes of the Execution.
Failed(e, class, code) ==
    [e EXCEPT !.status = IF class = "Haltable" THEN "HALTED" ELSE "ERROR",
              !.errorCode = code, !.response = "error"]

-----------------------------------------------------------------------------
(* Execution::start.                                                       *)

\* No Execution comes about: the request or its implementation is refused.
Refuse ==
    /\ pc = "new"
    /\ pc' = "unwinding"
    /\ thrown' \in {"InvalidCredentials", "Gen", "Other"}
    /\ UNCHANGED <<outboundVars, kind, exec, stored, current, answer, returned,
                   warned, faults, ending>>

\* The first save.  If it fails exceptionHandler fails too, for want of an id,
\* when it has set the status and the code.
SaveStarted ==
    /\ pc = "new"
    /\ LET started == [exec EXCEPT !.status = "STARTED"]
       IN  \/ /\ Saved(started)
              /\ exec' = started
              /\ pc' = "saved"
              /\ UNCHANGED thrown
           \/ /\ NotSaved
              /\ exec' = [exec EXCEPT !.status = "ERROR", !.errorCode = 500]
              /\ thrown' = "Other"
              /\ pc' = "unwinding"
    /\ UNCHANGED <<outboundVars, kind, current, answer, returned, warned, ending>>

\* The logger and the session are prepared, and execute() is called.
Execute ==
    /\ pc = "saved"
    /\ pc' = "executing"
    /\ current' = TRUE
    /\ UNCHANGED <<outboundVars, kind, exec, stored, thrown, answer, returned,
                   warned, faults, ending>>

\* The implementation's code runs, not that of send.
InImplementation == pc = "executing" /\ phase = "idle"

SetResponse ==
    /\ InImplementation
    /\ exec' = [exec EXCEPT !.response = "own"]
    /\ UNCHANGED <<outboundVars, kind, pc, stored, current, thrown, answer,
                   returned, warned, faults, ending>>

\* The steps of send and of its caller.
Sending ==
    /\ pc = "executing"
    /\ CallSend \/ Post \/ RetryHandling \/ EndSend \/ AfterSend
    /\ UNCHANGED execVars

\* execute() throws: something of its own, or what send threw.
Throw ==
    /\ pc = "executing"
    /\ \/ phase = "idle" /\ thrown' \in Classes /\ UNCHANGED outboundVars
       \/ phase = "threw" /\ thrown' = "Gen" /\ AfterSend
    /\ pc' = "handling"
    /\ UNCHANGED <<kind, exec, stored, current, answer, returned, warned, faults, ending>>

Return ==
    /\ InImplementation
    /\ pc' = "returned"
    /\ current' = FALSE
    /\ returned' = TRUE
    /\ UNCHANGED <<outboundVars, kind, exec, stored, thrown, answer, warned,
                   faults, ending>>

\* After execute(): a default response if there is none, and the second save.
Finish ==
    /\ pc = "returned"
    /\ LET done == [exec EXCEPT !.status = "DONE",
                                !.response = IF @ = "none" THEN "default" ELSE @]
       IN  /\ exec' = done
           /\ \/ Saved(done) /\ pc' = "ended" /\ UNCHANGED thrown
              \/ NotSaved /\ pc' = "handling" /\ thrown' = "Other"
    /\ UNCHANGED <<outboundVars, kind, current, answer, returned, warned, ending>>

\* start's catch blocks: exceptionHandler, and what was caught is thrown again;
\* currentlyExecutedExecution stays as it is.
Handle ==
    /\ pc = "handling"
    /\ exec' = Failed(exec, thrown, CodeFor(thrown))
    /\ \/ Saved(exec') /\ UNCHANGED thrown
       \/ NotSaved /\ thrown' = "Other"
    /\ warned' = FALSE
    /\ pc' = "unwinding"
    /\ UNCHANGED <<outboundVars, kind, current, answer, returned, ending>>

\* PHP reports a warning or a notice anywhere in the process: the handler marks
\* the Execution that is current, and the process goes on.  If the save fails
\* its exception is thrown where the warning was.
Warning ==
    /\ current
    /\ pc \in {"executing", "unwinding", "shutdown"}
    /\ exec' = Failed(exec, "Other", 500)
    /\ warned' = TRUE
    /\ \/ Saved(exec') /\ UNCHANGED <<pc, thrown, outboundVars>>
       \/ /\ pc = "executing" /\ NotSaved
          /\ pc' = "handling" /\ thrown' = "Other"
          /\ phase' = "idle" /\ UNCHANGED <<flags, sleeptime, sends, slept, last>>
    /\ UNCHANGED <<kind, current, answer, returned, ending>>

-----------------------------------------------------------------------------
(* The answer and the end of the process.                                  *)

\* The code MainAPI::handle has for an exception.
ResponseCodeFor(class) ==
    CASE class = "InvalidCredentials" -> 401
      [] class = "GenericImplementation" -> 501
      [] class = "Haltable" -> 412
      [] class = "Gen" -> 400
      [] class = "Other" -> 500

\* Mutant of CodeAnswered: the code of the exception's class has priority.
CodeAnsweredByClass(e, class) == ResponseCodeFor(class)

\* "Execution is always used as primary and this class as secondary"
CodeAnswered(e, class) ==
    IF e.errorCode # 0 THEN e.errorCode ELSE ResponseCodeFor(class)

\* serveResponse, when start has returned or an exception has come up.
Answer ==
    /\ kind = "sync" /\ pc \in {"ended", "unwinding"}
    /\ answer' = IF pc = "ended" THEN [code |-> 200, body |-> exec.response]
                 ELSE [code |-> CodeAnswered(exec, thrown), body |-> "error"]
    /\ pc' = "shutdown"
    /\ UNCHANGED <<outboundVars, kind, exec, stored, current, thrown, returned,
                   warned, faults, ending>>

\* A Run logs the exception, if there is one, and is done.
RunEnds ==
    /\ kind = "run" /\ pc \in {"ended", "unwinding"}
    /\ pc' = "shutdown"
    /\ UNCHANGED <<outboundVars, kind, exec, stored, current, thrown, answer,
                   returned, warned, faults, ending>>

\* The implementation calls exit.
Exit ==
    /\ InImplementation
    /\ pc' = "shutdown"
    /\ ending' = "exit"
    /\ UNCHANGED <<outboundVars, kind, exec, stored, current, thrown, answer,
                   returned, warned, faults>>

\* PHP gives up: an E_ERROR (no memory, no time) or another fatal error.
Die(how) ==
    /\ pc \in {"saved", "executing", "returned", "handling", "unwinding"}
    /\ pc' = "fatal"
    /\ ending' = how
    /\ phase' = "idle"
    /\ UNCHANGED <<flags, sleeptime, sends, slept, last, kind, exec, stored, current,
                   thrown, answer, returned, warned, faults>>

\* The process is killed, or its machine stops.
Kill ==
    /\ pc # "over"
    /\ pc' = "over"
    /\ ending' = "killed"
    /\ phase' = "idle"
    /\ UNCHANGED <<flags, sleeptime, sends, slept, last, kind, exec, stored, current,
                   thrown, answer, returned, warned, faults>>

\* phpShutdownfunction: finalizeRun, which may throw, and after an E_ERROR the
\* Execution that is current is marked.
Shutdown ==
    /\ pc \in {"shutdown", "fatal"}
    /\ pc' = "over"
    /\ LET marks == ending = "error" /\ current
       IN  \/ /\ marks
              /\ exec' = Failed(exec, "Other", 500)
              /\ \/ Saved(exec') /\ warned' = TRUE
                 \/ NotSaved /\ UNCHANGED warned
           \/ /\ ~marks
              /\ UNCHANGED <<exec, stored, warned, faults>>
           \/ /\ kind = "run" /\ NotSaved
              /\ UNCHANGED <<exec, warned>>
    /\ UNCHANGED <<outboundVars, kind, current, thrown, answer, returned, ending>>

Step ==
    \/ Refuse \/ SaveStarted \/ Execute \/ SetResponse \/ Sending \/ Throw \/ Return
    \/ Finish \/ Handle \/ Warning \/ Answer \/ RunEnds \/ Exit \/ Shutdown

Next == Step \/ Die("error") \/ Die("fatal") \/ Kill

Spec == Init /\ [][Next]_allVars

-----------------------------------------------------------------------------
(* Properties.                                                             *)

\* What the collection says of a process that is over is how execute() ended,
\* whatever the database, the warnings and the fatal errors did:
\*  - DONE only if it returned, and HALTED only if a HaltableException was thrown
\*    and nothing went wrong after it;
\*  - STARTED only if the process was killed, called exit, was stopped by a fatal
\*    error that the shutdown function does not see as an error of this Execution
\*    (not an E_ERROR, or outside of execute()), or the database failed.
EndIsStored ==
    pc = "over" =>
        /\ stored.status = "DONE" => returned
        /\ stored.status = "HALTED" => thrown = "Haltable" /\ ~warned /\ ~returned
        /\ stored.status = "STARTED" =>
              \/ ending \in {"killed", "exit", "fatal"}
              \/ ending = "error" /\ ~current
              \/ faults > 0

\* The variables have their types, and the document tells how it ended.
ExecutionInv == ExecutionTypeOK /\ EndIsStored

\* What the client was told fits what is stored:
\*  - 200 is answered if and only if the Execution is DONE, whatever failed, with a
\*    response of the implementation or the default one unless an error handler has
\*    left its own;
\*  - otherwise, unless a save failed, the code is that of the stored status, except
\*    for a warning that came after what was thrown.
AnswerTells ==
    answer.code # 0 =>
        /\ answer.code = 200 <=> stored.status = "DONE"
        /\ answer.code = 200 /\ answer.body = "error" => warned
        /\ faults = 0 =>
              /\ answer.code = 412 => stored.status = "HALTED" \/ warned
              /\ stored.status = "HALTED" => answer.code = 412
              /\ stored.status = "ERROR" /\ ~warned => answer.code = stored.errorCode
=============================================================================
