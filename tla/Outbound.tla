------------------------------- MODULE Outbound -------------------------------
(***************************************************************************)
(* OutboundHttpRequest: one object with which an implementation posts to a *)
(* backend, and posts again while the backend does not answer.  The object *)
(* may be used for several sends; nothing resets its sleeping time.        *)
(***************************************************************************)
EXTENDS Integers

CONSTANTS
    MaxRetryTime,   \* maxRetryTime, "Max retry seconds"
    MaxSends        \* bound: calls of send on the object

ASSUME OutboundAssumption == MaxRetryTime \in Nat /\ MaxSends \in Nat

VARIABLES
    phase,      \* where send is: "idle", "posting", "judging", "returned", "threw"
    flags,      \* failed and retry of the object
    sleeptime,  \* retrySleeptime of the object
    sends,      \* history: calls of send
    slept,      \* history: seconds slept in this call
    last        \* history: whether the last post was good

outboundVars == <<phase, flags, sleeptime, sends, slept, last>>

OutboundTypeOK ==
    /\ phase \in {"idle", "posting", "judging", "returned", "threw"}
    /\ flags \in [failed : BOOLEAN, retry : BOOLEAN]
    /\ sleeptime \in Nat \ {0}
    /\ sends \in 0 .. MaxSends
    /\ slept \in Nat
    /\ last \in BOOLEAN

OutboundInit ==
    /\ phase = "idle"
    /\ flags = [failed |-> FALSE, retry |-> FALSE]
    /\ sleeptime = 1
    /\ sends = 0
    /\ slept = 0
    /\ last = FALSE

\* The implementation calls send.
CallSend ==
    /\ phase = "idle"
    /\ sends < MaxSends
    /\ phase' = "posting"
    /\ sends' = sends + 1
    /\ slept' = 0
    /\ last' = FALSE
    /\ UNCHANGED <<flags, sleeptime>>

\* What a post may come to: a good answer; no connection, a timeout or a 5xx,
\* which are tried again; another error, which is not.
Answers == {"good", "busy", "refused"}

\* What handleBackendResposeRetry finds in the answer: nothing, the backend's
\* message to try again, or a pattern it cannot use.
Matches == {"none", "again", "unusable"}

\* Mutant of Judged: the flags of the last try are not reset.
JudgedOnTop(answer, match) ==
    [failed |-> flags.failed \/ answer # "good" \/ match = "again",
     retry  |-> answer = "busy" \/ match = "again"]

\* The flags after a post.
Judged(answer, match) ==
    [failed |-> answer # "good" \/ match = "again",
     retry  |-> answer = "busy" \/ match = "again"]

\* A post and the look at its answer; an unusable pattern throws.
Post ==
    /\ phase = "posting"
    /\ \E answer \in Answers, match \in Matches :
          /\ flags' = Judged(answer, match)
          /\ phase' = IF match = "unusable" THEN "threw" ELSE "judging"
          /\ last' = (answer = "good" /\ match = "none")
    /\ UNCHANGED <<sleeptime, sends, slept>>

\* Mutant of OutOfTime: the sleep that was slept is compared.
OutOfTimeLate(next) == next \div 2 > MaxRetryTime

\* No further try: the next sleep would be longer than maxRetryTime.
OutOfTime(next) == next > MaxRetryTime

\* retryHandling, when there is something to try again: sleep, and then see
\* whether it was too much.
RetryHandling ==
    /\ phase = "judging" /\ flags.retry
    /\ slept' = slept + sleeptime
    /\ sleeptime' = sleeptime * 2
    /\ IF OutOfTime(sleeptime * 2)
       THEN /\ flags' = [failed |-> TRUE, retry |-> FALSE]
            /\ phase' = "threw"
       ELSE /\ phase' = "posting"
            /\ UNCHANGED flags
    /\ UNCHANGED <<sends, last>>

\* The loop is over: send returns, or throws what was not to be tried again.
EndSend ==
    /\ phase = "judging" /\ ~flags.retry
    /\ phase' = IF flags.failed THEN "threw" ELSE "returned"
    /\ UNCHANGED <<flags, sleeptime, sends, slept, last>>

\* The implementation goes on with what send returned, or caught what it threw.
AfterSend ==
    /\ phase \in {"returned", "threw"}
    /\ phase' = "idle"
    /\ UNCHANGED <<flags, sleeptime, sends, slept, last>>

-----------------------------------------------------------------------------

\* send returns only when the last post was answered well, and throws only when
\* it was not, whatever earlier posts and earlier sends came to.
LastPostDecides ==
    /\ phase = "returned" => last
    /\ phase = "threw" => ~last

\* The first send of an object sleeps less than twice maxRetryTime in all, or
\* one second.
SleepBounded ==
    sends = 1 => slept <= 1 \/ slept < 2 * MaxRetryTime
=============================================================================
