--------------------------------- MODULE Ajax ---------------------------------
(***************************************************************************)
(* jQuery.ajax over its XMLHttpRequest transport: how the console's calls  *)
(* of the API are sent, answered, timed out and aborted.                   *)
(*                                                                         *)
(* ajax() and done() call code of the application at many points (hooks    *)
(* before the request is sent, callbacks and global events after it), and  *)
(* that code may abort any request, start another, or throw.  A frame of   *)
(* the stack is a call of ajax() or done() that has reached one of these   *)
(* points; the innermost is last.  With an empty stack the browser runs    *)
(* the next event: an answer, a timeout, or the application.               *)
(***************************************************************************)
EXTENDS Integers, Sequences, FiniteSets

CONSTANTS
    Requests,   \* calls of jQuery.ajax
    Null,
    MaxAborts,  \* bound: calls of abort by the application
    MaxThrows   \* bound: exceptions of the application's code

ASSUME AjaxAssumption ==
    /\ MaxAborts \in Nat /\ MaxThrows \in Nat
    /\ IsFiniteSet(Requests)

VARIABLES
    stack,      \* the calls of ajax() and done() going on
    s,          \* per request: its settings; Null before ajax()
    completed,  \* .. undefined, then false upon send and true upon completion
    installed,  \* .. the application's callbacks are installed
    fireGlobals,\* .. global events are dispatched for it
    transport,  \* .. the transport is known to jqXHR
    callback,   \* .. the transport listens to the native request
    timer,      \* .. timeoutTimer is set
    statusText, \* .. how it ended
    active,     \* jQuery.active
    xhr,        \* per request: the native request
    told,       \* history: the callbacks called for it
    busy,       \* history: ajaxStart was triggered after the last ajaxStop
    aborts,     \* history: aborts so far
    thrown      \* history: exceptions so far

requestVars == <<s, completed, installed, fireGlobals, transport, callback, timer, statusText>>
allVars == <<stack, requestVars, active, xhr, told, busy, aborts, thrown>>

-----------------------------------------------------------------------------
(* Settings, answers and their conversion.                                 *)

\* What the application asks for; the dataType matters with the answer only.
Settings == [global : BOOLEAN, timeout : BOOLEAN]
DataTypes == {"json", "*"}

ASSUME NullAssumption == Null \notin Settings

\* An answer: its status, its content type and whether the body is valid JSON.
Statuses == {"2xx", "204", "304", "4xx", "0"}
Answers == [status : Statuses, ct : {"json", "text"}, valid : BOOLEAN]

\* ajaxHandleResponses: a text response is to become the type the caller named
\* or, without one, the type its content type is known for.
FinalDataType(dataType, ct) == IF dataType = "*" THEN ct ELSE dataType

\* ajaxConvert: text is converted with JSON.parse or not at all.
ConvertedState(dataType, a) ==
    IF FinalDataType(dataType, a.ct) = "json" /\ ~a.valid THEN "parsererror" ELSE "success"

\* done: the status text of an answered request.
AnsweredText(dataType, a) ==
    CASE a.status = "204" -> "nocontent"
      [] a.status = "304" -> "notmodified"
      [] a.status = "2xx" -> ConvertedState(dataType, a)
      [] OTHER -> "error"

Successes == {"success", "nocontent", "notmodified"}
Failures == {"parsererror", "error", "timeout", "abort", "canceled"}

\* The points at which code of the application runs: in ajax(), and in done().
Hooks == {"prefilter", "ajaxStart", "beforeSend", "ajaxSend"}
Ends == {"settle", "statusCode", "ajaxSuccessError", "complete", "ajaxComplete", "ajaxStop"}

AjaxTypeOK ==
    /\ stack \in Seq([of : Requests, at : Hooks \cup Ends])
    /\ s \in [Requests -> Settings \cup {Null}]
    /\ completed \in [Requests -> {"undefined", "false", "true"}]
    /\ installed \in [Requests -> BOOLEAN]
    /\ fireGlobals \in [Requests -> BOOLEAN]
    /\ transport \in [Requests -> BOOLEAN]
    /\ callback \in [Requests -> BOOLEAN]
    /\ timer \in [Requests -> BOOLEAN]
    /\ statusText \in [Requests -> {""} \cup Successes \cup Failures]
    /\ active \in 0 .. Cardinality(Requests)
    /\ xhr \in [Requests -> {"unsent", "sent", "answered", "aborted"}]
    /\ \A r \in Requests :
          /\ (completed[r] = "true") <=> (statusText[r] # "")
          /\ callback[r] => transport[r] /\ xhr[r] = "sent"

Init ==
    /\ stack = <<>>
    /\ s = [r \in Requests |-> Null]
    /\ completed = [r \in Requests |-> "undefined"]
    /\ installed = [r \in Requests |-> FALSE]
    /\ fireGlobals = [r \in Requests |-> FALSE]
    /\ transport = [r \in Requests |-> FALSE]
    /\ callback = [r \in Requests |-> FALSE]
    /\ timer = [r \in Requests |-> FALSE]
    /\ statusText = [r \in Requests |-> ""]
    /\ active = 0
    /\ xhr = [r \in Requests |-> "unsent"]
    /\ told = [r \in Requests |-> <<>>]
    /\ busy = FALSE
    /\ aborts = 0
    /\ thrown = 0

-----------------------------------------------------------------------------
(* Frames.                                                                 *)

Idle == stack = <<>>
Front(st) == SubSeq(st, 1, Len(st) - 1)
Frame(r, at) == [of |-> r, at |-> at]

\* The innermost call is that of r and has reached this point.
At(r, at) == ~Idle /\ stack[Len(stack)] = Frame(r, at)

\* Code of the application runs: in the event loop, or at the point reached.
\* (ajaxSend is not triggered without a transport, or if global is false.)
Application ==
    ~\E r \in Requests :
        /\ At(r, "ajaxSend")
        /\ fireGlobals[r] => ~transport[r] /\ completed[r] # "true"

\* The stacks after that call goes on to the next point, and after it returns.
Onward(r, at) == Append(Front(stack), Frame(r, at))
Returned == Front(stack)

-----------------------------------------------------------------------------
(* done.                                                                   *)

\* Mutant of Ignored: repeat invocations are not ignored.
IgnoredNever(r) == FALSE

\* Mutant of Ignored: false is taken for a value like true.
IgnoredOnceSet(r) == completed[r] # "undefined"

\* "Ignore repeat invocations"
Ignored(r) == completed[r] = "true"

\* done(), called with the stack st, up to the callbacks of the deferred.
Done(r, text, st) ==
    IF Ignored(r)
    THEN /\ stack' = st
         /\ UNCHANGED <<completed, timer, transport, statusText, told>>
    ELSE /\ completed' = [completed EXCEPT ![r] = "true"]
         /\ timer' = [timer EXCEPT ![r] = FALSE]
         /\ transport' = [transport EXCEPT ![r] = FALSE]
         /\ statusText' = [statusText EXCEPT ![r] = text]
         /\ told' = IF installed[r]
                    THEN [told EXCEPT ![r] = Append(@, IF text \in Successes
                                                       THEN "success" ELSE "error")]
                    ELSE told
         /\ stack' = Append(st, Frame(r, "settle"))

\* What done does not touch.
DoneFrame == <<s, installed, fireGlobals, active, busy>>

\* The callbacks of success or error are through, then those by status code.
Settled(r) ==
    /\ At(r, "settle")
    /\ stack' = Onward(r, "statusCode")
    /\ UNCHANGED <<requestVars, active, xhr, told, busy, aborts, thrown>>

\* ajaxSuccess or ajaxError is triggered ...
TriggerOutcome(r) ==
    /\ At(r, "statusCode")
    /\ fireGlobals[r]
    /\ stack' = Onward(r, "ajaxSuccessError")
    /\ UNCHANGED <<requestVars, active, xhr, told, busy, aborts, thrown>>

\* ... and completeDeferred fired.
FireComplete(r) ==
    /\ At(r, IF fireGlobals[r] THEN "ajaxSuccessError" ELSE "statusCode")
    /\ stack' = Onward(r, "complete")
    /\ told' = IF installed[r] THEN [told EXCEPT ![r] = Append(@, "complete")] ELSE told
    /\ UNCHANGED <<requestVars, active, xhr, busy, aborts, thrown>>

TriggerComplete(r) ==
    /\ At(r, "complete")
    /\ stack' = IF fireGlobals[r] THEN Onward(r, "ajaxComplete") ELSE Returned
    /\ UNCHANGED <<requestVars, active, xhr, told, busy, aborts, thrown>>

\* Mutant of CountDown: aborted requests are not counted down.
CountDownAnswered(r) ==
    IF statusText[r] = "abort"
    THEN stack' = Returned /\ UNCHANGED <<active, busy>>
    ELSE /\ active' = active - 1
         /\ IF active = 1
            THEN stack' = Onward(r, "ajaxStop") /\ busy' = FALSE
            ELSE stack' = Returned /\ UNCHANGED busy

\* "Handle the global AJAX counter": the last request triggers ajaxStop.
CountDown(r) ==
    /\ active' = active - 1
    /\ IF active = 1
       THEN stack' = Onward(r, "ajaxStop") /\ busy' = FALSE
       ELSE stack' = Returned /\ UNCHANGED busy

Completed(r) ==
    /\ At(r, "ajaxComplete")
    /\ CountDown(r)
    /\ UNCHANGED <<requestVars, xhr, told, aborts, thrown>>

Stopped(r) ==
    /\ At(r, "ajaxStop")
    /\ stack' = Returned
    /\ UNCHANGED <<requestVars, active, xhr, told, busy, aborts, thrown>>

-----------------------------------------------------------------------------
(* ajax.                                                                   *)

\* Settings are made, and prefilters run.
Ajax(r) ==
    /\ Application
    /\ s[r] = Null
    /\ \E settings \in Settings : s' = [s EXCEPT ![r] = settings]
    /\ stack' = Append(stack, Frame(r, "prefilter"))
    /\ UNCHANGED <<completed, installed, fireGlobals, transport, callback, timer>>
    /\ UNCHANGED <<statusText, active, xhr, told, busy, aborts, thrown>>

\* The request is counted; the first one triggers ajaxStart.
Prefiltered(r) ==
    /\ At(r, "prefilter")
    /\ IF completed[r] = "true"
       THEN stack' = Returned /\ UNCHANGED <<fireGlobals, active, busy>>
       ELSE /\ fireGlobals' = [fireGlobals EXCEPT ![r] = s[r].global]
            /\ IF s[r].global
               THEN /\ active' = active + 1
                    /\ busy' = TRUE
                    /\ stack' = Onward(r, IF active = 0 THEN "ajaxStart" ELSE "beforeSend")
               ELSE stack' = Onward(r, "beforeSend") /\ UNCHANGED <<active, busy>>
    /\ UNCHANGED <<s, completed, installed, transport, callback, timer, statusText>>
    /\ UNCHANGED <<xhr, told, aborts, thrown>>

Started(r) ==
    /\ At(r, "ajaxStart")
    /\ stack' = Onward(r, "beforeSend")
    /\ UNCHANGED <<requestVars, active, xhr, told, busy, aborts, thrown>>

\* beforeSend returned false, or aborted the request: "Abort if not done
\* already and return".
Canceled(r) ==
    /\ At(r, "beforeSend")
    /\ Done(r, "canceled", Returned)
    /\ UNCHANGED <<DoneFrame, callback, xhr, aborts, thrown>>

\* Callbacks are installed, and a transport is looked for.
FindTransport(r) ==
    /\ At(r, "beforeSend")
    /\ completed[r] # "true"
    /\ installed' = [installed EXCEPT ![r] = TRUE]
    /\ \E found \in BOOLEAN : transport' = [transport EXCEPT ![r] = found]
    /\ stack' = Onward(r, "ajaxSend")
    /\ UNCHANGED <<s, completed, fireGlobals, callback, timer, statusText>>
    /\ UNCHANGED <<active, xhr, told, busy, aborts, thrown>>

\* "If request was aborted inside ajaxSend, stop there"
Proceeds(r) == completed[r] # "true"

SentOff(r) ==
    /\ At(r, "ajaxSend")
    /\ ~Proceeds(r)
    /\ stack' = Returned
    /\ UNCHANGED <<requestVars, active, xhr, told, busy, aborts, thrown>>

\* transport.send: the native request is opened, listened to and sent.
Send(r) ==
    /\ At(r, "ajaxSend")
    /\ Proceeds(r)
    /\ transport[r]
    /\ timer' = [timer EXCEPT ![r] = s[r].timeout]
    /\ completed' = [completed EXCEPT ![r] = "false"]
    /\ callback' = [callback EXCEPT ![r] = TRUE]
    /\ xhr' = [xhr EXCEPT ![r] = "sent"]
    /\ stack' = Returned
    /\ UNCHANGED <<s, installed, fireGlobals, transport, statusText>>
    /\ UNCHANGED <<active, told, busy, aborts, thrown>>

\* There is no transport, or transport.send throws ("Propagate others as
\* results").
SendFails(r) ==
    /\ At(r, "ajaxSend")
    /\ Proceeds(r)
    /\ Done(r, "error", Returned)
    /\ UNCHANGED <<DoneFrame, callback, xhr, aborts, thrown>>

-----------------------------------------------------------------------------
(* Aborts, timeouts and answers.                                           *)

\* Mutant of TransportAborts: the native request is left alone.
TransportAbortsNot(r) == UNCHANGED <<callback, xhr>>

\* transport.abort: the native request, if it was sent, is not listened to any
\* more and aborted.
TransportAborts(r) ==
    IF transport[r] /\ callback[r]
    THEN /\ callback' = [callback EXCEPT ![r] = FALSE]
         /\ xhr' = [xhr EXCEPT ![r] = "aborted"]
    ELSE UNCHANGED <<callback, xhr>>

\* The application calls abort of a request that was given to it.
Abort(r) ==
    /\ Application
    /\ s[r] # Null
    /\ aborts < MaxAborts
    /\ aborts' = aborts + 1
    /\ TransportAborts(r)
    /\ Done(r, IF installed[r] THEN "abort" ELSE "canceled", stack)
    /\ UNCHANGED <<DoneFrame, thrown>>

Timeout(r) ==
    /\ Idle
    /\ timer[r]
    /\ TransportAborts(r)
    /\ Done(r, "timeout", <<>>)
    /\ UNCHANGED <<DoneFrame, aborts, thrown>>

\* The native request is over: load, error, timeout or abort of the browser.
\* done is called if the transport still listens.
Answer(r) ==
    /\ Idle
    /\ xhr[r] = "sent"
    /\ xhr' = [xhr EXCEPT ![r] = "answered"]
    /\ callback' = [callback EXCEPT ![r] = FALSE]
    /\ IF callback[r]
       THEN \E dataType \in DataTypes, a \in Answers :
               Done(r, AnsweredText(dataType, a), <<>>)
       ELSE UNCHANGED <<stack, completed, timer, transport, statusText, told>>
    /\ UNCHANGED <<DoneFrame, aborts, thrown>>

\* Code of the application throws: all calls that are going on are abandoned.
Throw ==
    /\ Application /\ ~Idle
    /\ thrown < MaxThrows
    /\ thrown' = thrown + 1
    /\ stack' = <<>>
    /\ UNCHANGED <<requestVars, active, xhr, told, busy, aborts>>

-----------------------------------------------------------------------------
(* The specification.                                                      *)

\* A call goes on; the application's code, if there is any, returned.
Proceed(r) ==
    \/ Prefiltered(r) \/ Started(r) \/ Canceled(r) \/ FindTransport(r)
    \/ SentOff(r) \/ Send(r) \/ SendFails(r)
    \/ Settled(r) \/ TriggerOutcome(r) \/ FireComplete(r) \/ TriggerComplete(r)
    \/ Completed(r) \/ Stopped(r)

Browser(r) == Timeout(r) \/ Answer(r)

Next ==
    \/ \E r \in Requests : Proceed(r) \/ Browser(r) \/ Ajax(r) \/ Abort(r)
    \/ Throw

\* Functions return, and the browser ends every native request.
Spec ==
    /\ Init /\ [][Next]_allVars
    /\ \A r \in Requests : WF_allVars(Proceed(r)) /\ WF_allVars(Browser(r))

-----------------------------------------------------------------------------
(* Properties.                                                             *)

\* Of every request whose callbacks were installed the application hears once,
\* success (only of an answer) or error and then complete, whatever is aborted,
\* times out or is answered late; not at all, only if its own code throws.
ToldOnce ==
    \A r \in Requests :
        /\ told[r] \in {<<>>, <<"success">>, <<"error">>,
                        <<"success", "complete">>, <<"error", "complete">>}
        /\ told[r] # <<>> /\ told[r][1] = "success" => xhr[r] = "answered"
        /\ Idle /\ thrown = 0 /\ installed[r] /\ completed[r] = "true"
           => Len(told[r]) = 2

\* A request that has come to an end leaves nothing behind: no native request
\* on its way, no timer that may still fire, nothing that listens.
NothingLeft ==
    \A r \in Requests :
        completed[r] = "true" => xhr[r] # "sent" /\ ~timer[r] /\ ~callback[r]

\* The variables have their types, and what is over has left nothing behind.
AjaxInv == AjaxTypeOK /\ NothingLeft

\* jQuery.active counts the requests that are neither canceled nor over, and
\* ajaxStart and ajaxStop tell when there are any, if no code throws.
ActiveCounts ==
    Idle /\ thrown = 0 =>
        /\ active = Cardinality({r \in Requests : fireGlobals[r] /\ completed[r] # "true"})
        /\ busy <=> active > 0

\* Every request that was sent comes to an end, and the application hears of it
\* unless its code throws.
SentCompletes ==
    \A r \in Requests :
        xhr[r] = "sent" ~> Len(told[r]) = 2 \/ thrown > 0
=============================================================================
