------------------------------ MODULE AjaxProofs ------------------------------
(***************************************************************************)
(* Proofs about jQuery.ajax.  The application's code runs in the middle of *)
(* ajax() and done(), and may abort, start requests or throw there; so the *)
(* invariant relates the calls on the stack to the requests they are about:*)
(* each request has at most one call of each of the two going on, and how  *)
(* far that call is tells what it has done already and what it still owes. *)
(***************************************************************************)
EXTENDS Ajax, FiniteSetTheorems, TLAPS

-----------------------------------------------------------------------------
(* The inductive invariant.                                                *)

Points == Hooks \cup Ends
Frames == [of : Requests, at : Points]

\* A call has reached this point, whether it is the innermost or not.
On(f) == \E i \in 1 .. Len(stack) : stack[i] = f

\* Frames of the same call: of ajax() for one request, or of done() for it.
SameCall(f, g) == f.of = g.of /\ (f.at \in Hooks <=> g.at \in Hooks)

\* ajax() is called once for a request, and a second done() is ignored.
CallsOnce ==
    \A i, j \in 1 .. Len(stack) : SameCall(stack[i], stack[j]) => i = j

\* done() has not fired completeDeferred yet, or not counted the request down.
EarlyEnds == {"settle", "statusCode", "ajaxSuccessError"}
CountedEnds == {"settle", "statusCode", "ajaxSuccessError", "complete", "ajaxComplete"}
GlobalEnds == {"ajaxSuccessError", "ajaxComplete", "ajaxStop"}

\* ajax() before the request is sent, done() after it is over; the global events
\* are those of a request that has them.
CallTells(f) ==
    /\ s[f.of] # Null
    /\ f.at \in Hooks => completed[f.of] # "false"
    /\ f.at \in Ends => completed[f.of] = "true"
    /\ f.at = "prefilter" => ~fireGlobals[f.of]
    /\ f.at \in GlobalEnds => fireGlobals[f.of]
CallsTell == \A f \in Frames : On(f) => CallTells(f)

\* The marks of a request agree with each other.
MarksAgree ==
    \A r \in Requests :
        /\ s[r] = Null => completed[r] = "undefined" /\ ~fireGlobals[r]
        /\ completed[r] = "false" <=> xhr[r] = "sent"
        /\ callback[r] <=> xhr[r] = "sent"
        /\ callback[r] => transport[r]
        /\ timer[r] => completed[r] = "false"
        /\ xhr[r] \in {"answered", "aborted"} => completed[r] = "true"
        /\ completed[r] = "true" <=> statusText[r] # ""

\* The types of the variables, but for how far active may count.
Types ==
    /\ stack \in Seq(Frames)
    /\ s \in [Requests -> Settings \cup {Null}]
    /\ completed \in [Requests -> {"undefined", "false", "true"}]
    /\ installed \in [Requests -> BOOLEAN]
    /\ fireGlobals \in [Requests -> BOOLEAN]
    /\ transport \in [Requests -> BOOLEAN]
    /\ callback \in [Requests -> BOOLEAN]
    /\ timer \in [Requests -> BOOLEAN]
    /\ statusText \in [Requests -> {""} \cup Successes \cup Failures]
    /\ xhr \in [Requests -> {"unsent", "sent", "answered", "aborted"}]

CallsInv == Types /\ CallsOnce /\ CallsTell /\ MarksAgree

\* What the application can have heard of a request.
Heard == {<<>>, <<"success">>, <<"error">>,
          <<"success", "complete">>, <<"error", "complete">>}

\* A call for the request has reached one of these points.
Within(r, points) == \E at \in points : On(Frame(r, at))

\* done() tells of the outcome first, and of the completion when it fires
\* completeDeferred; it is still going on if it has not, or code has thrown.
ToldInv ==
    /\ told \in [Requests -> Heard]
    /\ thrown \in Nat
    /\ \A r \in Requests :
          /\ completed[r] # "true" \/ ~installed[r] => told[r] = <<>>
          /\ told[r] # <<>> /\ told[r][1] = "success" => xhr[r] = "answered"
          /\ Within(r, EarlyEnds) => Len(told[r]) = IF installed[r] THEN 1 ELSE 0
          /\ thrown = 0 /\ installed[r] /\ completed[r] = "true" /\ Len(told[r]) # 2
             => Within(r, EarlyEnds)

\* The requests that are still to be counted down, and those counted at all.
Owing == {r \in Requests : fireGlobals[r] /\ (completed[r] # "true" \/ Within(r, CountedEnds))}
Counted == {r \in Requests : fireGlobals[r]}

\* active counts every request that is still to be counted down; exactly these,
\* unless an exception kept a done() from counting down.
CountInv ==
    /\ active \in Nat
    /\ Cardinality(Owing) <= active /\ active <= Cardinality(Counted)
    /\ thrown = 0 => active = Cardinality(Owing)
    /\ busy \in BOOLEAN
    /\ busy <=> active > 0

-----------------------------------------------------------------------------
(* The stack.                                                              *)

\* Every point belongs to ajax() or to done(), and to one of them.
LEMMA PointsApart == \A at \in Points : at \in Hooks <=> at \notin Ends
  BY DEF Points, Hooks, Ends

\* A point of a request makes a frame.
LEMMA FrameOf ==
    ASSUME NEW r \in Requests, NEW at \in Points
    PROVE  Frame(r, at) \in Frames /\ Frame(r, at).of = r /\ Frame(r, at).at = at
  BY DEF Frames, Frame

\* What is below the innermost call.
LEMMA FrontOf ==
    ASSUME stack \in Seq(Frames), ~Idle
    PROVE  /\ Len(stack) \in Nat \ {0}
           /\ stack[Len(stack)] \in Frames
           /\ Front(stack) \in Seq(Frames)
           /\ Len(Front(stack)) = Len(stack) - 1
           /\ \A i \in 1 .. Len(stack) - 1 : Front(stack)[i] = stack[i]
<1>1. stack \in Seq(Frames) /\ Len(stack) \in Nat \ {0}
  BY DEF Idle
<1>. DEFINE n == Len(stack) - 1
<1>2. n \in Nat /\ n + 1 = Len(stack)
  BY <1>1
<1>3. stack[Len(stack)] \in Frames /\ \A i \in 1 .. n : stack[i] \in Frames
  BY <1>1
<1>4. Front(stack) = [i \in 1 .. n |-> stack[i]]
  BY <1>1, <1>2 DEF Front
<1>. HIDE DEF n
<1>5. Front(stack) \in Seq(Frames) /\ Len(Front(stack)) = n
  BY <1>2, <1>3, <1>4
<1>. QED  BY <1>1, <1>2, <1>3, <1>4, <1>5

\* Two frames of the same call are one.
LEMMA OneCall ==
    ASSUME CallsOnce, NEW f, NEW g, On(f), On(g), SameCall(f, g)
    PROVE  f = g
  BY DEF CallsOnce, On

\* The innermost call has reached its point, and no other.
LEMMA Innermost ==
    ASSUME stack \in Seq(Frames), NEW r \in Requests, NEW at \in Points, At(r, at)
    PROVE  On(Frame(r, at)) /\ ~Idle
  BY FrontOf DEF On, At

\* A call is made.
LEMMA Pushed ==
    ASSUME stack \in Seq(Frames), CallsOnce, NEW f \in Frames,
           stack' = Append(stack, f),
           \A g \in Frames : On(g) => ~SameCall(g, f)
    PROVE  /\ stack' \in Seq(Frames) /\ CallsOnce'
           /\ \A g \in Frames : On(g)' <=> On(g) \/ g = f
<1>1. /\ stack' \in Seq(Frames) /\ Len(stack') = Len(stack) + 1 /\ Len(stack) \in Nat
      /\ \A i \in 1 .. Len(stack) : stack'[i] = stack[i] /\ stack[i] \in Frames
      /\ stack'[Len(stack) + 1] = f
  OBVIOUS
<1>2. \A g \in Frames : On(g)' <=> On(g) \/ g = f
  BY <1>1 DEF On
<1>3. CallsOnce'
  <2>. SUFFICES ASSUME NEW i \in 1 .. Len(stack'), NEW j \in 1 .. Len(stack'),
                       SameCall(stack'[i], stack'[j]), i # j
                PROVE  FALSE
    BY DEF CallsOnce
  <2>1. CASE i # Len(stack) + 1 /\ j # Len(stack) + 1
    BY <2>1, <1>1 DEF CallsOnce
  <2>2. CASE i = Len(stack) + 1
    <3>1. j \in 1 .. Len(stack)
      BY <2>2, <1>1
    <3>2. On(stack[j]) /\ SameCall(stack[j], f)
      BY <3>1, <2>2, <1>1 DEF On, SameCall
    <3>. QED  BY <3>1, <3>2, <1>1
  <2>3. CASE j = Len(stack) + 1
    <3>1. i \in 1 .. Len(stack)
      BY <2>3, <1>1
    <3>2. On(stack[i]) /\ SameCall(stack[i], f)
      BY <3>1, <2>3, <1>1 DEF On
    <3>. QED  BY <3>1, <3>2, <1>1
  <2>. QED  BY <2>1, <2>2, <2>3
<1>. QED  BY <1>1, <1>2, <1>3

\* The innermost call returns.
LEMMA Popped ==
    ASSUME stack \in Seq(Frames), CallsOnce, ~Idle, stack' = Returned
    PROVE  /\ stack' \in Seq(Frames) /\ CallsOnce'
           /\ \A g \in Frames : On(g)' <=> On(g) /\ g # stack[Len(stack)]
<1>1. /\ Len(stack) \in Nat \ {0}
      /\ stack' \in Seq(Frames) /\ Len(stack') = Len(stack) - 1
      /\ \A i \in 1 .. Len(stack) - 1 : stack'[i] = stack[i]
  BY FrontOf DEF Returned
<1>2. CallsOnce'
  BY <1>1 DEF CallsOnce
<1>3. \A i \in 1 .. Len(stack) - 1 : stack[i] # stack[Len(stack)]
  <2>. SUFFICES ASSUME NEW i \in 1 .. Len(stack) - 1, stack[i] = stack[Len(stack)]
                PROVE  FALSE
    OBVIOUS
  <2>1. SameCall(stack[i], stack[Len(stack)]) /\ i \in 1 .. Len(stack)
        /\ Len(stack) \in 1 .. Len(stack) /\ i # Len(stack)
    BY <1>1 DEF SameCall
  <2>. QED  BY <2>1 DEF CallsOnce
<1>4. \A g \in Frames : On(g)' <=> On(g) /\ g # stack[Len(stack)]
  BY <1>1, <1>3 DEF On
<1>. QED  BY <1>1, <1>2, <1>4

\* The innermost call goes on to another point, or gives way to another call.
LEMMA Replaced ==
    ASSUME stack \in Seq(Frames), CallsOnce, ~Idle, NEW f \in Frames,
           stack' = Append(Front(stack), f),
           \A g \in Frames : On(g) /\ g # stack[Len(stack)] => ~SameCall(g, f)
    PROVE  /\ stack' \in Seq(Frames) /\ CallsOnce'
           /\ \A g \in Frames :
                 On(g)' <=> (On(g) /\ g # stack[Len(stack)]) \/ g = f
<1>1. /\ Len(stack) \in Nat \ {0}
      /\ stack' \in Seq(Frames) /\ Len(stack') = Len(stack)
      /\ \A i \in 1 .. Len(stack) - 1 : stack'[i] = stack[i] /\ stack[i] \in Frames
      /\ stack'[Len(stack)] = f
  BY FrontOf
<1>2. \A i \in 1 .. Len(stack) - 1 : stack[i] # stack[Len(stack)]
  <2>. SUFFICES ASSUME NEW i \in 1 .. Len(stack) - 1, stack[i] = stack[Len(stack)]
                PROVE  FALSE
    OBVIOUS
  <2>1. SameCall(stack[i], stack[Len(stack)]) /\ i \in 1 .. Len(stack)
        /\ Len(stack) \in 1 .. Len(stack) /\ i # Len(stack)
    BY <1>1 DEF SameCall
  <2>. QED  BY <2>1 DEF CallsOnce
<1>3. \A g \in Frames : On(g)' <=> (On(g) /\ g # stack[Len(stack)]) \/ g = f
  BY SMTT(20), <1>1, <1>2 DEF On
<1>4. \A i \in 1 .. Len(stack) - 1 : ~SameCall(stack[i], f)
  BY <1>1, <1>2 DEF On
<1>5. CallsOnce'
  <2>. SUFFICES ASSUME NEW i \in 1 .. Len(stack), NEW j \in 1 .. Len(stack),
                       SameCall(stack'[i], stack'[j]), i # j
                PROVE  FALSE
    BY <1>1 DEF CallsOnce
  <2>1. CASE i # Len(stack) /\ j # Len(stack)
    BY <2>1, <1>1 DEF CallsOnce
  <2>2. CASE i = Len(stack)
    BY <2>2, <1>1, <1>4 DEF SameCall
  <2>3. CASE j = Len(stack)
    BY <2>3, <1>1, <1>4
  <2>. QED  BY <2>1, <2>2, <2>3
<1>. QED  BY <1>1, <1>3, <1>5

\* A call goes on to its next point.
LEMMA GoesOn ==
    ASSUME stack \in Seq(Frames), CallsOnce,
           NEW r \in Requests, NEW at \in Points, NEW to \in Points,
           At(r, at), at \in Hooks <=> to \in Hooks, stack' = Onward(r, to)
    PROVE  /\ stack' \in Seq(Frames) /\ CallsOnce'
           /\ \A g \in Frames :
                 On(g)' <=> (On(g) /\ g # Frame(r, at)) \/ g = Frame(r, to)
<1>1. ~Idle /\ stack[Len(stack)] = Frame(r, at) /\ On(Frame(r, at))
  BY Innermost DEF At
<1>2. SameCall(Frame(r, to), Frame(r, at)) /\ Frame(r, at) \in Frames /\ Frame(r, to) \in Frames
  BY FrameOf DEF SameCall
<1>3. \A g \in Frames : On(g) /\ g # Frame(r, at) => ~SameCall(g, Frame(r, to))
  <2>. SUFFICES ASSUME NEW g \in Frames, On(g), SameCall(g, Frame(r, to))
                PROVE  g = Frame(r, at)
    OBVIOUS
  <2>1. SameCall(g, Frame(r, at))
    BY <1>2 DEF SameCall
  <2>. QED  BY <2>1, <1>1, OneCall
<1>. QED  BY <1>1, <1>2, <1>3, Replaced DEF Onward

\* A call returns.
LEMMA Returns ==
    ASSUME stack \in Seq(Frames), CallsOnce,
           NEW r \in Requests, NEW at \in Points,
           At(r, at), stack' = Returned
    PROVE  /\ stack' \in Seq(Frames) /\ CallsOnce'
           /\ \A g \in Frames : On(g)' <=> On(g) /\ g # Frame(r, at)
  BY Popped DEF At

-----------------------------------------------------------------------------
(* The calls and the marks of the requests.                                *)

\* Initially nothing is called and nothing is marked.
LEMMA CallsInit == Init => CallsInv
<1>. SUFFICES ASSUME Init PROVE CallsInv
  OBVIOUS
<1>1. stack = <<>> /\ stack \in Seq(Frames) /\ 1 .. Len(stack) = {}
  <2>1. stack = <<>>
    BY DEF Init
  <2>2. <<>> \in Seq(Frames) /\ Len(<<>>) = 0
    OBVIOUS
  <2>. QED  BY <2>1, <2>2
<1>2. Types
  BY <1>1 DEF Init, Types
<1>3. CallsOnce /\ CallsTell
  BY <1>1 DEF CallsOnce, CallsTell, CallTells, On
<1>4. MarksAgree
  BY DEF Init, MarksAgree
<1>. QED  BY <1>2, <1>3, <1>4 DEF CallsInv

\* The innermost call of a request tells of the request.
LEMMA Tells ==
    ASSUME CallsInv, NEW r \in Requests, NEW at \in Points, At(r, at)
    PROVE  /\ s[r] \in Settings
           /\ at \in Hooks => completed[r] # "false"
           /\ at \in Ends => completed[r] = "true"
           /\ at = "prefilter" => ~fireGlobals[r]
           /\ at \in GlobalEnds => fireGlobals[r]
<1>. DEFINE f == Frame(r, at)
<1>1. f \in Frames /\ f.of = r /\ f.at = at
  BY FrameOf
<1>2. On(f)
  BY Innermost DEF CallsInv, Types
<1>. HIDE DEF f
<1>3. /\ s[r] # Null
      /\ at \in Hooks => completed[r] # "false"
      /\ at \in Ends => completed[r] = "true"
      /\ at = "prefilter" => ~fireGlobals[r]
      /\ at \in GlobalEnds => fireGlobals[r]
  BY <1>1, <1>2 DEF CallsInv, CallsTell, CallTells
<1>. QED  BY <1>3 DEF CallsInv, Types

\* The stacks with which done() leaves its caller behind.
DoneCalls(r) ==
    /\ stack' \in Seq(Frames) /\ CallsOnce'
    /\ \A g \in Frames : On(g)' => On(g) \/ g = Frame(r, "settle")
    /\ \A g \in Frames : On(g) /\ g.at \in Ends => On(g)'
    /\ On(Frame(r, "settle"))'

\* No done() of a request is going on before it is completed.
LEMMA NoneDone ==
    ASSUME CallsInv, NEW r \in Requests, completed[r] # "true"
    PROVE  \A g \in Frames : On(g) => ~SameCall(g, Frame(r, "settle"))
  BY FrameOf, PointsApart DEF CallsInv, CallsTell, CallTells, SameCall, Points, Ends, Frames, Hooks

\* done() is called on top of what is going on.
LEMMA DoneOnTop ==
    ASSUME CallsInv, NEW r \in Requests, completed[r] # "true",
           stack' = Append(stack, Frame(r, "settle"))
    PROVE  DoneCalls(r)
<1>1. "settle" \in Points /\ Frame(r, "settle") \in Frames
  BY FrameOf DEF Points, Ends
<1>. QED  BY <1>1, NoneDone, Pushed DEF DoneCalls, CallsInv, Types

\* done() is the last that ajax() calls.
LEMMA DoneInstead ==
    ASSUME CallsInv, NEW r \in Requests, completed[r] # "true",
           NEW at \in Hooks, At(r, at),
           stack' = Append(Returned, Frame(r, "settle"))
    PROVE  DoneCalls(r)
<1>1. "settle" \in Points /\ Frame(r, "settle") \in Frames /\ at \in Points
      /\ Frame(r, at) \in Frames /\ at \notin Ends /\ Frame(r, at).at = at
  BY FrameOf, PointsApart DEF Points, Ends
<1>2. ~Idle /\ stack[Len(stack)] = Frame(r, at)
  BY DEF At
<1>. QED  BY ZenonT(30), <1>1, <1>2, NoneDone, Replaced DEF DoneCalls, CallsInv, Types, Returned

\* What done() leaves of the native request when it is called.
Silenced(r) ==
    /\ xhr' \in [Requests -> {"unsent", "sent", "answered", "aborted"}]
    /\ callback' \in [Requests -> BOOLEAN]
    /\ xhr'[r] # "sent" /\ ~callback'[r]
    /\ \A q \in Requests \ {r} : xhr'[q] = xhr[q] /\ callback'[q] = callback[q]

\* A native request that is not sent is not listened to.
LEMMA NotSentSilent ==
    ASSUME CallsInv, NEW r \in Requests, completed[r] # "false", UNCHANGED <<callback, xhr>>
    PROVE  Silenced(r)
  BY DEF Silenced, CallsInv, Types, MarksAgree

\* The transport's abort silences whatever was sent.
LEMMA AbortSilences ==
    ASSUME CallsInv, NEW r \in Requests, TransportAborts(r)
    PROVE  Silenced(r) /\ (xhr[r] = "answered" => xhr'[r] = "answered")
           /\ (xhr'[r] = "answered" => xhr[r] = "answered")
<1>1. CASE callback[r]
  BY <1>1 DEF Silenced, CallsInv, Types, MarksAgree, TransportAborts
<1>2. CASE ~callback[r]
  BY <1>2 DEF Silenced, CallsInv, Types, MarksAgree, TransportAborts
<1>. QED  BY <1>1, <1>2

\* done() completes the request it is called for.
LEMMA DoneKeepsCalls ==
    ASSUME CallsInv, NEW r \in Requests, completed[r] # "true", s[r] # Null,
           NEW text \in Successes \cup Failures, NEW st,
           Done(r, text, st), DoneCalls(r), Silenced(r),
           UNCHANGED <<s, installed, fireGlobals>>
    PROVE  CallsInv'
<1>1. /\ completed' = [completed EXCEPT ![r] = "true"]
      /\ timer' = [timer EXCEPT ![r] = FALSE]
      /\ transport' = [transport EXCEPT ![r] = FALSE]
      /\ statusText' = [statusText EXCEPT ![r] = text]
  BY DEF Done, Ignored
<1>2. text # ""
  BY DEF Successes, Failures
<1>3. Types'
  BY <1>1 DEF CallsInv, Types, DoneCalls, Silenced
<1>4. CallsTell'
  <2>. SUFFICES ASSUME NEW f \in Frames, On(f)'
                PROVE  /\ s[f.of] # Null
                       /\ f.at \in Hooks => completed'[f.of] # "false"
                       /\ f.at \in Ends => completed'[f.of] = "true"
                       /\ f.at = "prefilter" => ~fireGlobals[f.of]
                       /\ f.at \in GlobalEnds => fireGlobals[f.of]
    BY DEF CallsTell, CallTells
  <2>0. "settle" \in Points /\ "settle" \in Ends /\ "settle" \notin Hooks /\ "settle" \notin GlobalEnds
    BY DEF Points, Ends, Hooks, GlobalEnds
  <2>1. CASE On(f)
    BY <2>1, <1>1 DEF CallsInv, CallsTell, CallTells, Types, Frames
  <2>2. CASE f = Frame(r, "settle")
    <3>1. f.of = r /\ f.at = "settle"
      BY <2>2, <2>0, FrameOf
    <3>2. completed'[r] = "true"
      BY <1>1 DEF CallsInv, Types
    <3>. QED  BY <3>1, <3>2, <2>0
  <2>. QED  BY <2>1, <2>2 DEF DoneCalls
<1>5. MarksAgree'
  <2>. SUFFICES ASSUME NEW q \in Requests
                PROVE  /\ s[q] = Null => completed'[q] = "undefined" /\ ~fireGlobals[q]
                       /\ completed'[q] = "false" <=> xhr'[q] = "sent"
                       /\ callback'[q] <=> xhr'[q] = "sent"
                       /\ callback'[q] => transport'[q]
                       /\ timer'[q] => completed'[q] = "false"
                       /\ xhr'[q] \in {"answered", "aborted"} => completed'[q] = "true"
                       /\ completed'[q] = "true" <=> statusText'[q] # ""
    BY DEF MarksAgree
  <2>1. CASE q = r
    BY <2>1, <1>1, <1>2 DEF CallsInv, Types, Silenced
  <2>2. CASE q # r
    BY <2>2, <1>1 DEF CallsInv, Types, MarksAgree, Silenced
  <2>. QED  BY <2>1, <2>2
<1>. QED  BY <1>3, <1>4, <1>5 DEF CallsInv, DoneCalls

-----------------------------------------------------------------------------
(* The steps.                                                              *)

\* done() is called for a request that is not over yet.
Finishes(r) ==
    /\ completed[r] # "true" /\ s[r] # Null
    /\ DoneCalls(r) /\ Silenced(r)
    /\ \E text \in Successes \cup Failures, st \in {stack, Returned, <<>>} :
          /\ Done(r, text, st)
          /\ text \in Successes => xhr'[r] = "answered"
    /\ UNCHANGED <<s, installed, fireGlobals, active, busy, thrown>>

\* A step that changes nothing but where the calls are.
OnlyCalls == UNCHANGED <<requestVars, active, xhr, told, busy, thrown>>

\* beforeSend aborted the request, or ajax() cancels it.
LEMMA CanceledSteps ==
    ASSUME CallsInv, NEW r \in Requests, Canceled(r)
    PROVE  Finishes(r) \/ (stack' = Returned /\ OnlyCalls)
<1>1. "beforeSend" \in Hooks /\ "beforeSend" \in Points /\ "canceled" \in Failures
      /\ "canceled" \notin Successes
  BY DEF Hooks, Points, Failures, Successes
<1>2. s[r] # Null /\ completed[r] # "false"
  BY <1>1, Tells, NullAssumption DEF Canceled
<1>3. CASE completed[r] = "true"
  BY <1>3 DEF Canceled, Done, Ignored, DoneFrame, OnlyCalls, requestVars
<1>4. CASE completed[r] # "true"
  <2>1. DoneCalls(r)
    BY <1>4, <1>1, DoneInstead DEF Canceled, Done, Ignored
  <2>2. Silenced(r)
    BY <1>2, NotSentSilent DEF Canceled
  <2>. QED  BY <2>1, <2>2, <1>1, <1>2, <1>4 DEF Finishes, Canceled, DoneFrame
<1>. QED  BY <1>3, <1>4

\* There is no transport, or it fails.
LEMMA SendFailsSteps ==
    ASSUME CallsInv, NEW r \in Requests, SendFails(r)
    PROVE  Finishes(r)
<1>1. "ajaxSend" \in Hooks /\ "ajaxSend" \in Points /\ "error" \in Failures
      /\ "error" \notin Successes
  BY DEF Hooks, Points, Failures, Successes
<1>2. s[r] # Null /\ completed[r] # "false" /\ completed[r] # "true"
  BY <1>1, Tells, NullAssumption DEF SendFails, Proceeds
<1>3. DoneCalls(r)
  BY <1>1, <1>2, DoneInstead DEF SendFails, Done, Ignored
<1>4. Silenced(r)
  BY <1>2, NotSentSilent DEF SendFails
<1>. QED  BY <1>1, <1>2, <1>3, <1>4 DEF Finishes, SendFails, DoneFrame

\* The application aborts a request: in time, or when it is over already.
LEMMA AbortSteps ==
    ASSUME CallsInv, NEW r \in Requests, Abort(r)
    PROVE  Finishes(r) \/ (stack' = stack /\ OnlyCalls)
<1>1. {"abort", "canceled"} \subseteq Failures \ Successes
  BY DEF Failures, Successes
<1>2. CASE completed[r] = "true"
  <2>1. ~callback[r]
    BY <1>2 DEF CallsInv, MarksAgree
  <2>. QED
    BY <1>2, <2>1 DEF Abort, Done, Ignored, DoneFrame, OnlyCalls, requestVars, TransportAborts
<1>3. CASE completed[r] # "true"
  <2>1. DoneCalls(r)
    BY <1>3, DoneOnTop DEF Abort, Done, Ignored
  <2>2. Silenced(r)
    BY AbortSilences DEF Abort
  <2>3. PICK text \in {"abort", "canceled"} : Done(r, text, stack)
    BY DEF Abort
  <2>. QED  BY <2>1, <2>2, <2>3, <1>1, <1>3 DEF Finishes, Abort, DoneFrame
<1>. QED  BY <1>2, <1>3

\* The timer of a request fires.
LEMMA TimeoutSteps ==
    ASSUME CallsInv, NEW r \in Requests, Timeout(r)
    PROVE  Finishes(r)
<1>1. "timeout" \in Failures /\ "timeout" \notin Successes
  BY DEF Failures, Successes
<1>2. completed[r] = "false" /\ s[r] # Null
  BY DEF Timeout, CallsInv, MarksAgree
<1>3. DoneCalls(r)
  BY <1>2, DoneOnTop DEF Timeout, Done, Ignored, Idle
<1>4. Silenced(r)
  BY AbortSilences DEF Timeout
<1>. QED  BY <1>1, <1>2, <1>3, <1>4 DEF Finishes, Timeout, DoneFrame

\* The native request is over.
LEMMA AnswerSteps ==
    ASSUME CallsInv, NEW r \in Requests, Answer(r)
    PROVE  Finishes(r)
<1>1. completed[r] = "false" /\ s[r] # Null /\ callback[r]
  BY DEF Answer, CallsInv, MarksAgree
<1>2. Silenced(r) /\ xhr'[r] = "answered"
  BY DEF Answer, Silenced, CallsInv, Types
<1>3. PICK dataType \in DataTypes, a \in Answers : Done(r, AnsweredText(dataType, a), <<>>)
  BY <1>1 DEF Answer
<1>4. AnsweredText(dataType, a) \in Successes \cup Failures
  BY DEF AnsweredText, ConvertedState, Successes, Failures
<1>5. DoneCalls(r)
  BY <1>1, <1>3, DoneOnTop DEF Answer, Done, Ignored, Idle
<1>. QED  BY <1>1, <1>2, <1>3, <1>4, <1>5 DEF Finishes, Answer, DoneFrame

\* A step that leaves the marks alone, and the calls at points that are right.
LEMMA CallsKept ==
    ASSUME CallsInv, UNCHANGED <<requestVars, xhr>>,
           stack' \in Seq(Frames), CallsOnce',
           \A g \in Frames : On(g)' => On(g) \/ CallTells(g)
    PROVE  CallsInv'
<1>1. Types' /\ MarksAgree'
  BY DEF CallsInv, Types, MarksAgree, requestVars
<1>2. \A g \in Frames : CallTells(g)' <=> CallTells(g)
  BY DEF CallTells, requestVars
<1>3. CallsTell'
  BY <1>2 DEF CallsInv, CallsTell
<1>. QED  BY <1>1, <1>3 DEF CallsInv

\* A call goes on within ajax() or within done().
LEMMA GoesOnKeepsCalls ==
    ASSUME CallsInv, UNCHANGED <<requestVars, xhr>>,
           NEW r \in Requests, NEW at \in Points, NEW to \in Points, At(r, at),
           at \in Hooks <=> to \in Hooks, to # "prefilter",
           to \in GlobalEnds => fireGlobals[r],
           stack' = Onward(r, to)
    PROVE  CallsInv'
<1>1. /\ stack' \in Seq(Frames) /\ CallsOnce'
      /\ \A g \in Frames : On(g)' <=> (On(g) /\ g # Frame(r, at)) \/ g = Frame(r, to)
  BY GoesOn DEF CallsInv, Types
<1>2. s[r] # Null /\ (at \in Hooks => completed[r] # "false")
      /\ (at \in Ends => completed[r] = "true")
  BY Tells, NullAssumption
<1>3. CallTells(Frame(r, to))
  BY <1>2, FrameOf, PointsApart DEF CallTells
<1>. QED  BY <1>1, <1>3, CallsKept

\* A call returns.
LEMMA ReturnsKeepsCalls ==
    ASSUME CallsInv, UNCHANGED <<requestVars, xhr>>,
           NEW r \in Requests, NEW at \in Points, At(r, at), stack' = Returned
    PROVE  CallsInv'
  BY Returns, CallsKept DEF CallsInv, Types

\* ajax() is called for a request.
LEMMA AjaxKeepsCalls ==
    ASSUME CallsInv, NEW r \in Requests, Ajax(r)
    PROVE  CallsInv'
<1>1. "prefilter" \in Points /\ "prefilter" \in Hooks /\ "prefilter" \notin Ends
      /\ "prefilter" \notin GlobalEnds
  BY DEF Points, Hooks, Ends, GlobalEnds
<1>2. PICK settings \in Settings : s' = [s EXCEPT ![r] = settings]
  BY DEF Ajax
<1>3. s[r] = Null /\ completed[r] = "undefined" /\ ~fireGlobals[r]
  BY DEF Ajax, CallsInv, MarksAgree
<1>4. s' \in [Requests -> Settings \cup {Null}] /\ s'[r] # Null
      /\ \A q \in Requests \ {r} : s'[q] = s[q]
  BY <1>2, NullAssumption DEF CallsInv, Types
<1>5. /\ stack' \in Seq(Frames) /\ CallsOnce'
      /\ \A g \in Frames : On(g)' <=> On(g) \/ g = Frame(r, "prefilter")
  <2>1. \A g \in Frames : On(g) => g.of # r
    BY <1>3 DEF CallsInv, CallsTell, CallTells
  <2>2. \A g \in Frames : On(g) => ~SameCall(g, Frame(r, "prefilter"))
    BY <2>1, <1>1, FrameOf DEF SameCall
  <2>. QED  BY <2>2, <1>1, FrameOf, Pushed DEF Ajax, CallsInv, Types
<1>6. Types'
  BY <1>4, <1>5 DEF Ajax, CallsInv, Types
<1>7. MarksAgree'
  BY <1>3, <1>4 DEF Ajax, CallsInv, MarksAgree
<1>8. CallsTell'
  <2>. SUFFICES ASSUME NEW f \in Frames, On(f)'
                PROVE  CallTells(f)'
    BY DEF CallsTell
  <2>1. CASE On(f)
    <3>1. CallTells(f) /\ f.of # r /\ f.of \in Requests
      BY <2>1, <1>3 DEF CallsInv, CallsTell, CallTells, Frames
    <3>. QED  BY <3>1, <1>4 DEF CallTells, Ajax
  <2>2. CASE f = Frame(r, "prefilter")
    <3>1. f.of = r /\ f.at = "prefilter"
      BY <2>2, <1>1, FrameOf
    <3>. QED  BY <3>1, <1>1, <1>3, <1>4 DEF CallTells, Ajax
  <2>. QED  BY <2>1, <2>2, <1>5
<1>. QED  BY <1>5, <1>6, <1>7, <1>8 DEF CallsInv

\* The prefilters are through.
LEMMA PrefilteredKeepsCalls ==
    ASSUME CallsInv, NEW r \in Requests, Prefiltered(r)
    PROVE  CallsInv'
<1>1. /\ {"prefilter", "ajaxStart", "beforeSend"} \subseteq Hooks
      /\ Hooks \subseteq Points
      /\ {"ajaxStart", "beforeSend"} \cap (Ends \cup GlobalEnds \cup {"prefilter"}) = {}
  BY DEF Points, Hooks, Ends, GlobalEnds
<1>2. s[r] \in Settings /\ s[r] # Null /\ completed[r] # "false" /\ ~fireGlobals[r]
  BY <1>1, Tells, NullAssumption DEF Prefiltered
<1>3. CASE completed[r] = "true"
  BY <1>3, <1>1, ReturnsKeepsCalls DEF Prefiltered, requestVars
<1>4. CASE completed[r] # "true"
  <2>1. PICK to \in {"ajaxStart", "beforeSend"} : stack' = Onward(r, to)
    BY <1>4 DEF Prefiltered
  <2>2. /\ stack' \in Seq(Frames) /\ CallsOnce'
        /\ \A g \in Frames :
              On(g)' <=> (On(g) /\ g # Frame(r, "prefilter")) \/ g = Frame(r, to)
    BY <2>1, <1>1, GoesOn DEF Prefiltered, CallsInv, Types
  <2>3. /\ fireGlobals' \in [Requests -> BOOLEAN]
        /\ \A q \in Requests \ {r} : fireGlobals'[q] = fireGlobals[q]
    BY <1>2, <1>4 DEF Prefiltered, CallsInv, Types, Settings
  <2>4. Types'
    BY <2>2, <2>3 DEF Prefiltered, CallsInv, Types
  <2>5. MarksAgree'
    BY <2>3, <1>2 DEF Prefiltered, CallsInv, MarksAgree
  <2>6. CallsTell'
    <3>. SUFFICES ASSUME NEW f \in Frames, On(f)'
                  PROVE  CallTells(f)'
      BY DEF CallsTell
    <3>0. CASE f.of # r
      <4>1. On(f) /\ f.of \in Requests \ {r}
        BY <3>0, <2>1, <2>2, <1>1, FrameOf DEF Frames
      <4>2. CallTells(f)
        BY <4>1 DEF CallsInv, CallsTell
      <4>. QED  BY <4>1, <4>2, <2>3 DEF CallTells, Prefiltered
    <3>1. CASE f.of = r /\ f = Frame(r, to)
      <4>1. f.at = to
        BY <3>1, <2>1, <1>1, FrameOf
      <4>. QED  BY <4>1, <3>1, <1>1, <1>2, <2>1 DEF CallTells, Prefiltered
    <3>2. CASE f.of = r /\ f # Frame(r, to)
      <4>1. On(f) /\ f # Frame(r, "prefilter") /\ On(Frame(r, "prefilter"))
        BY <3>2, <2>2, <1>1, Innermost DEF Prefiltered, CallsInv, Types
      <4>2. f.at \notin Hooks
        BY <4>1, <3>2, <1>1, FrameOf, OneCall DEF SameCall, CallsInv
      <4>3. CallTells(f) /\ f.at \in Points
        BY <4>1 DEF CallsInv, CallsTell, Frames
      <4>4. f.at \in Ends
        BY <4>2, <4>3, PointsApart
      <4>. QED  BY <4>3, <4>4, <3>2, <1>4 DEF CallTells
    <3>. QED  BY <3>0, <3>1, <3>2
  <2>. QED  BY <2>2, <2>4, <2>5, <2>6 DEF CallsInv
<1>. QED  BY <1>3, <1>4

\* Callbacks are installed, and a transport is found or not.
LEMMA FindTransportKeepsCalls ==
    ASSUME CallsInv, NEW r \in Requests, FindTransport(r)
    PROVE  CallsInv'
<1>1. /\ {"beforeSend", "ajaxSend"} \subseteq Hooks \cap Points
      /\ "ajaxSend" \notin Ends \cup GlobalEnds \cup {"prefilter"}
  BY DEF Points, Hooks, Ends, GlobalEnds
<1>2. s[r] # Null /\ completed[r] # "false" /\ ~callback[r]
  <2>1. s[r] # Null /\ completed[r] # "false"
    BY <1>1, Tells, NullAssumption DEF FindTransport
  <2>. QED  BY <2>1 DEF CallsInv, MarksAgree
<1>3. /\ stack' \in Seq(Frames) /\ CallsOnce'
      /\ \A g \in Frames :
            On(g)' <=> (On(g) /\ g # Frame(r, "beforeSend")) \/ g = Frame(r, "ajaxSend")
  BY <1>1, GoesOn DEF FindTransport, CallsInv, Types
<1>4. PICK found \in BOOLEAN : transport' = [transport EXCEPT ![r] = found]
  BY DEF FindTransport
<1>5. Types' /\ \A q \in Requests \ {r} : transport'[q] = transport[q]
  BY <1>3, <1>4 DEF FindTransport, CallsInv, Types
<1>6. MarksAgree'
  BY <1>2, <1>5 DEF FindTransport, CallsInv, MarksAgree
<1>7. CallTells(Frame(r, "ajaxSend"))
  BY <1>1, <1>2, FrameOf DEF CallTells
<1>8. \A g \in Frames : CallTells(g)' <=> CallTells(g)
  BY DEF CallTells, FindTransport
<1>9. CallsTell'
  BY <1>3, <1>7, <1>8 DEF CallsInv, CallsTell
<1>. QED  BY <1>3, <1>5, <1>6, <1>9 DEF CallsInv

\* The native request is sent.
LEMMA SendKeepsCalls ==
    ASSUME CallsInv, NEW r \in Requests, Send(r)
    PROVE  CallsInv'
<1>1. "ajaxSend" \in Hooks /\ "ajaxSend" \in Points
  BY DEF Points, Hooks
<1>2. s[r] \in Settings /\ s[r] # Null /\ completed[r] # "true" /\ transport[r]
  BY <1>1, Tells, NullAssumption DEF Send, Proceeds
<1>3. /\ stack' \in Seq(Frames) /\ CallsOnce'
      /\ \A g \in Frames : On(g)' <=> On(g) /\ g # Frame(r, "ajaxSend")
  BY <1>1, Returns DEF Send, CallsInv, Types
<1>4. /\ completed'[r] = "false" /\ callback'[r] /\ xhr'[r] = "sent"
      /\ \A q \in Requests \ {r} : /\ completed'[q] = completed[q] /\ timer'[q] = timer[q]
                                   /\ callback'[q] = callback[q] /\ xhr'[q] = xhr[q]
  BY DEF Send, CallsInv, Types
<1>5. Types'
  BY <1>2, <1>3 DEF Send, CallsInv, Types, Settings
<1>6. MarksAgree'
  <2>1. UNCHANGED <<s, fireGlobals, transport, statusText>> /\ timer' = [timer EXCEPT ![r] = s[r].timeout]
    BY DEF Send
  <2>2. statusText[r] = ""
    BY <1>2 DEF CallsInv, MarksAgree
  <2>. SUFFICES ASSUME NEW q \in Requests
                PROVE  /\ s[q] = Null => completed'[q] = "undefined" /\ ~fireGlobals[q]
                       /\ completed'[q] = "false" <=> xhr'[q] = "sent"
                       /\ callback'[q] <=> xhr'[q] = "sent"
                       /\ callback'[q] => transport[q]
                       /\ timer'[q] => completed'[q] = "false"
                       /\ xhr'[q] \in {"answered", "aborted"} => completed'[q] = "true"
                       /\ completed'[q] = "true" <=> statusText[q] # ""
    BY <2>1 DEF MarksAgree
  <2>3. CASE q = r
    BY <2>3, <2>2, <1>2, <1>4
  <2>4. CASE q # r
    BY <2>4, <1>4 DEF CallsInv, MarksAgree
  <2>. QED  BY <2>3, <2>4
<1>7. CallsTell'
  <2>. SUFFICES ASSUME NEW f \in Frames, On(f)'
                PROVE  CallTells(f)'
    BY DEF CallsTell
  <2>1. On(f) /\ f # Frame(r, "ajaxSend") /\ CallTells(f) /\ On(Frame(r, "ajaxSend"))
    BY <1>1, <1>3, Innermost DEF CallsInv, CallsTell, Types, Send
  <2>2. CASE f.of # r
    BY <2>1, <2>2, <1>4 DEF CallTells, Send, Frames
  <2>3. CASE f.of = r
    <3>1. f.at \notin Hooks
      BY <2>1, <2>3, <1>1, FrameOf, OneCall DEF SameCall, CallsInv
    <3>2. f.at \notin Ends
      BY <2>1, <2>3, <1>2 DEF CallTells
    <3>. QED  BY <3>1, <3>2 DEF Frames, Points
  <2>. QED  BY <2>2, <2>3
<1>. QED  BY <1>3, <1>5, <1>6, <1>7 DEF CallsInv

\* Points and how they go on.
LEMMA PointsGoOn ==
    /\ Hooks \subseteq Points /\ Ends \subseteq Points
    /\ "prefilter" \notin Ends /\ GlobalEnds \subseteq Ends
    /\ Ends = EarlyEnds \cup {"complete", "ajaxComplete", "ajaxStop"}
    /\ {"complete", "ajaxComplete", "ajaxStop"} \cap EarlyEnds = {}
    /\ EarlyEnds \cap GlobalEnds = {"ajaxSuccessError"}
    /\ CountedEnds = EarlyEnds \cup {"complete", "ajaxComplete"}
    /\ GlobalEnds = {"ajaxSuccessError", "ajaxComplete", "ajaxStop"}
    /\ "ajaxSend" \in Hooks /\ "beforeSend" \in Hooks /\ "ajaxStart" \in Hooks
    /\ "prefilter" \in Hooks
    /\ EarlyEnds = {"settle", "statusCode", "ajaxSuccessError"}
  BY DEF Points, Hooks, Ends, EarlyEnds, GlobalEnds, CountedEnds

\* Every step keeps it.
LEMMA CallsNext == CallsInv /\ [Next]_allVars => CallsInv'
<1>. SUFFICES ASSUME CallsInv, [Next]_allVars PROVE CallsInv'
  OBVIOUS
<1>1. ASSUME NEW r \in Requests, Finishes(r) PROVE CallsInv'
  BY <1>1, DoneKeepsCalls DEF Finishes
<1>2. CASE UNCHANGED allVars
  <2>1. stack' = stack /\ UNCHANGED <<requestVars, xhr>>
    BY <1>2 DEF allVars
  <2>. QED  BY <2>1, CallsKept DEF CallsInv, Types, CallsOnce, On
<1>3. CASE Throw
  <2>1. stack' = <<>> /\ UNCHANGED <<requestVars, xhr>>
    BY <1>3 DEF Throw
  <2>2. <<>> \in Seq(Frames) /\ Len(<<>>) = 0
    OBVIOUS
  <2>. QED  BY <2>1, <2>2, CallsKept DEF CallsOnce, On
<1>4. ASSUME NEW r \in Requests, Proceed(r) \/ Browser(r) \/ Ajax(r) \/ Abort(r)
      PROVE  CallsInv'
  <2>1. CASE Ajax(r)
    BY <2>1, AjaxKeepsCalls
  <2>2. CASE Abort(r)
    <3>1. CASE stack' = stack /\ OnlyCalls
      BY <3>1, CallsKept DEF OnlyCalls, CallsInv, Types, CallsOnce, On
    <3>. QED  BY <3>1, <2>2, <1>1, AbortSteps
  <2>3. CASE Timeout(r) \/ Answer(r)
    BY <2>3, <1>1, TimeoutSteps, AnswerSteps
  <2>4. CASE Prefiltered(r)
    BY <2>4, PrefilteredKeepsCalls
  <2>5. CASE Started(r)
    BY <2>5, PointsGoOn, GoesOnKeepsCalls DEF Started
  <2>6. CASE Canceled(r)
    <3>1. CASE stack' = Returned /\ OnlyCalls
      BY <3>1, <2>6, PointsGoOn, ReturnsKeepsCalls DEF OnlyCalls, Canceled
    <3>. QED  BY <3>1, <2>6, <1>1, CanceledSteps
  <2>7. CASE FindTransport(r)
    BY <2>7, FindTransportKeepsCalls
  <2>8. CASE SentOff(r)
    BY <2>8, PointsGoOn, ReturnsKeepsCalls DEF SentOff
  <2>9. CASE Send(r)
    BY <2>9, SendKeepsCalls
  <2>10. CASE SendFails(r)
    BY <2>10, <1>1, SendFailsSteps
  <2>11. CASE Settled(r)
    BY <2>11, PointsGoOn, PointsApart, GoesOnKeepsCalls DEF Settled
  <2>12. CASE TriggerOutcome(r)
    BY <2>12, PointsGoOn, PointsApart, GoesOnKeepsCalls DEF TriggerOutcome
  <2>13. CASE FireComplete(r)
    <3>1. PICK at \in EarlyEnds : At(r, at)
      BY <2>13, PointsGoOn DEF FireComplete
    <3>. QED  BY <3>1, <2>13, PointsGoOn, PointsApart, GoesOnKeepsCalls DEF FireComplete
  <2>14. CASE TriggerComplete(r)
    <3>1. CASE stack' = Onward(r, "ajaxComplete") /\ fireGlobals[r]
      BY <3>1, <2>14, PointsGoOn, PointsApart, GoesOnKeepsCalls DEF TriggerComplete
    <3>2. CASE stack' = Returned
      BY <3>2, <2>14, PointsGoOn, ReturnsKeepsCalls DEF TriggerComplete
    <3>. QED  BY <3>1, <3>2, <2>14 DEF TriggerComplete
  <2>15. CASE Completed(r)
    <3>1. At(r, "ajaxComplete") /\ fireGlobals[r]
      BY <2>15, PointsGoOn, Tells DEF Completed
    <3>2. CASE stack' = Onward(r, "ajaxStop")
      BY <3>1, <3>2, <2>15, PointsGoOn, PointsApart, GoesOnKeepsCalls DEF Completed
    <3>3. CASE stack' = Returned
      BY <3>1, <3>3, <2>15, PointsGoOn, ReturnsKeepsCalls DEF Completed
    <3>. QED  BY <3>2, <3>3, <2>15 DEF Completed, CountDown
  <2>16. CASE Stopped(r)
    BY <2>16, PointsGoOn, ReturnsKeepsCalls DEF Stopped
  <2>. QED
    BY <1>4, <2>1, <2>2, <2>3, <2>4, <2>5, <2>6, <2>7, <2>8, <2>9, <2>10, <2>11, <2>12,
       <2>13, <2>14, <2>15, <2>16 DEF Proceed, Browser
<1>. QED  BY <1>2, <1>3, <1>4 DEF Next

-----------------------------------------------------------------------------
(* How far the calls of done() are.                                        *)

\* A call goes on, and is among the points before and after, or neither.
LEMMA WithinGoesOn ==
    ASSUME CallsInv, NEW r \in Requests, NEW at \in Points, NEW to \in Points,
           At(r, at), at \in Hooks <=> to \in Hooks, stack' = Onward(r, to),
           NEW E \in SUBSET Points, at \in E <=> to \in E
    PROVE  \A q \in Requests : Within(q, E)' <=> Within(q, E)
<1>1. \A g \in Frames : On(g)' <=> (On(g) /\ g # Frame(r, at)) \/ g = Frame(r, to)
  BY GoesOn DEF CallsInv, Types
<1>2. On(Frame(r, at))
  BY Innermost DEF CallsInv, Types
<1>. SUFFICES ASSUME NEW q \in Requests PROVE Within(q, E)' <=> Within(q, E)
  OBVIOUS
<1>3. ASSUME NEW p \in E
      PROVE  On(Frame(q, p))' <=> (On(Frame(q, p)) /\ (q # r \/ p # at)) \/ (q = r /\ p = to)
  BY <1>1, FrameOf
<1>. QED  BY <1>2, <1>3 DEF Within

\* A call returns that was not among the points.
LEMMA WithinReturns ==
    ASSUME CallsInv, NEW r \in Requests, NEW at \in Points, At(r, at),
           stack' = Returned, NEW E \in SUBSET Points, at \notin E
    PROVE  \A q \in Requests : Within(q, E)' <=> Within(q, E)
<1>1. \A g \in Frames : On(g)' <=> On(g) /\ g # Frame(r, at)
  BY Returns DEF CallsInv, Types
<1>2. ASSUME NEW q \in Requests, NEW p \in E
      PROVE  On(Frame(q, p))' <=> On(Frame(q, p))
  BY <1>1, FrameOf
<1>. QED  BY <1>2 DEF Within

\* A call of another request goes on, leaves or returns.
LEMMA WithinOthers ==
    ASSUME CallsInv, NEW r \in Requests, NEW at \in Points, NEW to \in Points,
           At(r, at), at \in Hooks <=> to \in Hooks,
           stack' = Returned \/ stack' = Onward(r, to),
           NEW E \in SUBSET Points
    PROVE  \A q \in Requests \ {r} : Within(q, E)' <=> Within(q, E)
<1>1. ASSUME NEW g \in Frames, g.of # r PROVE On(g)' <=> On(g)
  <2>1. g # Frame(r, at) /\ g # Frame(r, to)
    BY <1>1, FrameOf
  <2>. QED  BY <2>1, Returns, GoesOn DEF CallsInv, Types
<1>2. ASSUME NEW q \in Requests \ {r}, NEW p \in E
      PROVE  On(Frame(q, p))' <=> On(Frame(q, p))
  BY <1>1, FrameOf
<1>. QED  BY <1>2 DEF Within

\* The only call of done() for a request leaves the points.
LEMMA WithinLeaves ==
    ASSUME CallsInv, NEW r \in Requests, NEW at \in Ends, NEW to \in Ends, At(r, at),
           stack' = Returned \/ stack' = Onward(r, to),
           NEW E \in SUBSET Ends, to \notin E
    PROVE  ~Within(r, E)'
<1>. SUFFICES ASSUME NEW p \in E, On(Frame(r, p))' PROVE FALSE
  BY DEF Within
<1>1. at \in Points /\ to \in Points /\ p \in Points /\ (at \in Hooks <=> to \in Hooks)
      /\ (at \in Hooks <=> p \in Hooks)
  BY PointsGoOn, PointsApart
<1>2. /\ Frame(r, p) \in Frames /\ Frame(r, at) \in Frames
      /\ Frame(r, p) # Frame(r, to)
      /\ SameCall(Frame(r, p), Frame(r, at))
  BY <1>1, FrameOf DEF SameCall
<1>3. On(Frame(r, p)) /\ Frame(r, p) # Frame(r, at)
  <2>1. CASE stack' = Returned
    BY <2>1, <1>1, <1>2, Returns DEF CallsInv, Types
  <2>2. CASE stack' = Onward(r, to)
    BY <2>2, <1>1, <1>2, GoesOn DEF CallsInv, Types
  <2>. QED  BY <2>1, <2>2
<1>4. On(Frame(r, at))
  BY <1>1, Innermost DEF CallsInv, Types
<1>. QED  BY <1>2, <1>3, <1>4, OneCall DEF CallsInv

\* done() is called for a request.
LEMMA WithinFinishes ==
    ASSUME CallsInv, NEW r \in Requests, Finishes(r), NEW E \in SUBSET Ends, "settle" \in E
    PROVE  /\ Within(r, E)'
           /\ \A q \in Requests \ {r} : Within(q, E)' <=> Within(q, E)
<1>1. Within(r, E)'
  BY DEF Within, Finishes, DoneCalls
<1>2. ASSUME NEW q \in Requests \ {r}, NEW p \in E
      PROVE  On(Frame(q, p))' <=> On(Frame(q, p))
  <2>1. p \in Points /\ "settle" \in Points /\ p \in Ends
    BY PointsGoOn
  <2>2. Frame(q, p) \in Frames /\ Frame(q, p).at = p /\ Frame(q, p) # Frame(r, "settle")
    BY <2>1, FrameOf
  <2>. QED  BY <2>1, <2>2 DEF Finishes, DoneCalls
<1>. QED  BY <1>1, <1>2 DEF Within

\* The stack stays, or is abandoned.
LEMMA WithinStays ==
    ASSUME NEW E, stack' = stack
    PROVE  \A q \in Requests : Within(q, E)' <=> Within(q, E)
  BY DEF Within, On

\* An exception abandons all calls.
LEMMA WithinThrow ==
    ASSUME NEW E, stack' = <<>>
    PROVE  \A q \in Requests : ~Within(q, E)'
<1>1. Len(<<>>) = 0
  OBVIOUS
<1>. QED  BY <1>1 DEF Within, On

\* No done() of a request is going on before the request is over.
LEMMA WithinOver ==
    ASSUME CallsInv, NEW r \in Requests, NEW E \in SUBSET Ends, Within(r, E)
    PROVE  completed[r] = "true"
<1>1. PICK p \in E : On(Frame(r, p))
  BY DEF Within
<1>. QED  BY <1>1, FrameOf, PointsGoOn DEF CallsInv, CallsTell, CallTells

\* ajax() calling, going on or returning leaves done() where it is.
LEMMA WithinAjax ==
    ASSUME CallsInv, NEW r \in Requests, NEW E \in SUBSET Ends,
           Ajax(r) \/ Prefiltered(r) \/ Started(r) \/ FindTransport(r) \/ SentOff(r) \/ Send(r)
           \/ (Canceled(r) /\ stack' = Returned)
    PROVE  \A q \in Requests : Within(q, E)' <=> Within(q, E)
<1>1. E \subseteq Points /\ E \cap Hooks = {} /\ Hooks \subseteq Points
  BY PointsApart, PointsGoOn
<1>2. CASE Ajax(r)
  <2>1. stack' = Append(stack, Frame(r, "prefilter"))
    BY <1>2 DEF Ajax
  <2>2. "prefilter" \in Points
    BY PointsGoOn
  <2>3. \A g \in Frames : On(g) => ~SameCall(g, Frame(r, "prefilter"))
    <3>. SUFFICES ASSUME NEW g \in Frames, On(g), g.of = r PROVE FALSE
      BY <2>2, FrameOf DEF SameCall
    <3>1. s[r] = Null
      BY <1>2 DEF Ajax
    <3>. QED  BY <3>1 DEF CallsInv, CallsTell, CallTells
  <2>4. \A g \in Frames : On(g)' <=> On(g) \/ g = Frame(r, "prefilter")
    BY <2>1, <2>2, <2>3, FrameOf, Pushed DEF CallsInv, Types
  <2>5. ASSUME NEW q \in Requests, NEW p \in E
        PROVE  On(Frame(q, p))' <=> On(Frame(q, p))
    <3>1. Frame(q, p) # Frame(r, "prefilter") /\ Frame(q, p) \in Frames
      BY <1>1, <2>2, FrameOf, PointsGoOn
    <3>. QED  BY <3>1, <2>4
  <2>. QED  BY <2>5 DEF Within
<1>3. ASSUME NEW at \in Hooks, At(r, at), stack' = Returned
      PROVE  \A q \in Requests : Within(q, E)' <=> Within(q, E)
  BY <1>1, <1>3, WithinReturns
<1>4. ASSUME NEW at \in Hooks, NEW to \in Hooks, At(r, at), stack' = Onward(r, to)
      PROVE  \A q \in Requests : Within(q, E)' <=> Within(q, E)
  BY <1>1, <1>4, WithinGoesOn
<1>5. CASE Prefiltered(r)
  BY <1>5, <1>3, <1>4, PointsGoOn DEF Prefiltered
<1>6. CASE Started(r) \/ FindTransport(r)
  BY <1>6, <1>4, PointsGoOn DEF Started, FindTransport
<1>7. CASE SentOff(r) \/ Send(r) \/ (Canceled(r) /\ stack' = Returned)
  BY <1>7, <1>3, PointsGoOn DEF SentOff, Send, Canceled
<1>. QED  BY <1>2, <1>5, <1>6, <1>7

-----------------------------------------------------------------------------
(* What the application hears of.                                          *)

\* Initially it has heard of nothing.
LEMMA ToldInit == Init => ToldInv
<1>. SUFFICES ASSUME Init PROVE ToldInv
  OBVIOUS
<1>1. /\ told = [r \in Requests |-> <<>>] /\ thrown = 0
      /\ completed = [r \in Requests |-> "undefined"] /\ stack = <<>>
  BY DEF Init
<1>2. \A r \in Requests : ~Within(r, EarlyEnds)
  <2>1. Len(stack) = 0
    BY <1>1
  <2>. QED  BY <2>1 DEF Within, On
<1>. QED  BY <1>1, <1>2 DEF ToldInv, Heard

\* A step of which the application hears nothing.
LEMMA ToldKept ==
    ASSUME CallsInv, ToldInv, UNCHANGED told, thrown' \in Nat,
           \A r \in Requests :
              /\ completed'[r] = "true" <=> completed[r] = "true"
              /\ completed[r] = "true" => installed'[r] = installed[r]
              /\ xhr[r] = "answered" => xhr'[r] = "answered"
              /\ Within(r, EarlyEnds)' => Within(r, EarlyEnds)
              /\ thrown' = 0 => thrown = 0 /\ (Within(r, EarlyEnds) => Within(r, EarlyEnds)')
    PROVE  ToldInv'
<1>1. told' \in [Requests -> Heard]
  BY DEF ToldInv
<1>. SUFFICES ASSUME NEW r \in Requests
              PROVE  /\ completed'[r] # "true" \/ ~installed'[r] => told[r] = <<>>
                     /\ told[r] # <<>> /\ told[r][1] = "success" => xhr'[r] = "answered"
                     /\ Within(r, EarlyEnds)' => Len(told[r]) = IF installed'[r] THEN 1 ELSE 0
                     /\ thrown' = 0 /\ installed'[r] /\ completed'[r] = "true" /\ Len(told[r]) # 2
                        => Within(r, EarlyEnds)'
  BY <1>1 DEF ToldInv
<1>2. EarlyEnds \in SUBSET Ends
  BY PointsGoOn
<1>3. CASE completed[r] = "true"
  BY <1>3 DEF ToldInv
<1>4. CASE completed[r] # "true"
  <2>1. told[r] = <<>> /\ ~Within(r, EarlyEnds)'
    BY <1>2, <1>4, WithinOver DEF ToldInv
  <2>. QED  BY <2>1, <1>4
<1>. QED  BY <1>3, <1>4

\* done() tells of the outcome.
LEMMA FinishesTold ==
    ASSUME CallsInv, ToldInv, NEW r \in Requests, Finishes(r)
    PROVE  ToldInv'
<1>1. EarlyEnds \in SUBSET Ends /\ "settle" \in EarlyEnds
  BY PointsGoOn
<1>2. /\ Within(r, EarlyEnds)'
      /\ \A q \in Requests \ {r} : Within(q, EarlyEnds)' <=> Within(q, EarlyEnds)
  BY <1>1, WithinFinishes
<1>3. PICK text \in Successes \cup Failures, st \in {stack, Returned, <<>>} :
          /\ Done(r, text, st)
          /\ text \in Successes => xhr'[r] = "answered"
  BY DEF Finishes
<1>4. told[r] = <<>> /\ installed' = installed /\ thrown' = thrown
  BY DEF Finishes, ToldInv
<1>5. completed' = [completed EXCEPT ![r] = "true"]
  BY <1>3 DEF Finishes, Done, Ignored
<1>6. /\ told' \in [Requests -> Heard]
      /\ told'[r] = IF installed[r]
                    THEN IF text \in Successes THEN <<"success">> ELSE <<"error">>
                    ELSE <<>>
      /\ \A q \in Requests \ {r} : told'[q] = told[q]
  <2>1. CASE ~installed[r]
    <3>1. told' = told
      BY <2>1, <1>3 DEF Finishes, Done, Ignored
    <3>. QED  BY <3>1, <2>1, <1>4 DEF ToldInv
  <2>2. CASE installed[r]
    <3>1. told' = [told EXCEPT ![r] = Append(@, IF text \in Successes
                                                THEN "success" ELSE "error")]
      BY <2>2, <1>3 DEF Finishes, Done, Ignored
    <3>2. Append(told[r], "success") = <<"success">> /\ Append(told[r], "error") = <<"error">>
      BY <1>4
    <3>3. <<"success">> \in Heard /\ <<"error">> \in Heard
      BY DEF Heard
    <3>. QED  BY <3>1, <3>2, <3>3, <2>2 DEF ToldInv
  <2>. QED  BY <2>1, <2>2
<1>. SUFFICES ASSUME NEW q \in Requests
              PROVE  /\ completed'[q] # "true" \/ ~installed[q] => told'[q] = <<>>
                     /\ told'[q] # <<>> /\ told'[q][1] = "success" => xhr'[q] = "answered"
                     /\ Within(q, EarlyEnds)' => Len(told'[q]) = IF installed[q] THEN 1 ELSE 0
                     /\ thrown = 0 /\ installed[q] /\ completed'[q] = "true" /\ Len(told'[q]) # 2
                        => Within(q, EarlyEnds)'
  BY <1>4, <1>6 DEF ToldInv
<1>7. CASE q = r
  <2>1. completed'[r] = "true"
    BY <1>5 DEF CallsInv, Types
  <2>2. Len(<<>>) = 0 /\ Len(<<"success">>) = 1 /\ Len(<<"error">>) = 1 /\ <<"error">>[1] # "success"
    OBVIOUS
  <2>. QED  BY <1>7, <2>1, <2>2, <1>2, <1>3, <1>6
<1>8. CASE q # r
  BY ZenonT(30), <1>8, <1>2, <1>5, <1>6 DEF Finishes, Silenced, ToldInv, CallsInv, Types
<1>. QED  BY <1>7, <1>8

\* What is appended to a sequence of one element comes second.
LEMMA AppendToOne ==
    ASSUME NEW a, NEW b
    PROVE  Append(<<a>>, b) = <<a, b>>
<1>. DEFINE S == {a, b}
            t == Append(<<a>>, b)
<1>0. a \in S /\ b \in S
  OBVIOUS
<1>. HIDE DEF S
<1>1. t \in Seq(S) /\ Len(t) = 2 /\ t[1] = a /\ t[2] = b
  BY <1>0
<1>. HIDE DEF t
<1>2. t = <<a, b>>
  BY <1>1
<1>. QED  BY <1>2 DEF t

\* done() tells of the completion.
LEMMA FireCompleteTold ==
    ASSUME CallsInv, ToldInv, NEW r \in Requests, FireComplete(r)
    PROVE  ToldInv'
<1>1. PICK at \in EarlyEnds : At(r, at)
  BY PointsGoOn DEF FireComplete
<1>2. /\ EarlyEnds \in SUBSET Ends /\ EarlyEnds \in SUBSET Points /\ at \in Ends /\ at \in Points
      /\ "complete" \in Ends /\ "complete" \in Points /\ "complete" \notin EarlyEnds
      /\ (at \in Hooks <=> "complete" \in Hooks)
  BY PointsGoOn, PointsApart
<1>3. stack' = Onward(r, "complete") /\ UNCHANGED <<completed, installed, xhr, thrown>>
  BY DEF FireComplete, requestVars
<1>4. /\ ~Within(r, EarlyEnds)'
      /\ \A q \in Requests \ {r} : Within(q, EarlyEnds)' <=> Within(q, EarlyEnds)
  BY <1>1, <1>2, <1>3, WithinLeaves, WithinOthers
<1>5. On(Frame(r, at)) /\ Within(r, EarlyEnds)
  BY <1>1, <1>2, Innermost DEF CallsInv, Types, Within
<1>6. /\ told' \in [Requests -> Heard]
      /\ \A q \in Requests \ {r} : told'[q] = told[q]
      /\ IF installed[r]
         THEN Len(told'[r]) = 2 /\ told'[r][1] = told[r][1] /\ told[r] # <<>>
         ELSE told'[r] = <<>>
  <2>1. CASE ~installed[r]
    BY <2>1 DEF FireComplete, ToldInv
  <2>2. CASE installed[r]
    <3>1. told' = [told EXCEPT ![r] = Append(@, "complete")]
      BY <2>2 DEF FireComplete
    <3>2. Len(told[r]) = 1 /\ told[r] \in Heard
      BY <2>2, <1>5 DEF ToldInv
    <3>3. told[r] = <<"success">> \/ told[r] = <<"error">>
      BY <3>2 DEF Heard
    <3>4. /\ Append(<<"success">>, "complete") = <<"success", "complete">>
          /\ Append(<<"error">>, "complete") = <<"error", "complete">>
      BY AppendToOne
    <3>5. /\ Append(told[r], "complete") \in Heard /\ Len(Append(told[r], "complete")) = 2
          /\ Append(told[r], "complete")[1] = told[r][1] /\ told[r] # <<>>
      <4>1. CASE told[r] = <<"success">>
        BY <4>1, <3>4 DEF Heard
      <4>2. CASE told[r] = <<"error">>
        BY <4>2, <3>4 DEF Heard
      <4>. QED  BY <3>3, <4>1, <4>2
    <3>. QED  BY <3>1, <3>5, <2>2 DEF ToldInv
  <2>. QED  BY <2>1, <2>2
<1>. SUFFICES ASSUME NEW q \in Requests
              PROVE  /\ completed[q] # "true" \/ ~installed[q] => told'[q] = <<>>
                     /\ told'[q] # <<>> /\ told'[q][1] = "success" => xhr[q] = "answered"
                     /\ Within(q, EarlyEnds)' => Len(told'[q]) = IF installed[q] THEN 1 ELSE 0
                     /\ thrown = 0 /\ installed[q] /\ completed[q] = "true" /\ Len(told'[q]) # 2
                        => Within(q, EarlyEnds)'
  BY <1>3, <1>6 DEF ToldInv
<1>7. CASE q = r
  <2>1. completed[r] = "true"
    BY <1>2, <1>5, WithinOver
  <2>. QED  BY <1>7, <2>1, <1>4, <1>6 DEF ToldInv
<1>8. CASE q # r
  BY <1>8, <1>4, <1>6 DEF ToldInv
<1>. QED  BY <1>7, <1>8

\* A call of done() goes on without telling of anything.
LEMMA WalksTold ==
    ASSUME CallsInv, ToldInv, NEW r \in Requests,
           Settled(r) \/ TriggerOutcome(r) \/ TriggerComplete(r) \/ Completed(r) \/ Stopped(r)
    PROVE  ToldInv'
<1>1. EarlyEnds \in SUBSET Ends /\ EarlyEnds \in SUBSET Points /\ Ends \subseteq Points
      /\ \A at \in Ends : at \notin Hooks
  BY PointsGoOn, PointsApart
<1>2. UNCHANGED <<requestVars, xhr, told, thrown>>
  BY DEF Settled, TriggerOutcome, TriggerComplete, Completed, Stopped
<1>3. ASSUME NEW at \in Ends, NEW to \in Ends, At(r, at), stack' = Onward(r, to),
             at \in EarlyEnds <=> to \in EarlyEnds
      PROVE  \A q \in Requests : Within(q, EarlyEnds)' <=> Within(q, EarlyEnds)
  BY <1>1, <1>3, WithinGoesOn
<1>4. ASSUME NEW at \in Ends, At(r, at), at \notin EarlyEnds, stack' = Returned
      PROVE  \A q \in Requests : Within(q, EarlyEnds)' <=> Within(q, EarlyEnds)
  BY <1>1, <1>4, WithinReturns
<1>5. \A q \in Requests : Within(q, EarlyEnds)' <=> Within(q, EarlyEnds)
  <2>1. CASE Settled(r) \/ TriggerOutcome(r)
    BY <2>1, <1>3, PointsGoOn DEF Settled, TriggerOutcome
  <2>2. CASE TriggerComplete(r)
    BY <2>2, <1>3, <1>4, PointsGoOn DEF TriggerComplete
  <2>3. CASE Completed(r)
    BY <2>3, <1>3, <1>4, PointsGoOn DEF Completed, CountDown
  <2>4. CASE Stopped(r)
    BY <2>4, <1>4, PointsGoOn DEF Stopped
  <2>. QED  BY <2>1, <2>2, <2>3, <2>4
<1>. QED  BY <1>2, <1>5, ToldKept DEF requestVars, ToldInv

\* ajax() tells of nothing.
LEMMA AjaxTold ==
    ASSUME CallsInv, ToldInv, NEW r \in Requests,
           Ajax(r) \/ Prefiltered(r) \/ Started(r) \/ FindTransport(r) \/ SentOff(r) \/ Send(r)
    PROVE  ToldInv'
<1>1. EarlyEnds \in SUBSET Ends
  BY PointsGoOn
<1>2. \A q \in Requests : Within(q, EarlyEnds)' <=> Within(q, EarlyEnds)
  BY <1>1, WithinAjax
<1>3. UNCHANGED <<told, thrown>>
  BY DEF Ajax, Prefiltered, Started, FindTransport, SentOff, Send
<1>4. CASE Ajax(r) \/ Prefiltered(r) \/ Started(r) \/ SentOff(r)
  <2>1. UNCHANGED <<completed, installed, xhr>>
    BY <1>4 DEF Ajax, Prefiltered, Started, SentOff, requestVars
  <2>. QED  BY <2>1, <1>2, <1>3, ToldKept DEF ToldInv
<1>5. CASE FindTransport(r)
  <2>1. /\ completed[r] # "true" /\ UNCHANGED <<completed, xhr>>
        /\ \A q \in Requests \ {r} : installed'[q] = installed[q]
    BY <1>5 DEF FindTransport, CallsInv, Types
  <2>. QED  BY <2>1, <1>2, <1>3, ToldKept DEF ToldInv
<1>6. CASE Send(r)
  <2>1. /\ completed[r] # "true" /\ completed'[r] # "true" /\ UNCHANGED installed
        /\ \A q \in Requests \ {r} : completed'[q] = completed[q] /\ xhr'[q] = xhr[q]
    BY <1>6 DEF Send, Proceeds, CallsInv, Types
  <2>2. xhr[r] # "answered"
    BY <2>1 DEF CallsInv, MarksAgree
  <2>. QED  BY <2>1, <2>2, <1>2, <1>3, ToldKept DEF ToldInv
<1>. QED  BY <1>4, <1>5, <1>6

\* Every step keeps it.
LEMMA ToldNext == CallsInv /\ ToldInv /\ [Next]_allVars => ToldInv'
<1>. SUFFICES ASSUME CallsInv, ToldInv, [Next]_allVars PROVE ToldInv'
  OBVIOUS
<1>1. CASE UNCHANGED allVars
  <2>1. stack' = stack /\ UNCHANGED <<completed, installed, xhr, told, thrown>>
    BY <1>1 DEF allVars, requestVars
  <2>2. \A q \in Requests : Within(q, EarlyEnds)' <=> Within(q, EarlyEnds)
    BY <2>1, WithinStays
  <2>. QED  BY <2>1, <2>2, ToldKept DEF ToldInv
<1>2. CASE Throw
  <2>1. stack' = <<>> /\ UNCHANGED <<completed, installed, xhr, told>> /\ thrown' = thrown + 1
    BY <1>2 DEF Throw, requestVars
  <2>2. \A q \in Requests : ~Within(q, EarlyEnds)'
    BY <2>1, WithinThrow
  <2>3. thrown' \in Nat /\ thrown' # 0
    BY <2>1 DEF ToldInv
  <2>. QED  BY <2>1, <2>2, <2>3, ToldKept
<1>3. ASSUME NEW r \in Requests, Proceed(r) \/ Browser(r) \/ Ajax(r) \/ Abort(r)
      PROVE  ToldInv'
  <2>1. CASE Finishes(r) \/ FireComplete(r)
    BY <2>1, FinishesTold, FireCompleteTold
  <2>2. CASE Settled(r) \/ TriggerOutcome(r) \/ TriggerComplete(r) \/ Completed(r) \/ Stopped(r)
    BY <2>2, WalksTold
  <2>3. CASE Ajax(r) \/ Prefiltered(r) \/ Started(r) \/ FindTransport(r) \/ SentOff(r) \/ Send(r)
    BY <2>3, AjaxTold
  <2>4. CASE OnlyCalls /\ (stack' = stack \/ (Canceled(r) /\ stack' = Returned))
    <3>1. EarlyEnds \in SUBSET Ends
      BY PointsGoOn
    <3>2. \A q \in Requests : Within(q, EarlyEnds)' <=> Within(q, EarlyEnds)
      BY <2>4, <3>1, WithinStays, WithinAjax
    <3>. QED  BY <2>4, <3>2, ToldKept DEF OnlyCalls, requestVars, ToldInv
  <2>. QED
    BY <1>3, <2>1, <2>2, <2>3, <2>4, CanceledSteps, SendFailsSteps, AbortSteps, TimeoutSteps,
       AnswerSteps DEF Proceed, Browser
<1>. QED  BY <1>1, <1>2, <1>3 DEF Next

-----------------------------------------------------------------------------
(* The counter of the global events.                                       *)

\* Initially nothing is counted.
LEMMA CountInit == Init => CountInv
<1>. SUFFICES ASSUME Init PROVE CountInv
  OBVIOUS
<1>1. Owing = {} /\ Counted = {}
  BY DEF Init, Owing, Counted
<1>2. Cardinality(Owing) = 0 /\ Cardinality(Counted) = 0
  BY <1>1, FS_EmptySet
<1>3. active = 0 /\ busy = FALSE
  BY DEF Init
<1>4. ~(active > 0) /\ active \in Nat /\ Cardinality(Owing) <= active
      /\ active <= Cardinality(Counted) /\ active = Cardinality(Owing)
  BY <1>2, <1>3
<1>. QED  BY <1>3, <1>4 DEF CountInv

\* The sets that active is compared with are finite.
LEMMA CountsFinite ==
    /\ IsFiniteSet(Owing) /\ IsFiniteSet(Counted)
    /\ Cardinality(Owing) \in Nat /\ Cardinality(Counted) \in Nat
<1>1. Owing \subseteq Requests /\ Counted \subseteq Requests
  BY DEF Owing, Counted
<1>. QED  BY <1>1, AjaxAssumption, FS_Subset, FS_CardinalityType

\* The requests keep their places in the count.
LEMMA CountKept ==
    ASSUME CountInv, UNCHANGED <<active, busy, fireGlobals>>,
           \A r \in Requests : fireGlobals[r] =>
              ((completed'[r] # "true" \/ Within(r, CountedEnds)')
               <=> (completed[r] # "true" \/ Within(r, CountedEnds))),
           thrown' = 0 => thrown = 0
    PROVE  CountInv'
<1>1. Owing' = Owing /\ Counted' = Counted
  BY DEF Owing, Counted
<1>. QED  BY <1>1 DEF CountInv

\* Code that throws may keep requests from being counted down.
LEMMA CountThrow ==
    ASSUME CountInv, ToldInv, Throw
    PROVE  CountInv'
<1>1. stack' = <<>> /\ UNCHANGED <<active, busy, fireGlobals, completed>> /\ thrown' = thrown + 1
  BY DEF Throw, requestVars
<1>2. \A r \in Requests : ~Within(r, CountedEnds)'
  BY <1>1, WithinThrow
<1>3. Owing' \subseteq Owing /\ Counted' = Counted
  BY <1>1, <1>2 DEF Owing, Counted
<1>4. Cardinality(Owing)' <= Cardinality(Owing) /\ Cardinality(Owing)' \in Nat
      /\ Cardinality(Owing) \in Nat /\ Cardinality(Counted) \in Nat
  BY <1>3, CountsFinite, FS_Subset, FS_CardinalityType
<1>5. thrown' # 0
  BY <1>1 DEF ToldInv
<1>. QED  BY <1>1, <1>3, <1>4, <1>5 DEF CountInv

\* done() keeps the request in the count while it is going on.
LEMMA CountFinishes ==
    ASSUME CallsInv, CountInv, NEW r \in Requests, Finishes(r)
    PROVE  CountInv'
<1>1. CountedEnds \in SUBSET Ends /\ "settle" \in CountedEnds
  BY PointsGoOn
<1>2. /\ Within(r, CountedEnds)'
      /\ \A q \in Requests \ {r} : Within(q, CountedEnds)' <=> Within(q, CountedEnds)
  BY <1>1, WithinFinishes
<1>3. completed' = [completed EXCEPT ![r] = "true"]
  BY DEF Finishes, Done, Ignored
<1>4. UNCHANGED <<active, busy, fireGlobals, thrown>> /\ completed[r] # "true"
  BY DEF Finishes
<1>5. \A q \in Requests \ {r} : completed'[q] = completed[q]
  BY <1>3 DEF CallsInv, Types
<1>. QED  BY <1>2, <1>4, <1>5, CountKept

\* A request is counted when its prefilters are through.
LEMMA CountPrefiltered ==
    ASSUME CallsInv, CountInv, NEW r \in Requests, Prefiltered(r)
    PROVE  CountInv'
<1>1. CountedEnds \in SUBSET Ends /\ "prefilter" \in Points /\ "prefilter" \notin Ends
  BY PointsGoOn
<1>2. \A q \in Requests : Within(q, CountedEnds)' <=> Within(q, CountedEnds)
  BY <1>1, WithinAjax
<1>3. UNCHANGED <<completed, thrown>> /\ ~fireGlobals[r] /\ s[r] \in Settings
  BY <1>1, Tells DEF Prefiltered
<1>4. CASE completed[r] = "true" \/ ~s[r].global
  <2>1. UNCHANGED <<active, busy>>
    BY <1>4 DEF Prefiltered
  <2>2. fireGlobals' = fireGlobals
    <3>1. CASE completed[r] = "true"
      BY <3>1 DEF Prefiltered
    <3>2. CASE completed[r] # "true"
      <4>1. fireGlobals' = [fireGlobals EXCEPT ![r] = s[r].global] /\ s[r].global = FALSE
        BY <3>2, <1>3, <1>4 DEF Prefiltered, Settings
      <4>2. fireGlobals[r] = FALSE
        BY <1>3 DEF CallsInv, Types
      <4>. QED  BY <4>1, <4>2 DEF CallsInv, Types
    <3>. QED  BY <3>1, <3>2
  <2>. QED  BY <2>1, <2>2, <1>2, <1>3, CountKept
<1>5. CASE completed[r] # "true" /\ s[r].global
  <2>1. active' = active + 1 /\ busy' = TRUE /\ fireGlobals' = [fireGlobals EXCEPT ![r] = TRUE]
    BY <1>5, <1>3 DEF Prefiltered, Settings
  <2>2. Owing' = Owing \cup {r} /\ Counted' = Counted \cup {r} /\ r \notin Owing /\ r \notin Counted
    BY <2>1, <1>2, <1>3, <1>5 DEF Owing, Counted, CallsInv, Types
  <2>3. /\ Cardinality(Owing)' = Cardinality(Owing) + 1
        /\ Cardinality(Counted)' = Cardinality(Counted) + 1
    BY <2>2, CountsFinite, FS_AddElement
  <2>4. active \in Nat /\ active' \in Nat /\ active' > 0
    BY <2>1 DEF CountInv
  <2>5. busy' \in BOOLEAN /\ (busy' <=> active' > 0)
    BY <2>1, <2>4
  <2>6. Cardinality(Owing)' <= active' /\ active' <= Cardinality(Counted)'
        /\ (thrown' = 0 => active' = Cardinality(Owing)')
    BY <2>1, <2>3, <2>4, <1>3, CountsFinite DEF CountInv
  <2>. QED  BY <2>4, <2>5, <2>6 DEF CountInv
<1>. QED  BY <1>4, <1>5

\* A request is counted down when ajaxComplete was triggered for it.
LEMMA CountCompleted ==
    ASSUME CallsInv, CountInv, NEW r \in Requests, Completed(r)
    PROVE  CountInv'
<1>1. /\ CountedEnds \in SUBSET Ends /\ "ajaxComplete" \in Points /\ "ajaxComplete" \in CountedEnds
      /\ "ajaxComplete" \in Ends /\ "ajaxComplete" \in GlobalEnds /\ "ajaxComplete" \notin Hooks
      /\ "ajaxStop" \in Ends /\ "ajaxStop" \in Points
      /\ "ajaxStop" \notin CountedEnds /\ "ajaxStop" \notin Hooks /\ CountedEnds \in SUBSET Points
  BY PointsGoOn, PointsApart
<1>2. /\ At(r, "ajaxComplete") /\ UNCHANGED <<completed, fireGlobals, thrown>>
      /\ active' = active - 1
      /\ stack' = Returned \/ stack' = Onward(r, "ajaxStop")
      /\ IF active = 1 THEN busy' = FALSE ELSE busy' = busy
  BY DEF Completed, CountDown, requestVars
<1>3. /\ ~Within(r, CountedEnds)'
      /\ \A q \in Requests \ {r} : Within(q, CountedEnds)' <=> Within(q, CountedEnds)
  BY <1>1, <1>2, WithinLeaves, WithinOthers
<1>4. Within(r, CountedEnds) /\ fireGlobals[r] /\ completed[r] = "true"
  <2>1. On(Frame(r, "ajaxComplete"))
    BY <1>1, <1>2, Innermost DEF CallsInv, Types
  <2>. QED  BY <2>1, <1>1, <1>2, Tells DEF Within
<1>5. Owing' = Owing \ {r} /\ r \in Owing /\ Counted' = Counted
  BY <1>2, <1>3, <1>4 DEF Owing, Counted
<1>6. Cardinality(Owing)' = Cardinality(Owing) - 1
  BY <1>5, CountsFinite, FS_RemoveElement
<1>7. Cardinality(Owing) # 0
  BY <1>5, CountsFinite, FS_EmptySet
<1>8. active \in Nat \ {0}
  BY <1>7, CountsFinite DEF CountInv
<1>9. busy' \in BOOLEAN /\ (busy' <=> active' > 0)
  <2>1. CASE active = 1
    <3>1. ~(active' > 0) /\ busy' = FALSE
      BY <2>1, <1>2
    <3>. QED  BY <3>1
  <2>2. CASE active # 1
    <3>1. active' > 0 /\ active > 0
      BY <2>2, <1>2, <1>8
    <3>2. busy /\ busy' = busy
      BY <3>1, <2>2, <1>2 DEF CountInv
    <3>. QED  BY <3>1, <3>2
  <2>. QED  BY <2>1, <2>2
<1>10. active' \in Nat /\ Cardinality(Owing)' <= active' /\ active' <= Cardinality(Counted)'
       /\ (thrown' = 0 => active' = Cardinality(Owing)')
  BY <1>2, <1>5, <1>6, <1>7, <1>8, CountsFinite DEF CountInv
<1>. QED  BY <1>9, <1>10 DEF CountInv

\* done() goes on before or after it counts the request down.
LEMMA CountWalks ==
    ASSUME CallsInv, CountInv, NEW r \in Requests,
           Settled(r) \/ TriggerOutcome(r) \/ FireComplete(r) \/ TriggerComplete(r) \/ Stopped(r)
    PROVE  CountInv'
<1>1. CountedEnds \in SUBSET Ends /\ CountedEnds \in SUBSET Points /\ Ends \subseteq Points
      /\ \A at \in Ends : at \notin Hooks
  BY PointsGoOn, PointsApart
<1>2. UNCHANGED <<requestVars, active, busy, thrown>>
  BY DEF Settled, TriggerOutcome, FireComplete, TriggerComplete, Stopped
<1>3. ASSUME NEW at \in CountedEnds, NEW to \in CountedEnds, At(r, at), stack' = Onward(r, to)
      PROVE  \A q \in Requests : Within(q, CountedEnds)' <=> Within(q, CountedEnds)
  BY <1>1, <1>3, WithinGoesOn
<1>4. CASE Settled(r) \/ TriggerOutcome(r)
  <2>1. \A q \in Requests : Within(q, CountedEnds)' <=> Within(q, CountedEnds)
    BY <1>4, <1>3, PointsGoOn DEF Settled, TriggerOutcome
  <2>. QED  BY <2>1, <1>2, CountKept DEF requestVars
<1>5. CASE FireComplete(r)
  <2>1. PICK at \in EarlyEnds : At(r, at)
    BY <1>5, PointsGoOn DEF FireComplete
  <2>2. stack' = Onward(r, "complete") /\ at \in CountedEnds /\ "complete" \in CountedEnds
    BY <1>5, PointsGoOn DEF FireComplete
  <2>3. \A q \in Requests : Within(q, CountedEnds)' <=> Within(q, CountedEnds)
    BY <2>1, <2>2, <1>3
  <2>. QED  BY <2>3, <1>2, CountKept DEF requestVars
<1>6. CASE TriggerComplete(r) /\ fireGlobals[r]
  <2>1. \A q \in Requests : Within(q, CountedEnds)' <=> Within(q, CountedEnds)
    BY <1>6, <1>3, PointsGoOn DEF TriggerComplete
  <2>. QED  BY <2>1, <1>2, CountKept DEF requestVars
<1>7. CASE TriggerComplete(r) /\ ~fireGlobals[r]
  <2>1. At(r, "complete") /\ stack' = Returned /\ "complete" \in Points
    BY <1>7, PointsGoOn DEF TriggerComplete
  <2>2. \A q \in Requests \ {r} : Within(q, CountedEnds)' <=> Within(q, CountedEnds)
    BY <2>1, <1>1, WithinOthers
  <2>. QED  BY <2>2, <1>2, <1>7, CountKept DEF requestVars
<1>8. CASE Stopped(r)
  <2>1. \A q \in Requests : Within(q, CountedEnds)' <=> Within(q, CountedEnds)
    <3>1. At(r, "ajaxStop") /\ stack' = Returned
      BY <1>8 DEF Stopped
    <3>2. "ajaxStop" \in Points /\ "ajaxStop" \notin CountedEnds
      BY PointsGoOn
    <3>. QED  BY <3>1, <3>2, <1>1, WithinReturns
  <2>. QED  BY <2>1, <1>2, CountKept DEF requestVars
<1>. QED  BY <1>4, <1>5, <1>6, <1>7, <1>8

\* ajax() counts nothing once its prefilters are through.
LEMMA CountAjax ==
    ASSUME CallsInv, CountInv, NEW r \in Requests,
           Ajax(r) \/ Started(r) \/ FindTransport(r) \/ SentOff(r) \/ Send(r)
    PROVE  CountInv'
<1>1. CountedEnds \in SUBSET Ends
  BY PointsGoOn
<1>2. \A q \in Requests : Within(q, CountedEnds)' <=> Within(q, CountedEnds)
  BY <1>1, WithinAjax
<1>3. UNCHANGED <<active, busy, fireGlobals, thrown>>
  BY DEF Ajax, Started, FindTransport, SentOff, Send, requestVars
<1>4. \A q \in Requests : completed'[q] = "true" <=> completed[q] = "true"
  BY DEF Ajax, Started, FindTransport, SentOff, Send, Proceeds, requestVars, CallsInv, Types
<1>. QED  BY <1>2, <1>3, <1>4, CountKept

\* Every step keeps it.
LEMMA CountNext == CallsInv /\ ToldInv /\ CountInv /\ [Next]_allVars => CountInv'
<1>. SUFFICES ASSUME CallsInv, ToldInv, CountInv, [Next]_allVars PROVE CountInv'
  OBVIOUS
<1>1. CASE UNCHANGED allVars
  <2>1. stack' = stack /\ UNCHANGED <<completed, fireGlobals, active, busy, thrown>>
    BY <1>1 DEF allVars, requestVars
  <2>2. \A q \in Requests : Within(q, CountedEnds)' <=> Within(q, CountedEnds)
    BY <2>1, WithinStays
  <2>. QED  BY <2>1, <2>2, CountKept
<1>2. CASE Throw
  BY <1>2, CountThrow
<1>3. ASSUME NEW r \in Requests, Proceed(r) \/ Browser(r) \/ Ajax(r) \/ Abort(r)
      PROVE  CountInv'
  <2>1. CASE Finishes(r)
    BY <2>1, CountFinishes
  <2>2. CASE Settled(r) \/ TriggerOutcome(r) \/ FireComplete(r) \/ TriggerComplete(r) \/ Stopped(r)
    BY <2>2, CountWalks
  <2>3. CASE Ajax(r) \/ Started(r) \/ FindTransport(r) \/ SentOff(r) \/ Send(r)
    BY <2>3, CountAjax
  <2>4. CASE Prefiltered(r) \/ Completed(r)
    BY <2>4, CountPrefiltered, CountCompleted
  <2>5. CASE OnlyCalls /\ (stack' = stack \/ (Canceled(r) /\ stack' = Returned))
    <3>1. CountedEnds \in SUBSET Ends
      BY PointsGoOn
    <3>2. \A q \in Requests : Within(q, CountedEnds)' <=> Within(q, CountedEnds)
      BY <2>5, <3>1, WithinStays, WithinAjax
    <3>. QED  BY <2>5, <3>2, CountKept DEF OnlyCalls, requestVars
  <2>. QED
    BY <1>3, <2>1, <2>2, <2>3, <2>4, <2>5, CanceledSteps, SendFailsSteps, AbortSteps, TimeoutSteps,
       AnswerSteps DEF Proceed, Browser
<1>. QED  BY <1>1, <1>2, <1>3 DEF Next

-----------------------------------------------------------------------------
(* The theorems.                                                           *)

\* The invariant holds of every behavior.
THEOREM AjaxInvariance == Spec => [](CallsInv /\ ToldInv /\ CountInv)
<1>1. Init => CallsInv /\ ToldInv /\ CountInv
  BY CallsInit, ToldInit, CountInit
<1>2. CallsInv /\ ToldInv /\ CountInv /\ [Next]_allVars => (CallsInv /\ ToldInv /\ CountInv)'
  BY CallsNext, ToldNext, CountNext
<1>. QED  BY <1>1, <1>2, PTL DEF Spec

\* With an empty stack no call has reached any point.
LEMMA IdleMeansNone == Idle => \A r \in Requests : \A E : ~Within(r, E)
<1>1. Len(<<>>) = 0
  OBVIOUS
<1>. QED  BY <1>1 DEF Idle, Within, On

\* A request that has come to an end has left nothing behind, neither a native
\* request on its way nor a timer, in whatever order it was answered, timed out,
\* aborted by the application's callbacks, or broken off by an exception.
THEOREM EndedLeavesNothing == Spec => []AjaxInv
<1>1. CallsInv /\ CountInv => AjaxInv
  <2>. SUFFICES ASSUME CallsInv, CountInv PROVE AjaxInv
    OBVIOUS
  <2>1. NothingLeft
    BY DEF NothingLeft, CallsInv, MarksAgree, Types
  <2>2. active \in 0 .. Cardinality(Requests)
    <3>1. Counted \subseteq Requests
      BY DEF Counted
    <3>2. Cardinality(Counted) <= Cardinality(Requests) /\ Cardinality(Requests) \in Nat
      BY <3>1, AjaxAssumption, FS_Subset, FS_CardinalityType
    <3>. QED  BY <3>2, CountsFinite DEF CountInv
  <2>3. stack \in Seq([of : Requests, at : Hooks \cup Ends])
    BY DEF CallsInv, Types, Frames, Points
  <2>4. \A r \in Requests :
           /\ (completed[r] = "true") <=> (statusText[r] # "")
           /\ callback[r] => transport[r] /\ xhr[r] = "sent"
    BY DEF CallsInv, MarksAgree
  <2>5. AjaxTypeOK
    BY <2>2, <2>3, <2>4 DEF CallsInv, Types, AjaxTypeOK
  <2>. QED  BY <2>1, <2>5 DEF AjaxInv
<1>. QED  BY <1>1, AjaxInvariance, PTL

\* Of a request whose callbacks are installed the application hears once: of its
\* outcome and then of its completion, unless its own code throws.
THEOREM HearsOnce == Spec => []ToldOnce
<1>1. ToldInv => ToldOnce
  <2>. SUFFICES ASSUME ToldInv, NEW r \in Requests
                PROVE  /\ told[r] \in Heard
                       /\ told[r] # <<>> /\ told[r][1] = "success" => xhr[r] = "answered"
                       /\ Idle /\ thrown = 0 /\ installed[r] /\ completed[r] = "true"
                          => Len(told[r]) = 2
    BY DEF ToldOnce, Heard
  <2>. QED  BY IdleMeansNone DEF ToldInv
<1>. QED  BY <1>1, AjaxInvariance, PTL

\* When no code of jQuery or of the application is running, jQuery.active is the
\* number of requests that are not over, unless the application's code has thrown.
THEOREM ActiveIsCounted == Spec => []ActiveCounts
<1>1. CountInv => ActiveCounts
  <2>. SUFFICES ASSUME CountInv, Idle, thrown = 0
                PROVE  /\ active = Cardinality({r \in Requests : fireGlobals[r] /\ completed[r] # "true"})
                       /\ busy <=> active > 0
    BY DEF ActiveCounts
  <2>1. Owing = {r \in Requests : fireGlobals[r] /\ completed[r] # "true"}
    BY IdleMeansNone DEF Owing
  <2>. QED  BY <2>1 DEF CountInv
<1>. QED  BY <1>1, AjaxInvariance, PTL
=============================================================================
