------------------------------- MODULE Deferred -------------------------------
(***************************************************************************)
(* jQuery.Deferred, then and when, on top of Callbacks.                    *)
(*                                                                         *)
(* A deferred has three lists, for done, fail and progress, and another    *)
(* three with what `then' registered.  The latter only hold functions that *)
(* set a timer, so firing one is part of the step that fires it here, and  *)
(* thens[d] stands for the three.                                          *)
(*                                                                         *)
(* The application settles the deferreds it made, registers callbacks,     *)
(* chains with then and combines with when, from the event loop and from   *)
(* inside its callbacks.  A handler may return a value, a promise or a     *)
(* foreign thenable; the latter may call the two functions it is given     *)
(* whenever and as often as it likes.                                      *)
(***************************************************************************)
EXTENDS Callbacks

CONSTANTS
    MaxDeferred,    \* bound: deferreds
    Roots,          \* bound: those of them the application made itself
    MaxAnswers,     \* bound: what foreign thenables answer
    Options         \* the flags a free list may have been made with

ASSUME DeferredAssumption ==
    /\ MaxDeferred \in Nat
    /\ Roots \in 0 .. MaxDeferred
    /\ MaxAnswers \in Nat
    /\ Options \subseteq SUBSET Flags
    /\ FreeLists \cap ((1 .. MaxDeferred) \X {"done", "fail", "progress"}) = {}

VARIABLES
    state,      \* per deferred: its state
    thens,      \* .. what then registered and was not called yet
    timers,     \* setTimeout(process), in order
    maxDepth,   \* per deferred made by then: thenables it has followed
    hooks,      \* functions foreign thenables hold, by deferred and depth
    args,       \* per deferred made by when: its arguments
    remaining,  \* .. and how many of them have not been resolved
    registered, \* history: callbacks given to done, fail and progress
    source,     \* history: the deferred that then was called on
    answers     \* history: what foreign thenables answered, in order

deferredVars == <<state, thens, timers, maxDepth, hooks, args, remaining>>
historyVars == <<registered, source, answers>>
allVars == <<callbackVars, deferredVars, historyVars>>

Deferreds == 1 .. MaxDeferred
Ons == {"done", "fail", "progress"}
Settled == {"resolved", "rejected"}

\* The state a firing of the list `on' leads to, and the list that excludes it.
Final(on) == IF on = "done" THEN "resolved" ELSE "rejected"
Other(on) == IF on = "done" THEN "fail" ELSE "done"

\* A registration by then: the deferred to settle, the depth, and whether there
\* are handlers (or Identity and Thrower).
Then == [to : Deferreds, depth : Nat, handled : BOOLEAN]

\* A timer that runs process: with a handler, or with what a list fired.
Timer == [to : Deferreds, depth : Nat, how : {"call"} \cup Ons, v : Datum]

ProcessFrame(d, depth) == [frame |-> "process", to |-> d, depth |-> depth]
HandlerFrame(d, v) == [frame |-> "handler", to |-> d, v |-> v]
ForeignFrame(h) == [frame |-> "foreign", hook |-> h]
WhenFrame(m, i) == [frame |-> "when", to |-> m, depth |-> i]

\* The lists of a deferred start with the functions that settle it.
Prologue(d) == [kind |-> "prologue", n |-> d]
ListsOf(d) ==
    [l \in {d} \X Ons |->
        NewList(IF l[2] = "progress" THEN {"memory"} ELSE {"once", "memory"},
                <<Prologue(d)>>)]

DeferredTypeOK ==
    /\ DOMAIN lists \subseteq FreeLists \cup (Deferreds \X Ons)
    /\ \A l \in DOMAIN lists : lists[l] \in CallbackList
    /\ state \in [Deferreds -> {"unused", "pending"} \cup Settled]
    /\ thens \in [Deferreds -> Seq(Then)]
    /\ timers \in Seq(Timer)
    /\ maxDepth \in [Deferreds -> Nat]
    /\ hooks \subseteq [to : Deferreds, depth : Nat \ {0}]
    /\ args \in [Deferreds -> Seq(0 .. MaxDeferred)]
    /\ remaining \in [Deferreds -> Nat]
    /\ \A d \in Deferreds : state[d] # "pending" => thens[d] = <<>>

Init ==
    /\ \/ \E o \in [FreeLists -> Options] :
             /\ lists = [l \in FreeLists |-> NewList(o[l], <<>>)]
             /\ state = [d \in Deferreds |-> "unused"]
       \/ /\ lists = [l \in Deferreds \X Ons |-> ListsOf(l[1])[l]]
          /\ \E r \in 1 .. Roots :
                state = [d \in Deferreds |-> IF d <= r THEN "pending" ELSE "unused"]
    /\ stack = <<>>
    /\ heard = <<>>
    /\ emptied = {}
    /\ ops = 0
    /\ thens = [d \in Deferreds |-> <<>>]
    /\ timers = <<>>
    /\ maxDepth = [d \in Deferreds |-> 0]
    /\ hooks = {}
    /\ args = [d \in Deferreds |-> <<>>]
    /\ remaining = [d \in Deferreds |-> 0]
    /\ registered = <<>>
    /\ source = [d \in Deferreds |-> 0]
    /\ answers = <<>>

-----------------------------------------------------------------------------
(* The call of a list of a deferred.                                       *)

\* A registration by then, called with what the list `on' was fired with.
TimerOf(t, on, v) ==
    [to |-> t.to, depth |-> t.depth,
     how |-> IF t.handled /\ on # "progress" THEN "call" ELSE on, v |-> v]

TimersOf(d, on, v) ==
    [k \in DOMAIN thens[d] |-> TimerOf(thens[d][k], on, v)]

\* Mutant of Settles: the other list is not disabled.
SettlesAlone(d, on) ==
    /\ state' = [state EXCEPT ![d] = Final(on)]
    /\ lists' = [Passed(<<d, on>>) EXCEPT ![<<d, "progress">>] = Locked(@)]
    /\ thens' = [thens EXCEPT ![d] = <<>>]

\* The first six functions of done and fail: the state is set, the other list
\* and its handlers are disabled, progress is locked, the handlers are fired.
Settles(d, on) ==
    /\ state' = [state EXCEPT ![d] = Final(on)]
    /\ lists' = [Passed(<<d, on>>) EXCEPT ![<<d, Other(on)>>] = Disabled(@),
                                          ![<<d, "progress">>] = Locked(@)]
    /\ thens' = [thens EXCEPT ![d] = <<>>]

RunPrologue(d, on) ==
    /\ Reaches(<<d, on>>, "prologue")
    /\ timers' = timers \o TimersOf(d, on, lists[<<d, on>>].memory)
    /\ IF on = "progress"
       THEN lists' = Passed(<<d, on>>) /\ UNCHANGED <<state, thens>>
       ELSE Settles(d, on)
    /\ UNCHANGED <<stack, heard, emptied, ops, maxDepth, hooks, args, remaining>>
    /\ UNCHANGED historyVars

-----------------------------------------------------------------------------
(* What the application does with deferreds.                               *)

Made(d) == state[d] # "unused"

\* resolve, reject and notify.
Answer(d, on) ==
    /\ Operation
    /\ Made(d) /\ source[d] = 0 /\ args[d] = <<>>
    /\ Fires(lists, <<d, on>>, ops + 1, stack)
    /\ UNCHANGED <<heard, emptied, deferredVars, historyVars>>

\* done, fail and progress.
Register(d, on) ==
    /\ Operation
    /\ Made(d)
    /\ registered' = Append(registered, [of |-> d, on |-> on])
    /\ Adds(<<d, on>>, Call(Len(registered) + 1), stack)
    /\ UNCHANGED <<heard, emptied, deferredVars, source, answers>>

\* jQuery.Deferred: the next one.
New(d) == ~Made(d) /\ \A e \in 1 .. d - 1 : Made(e)

\* Mutant of AddsThen: handler lists without memory.
AddsThenLater(d, t) ==
    /\ thens' = [thens EXCEPT ![d] = Append(@, t)]
    /\ UNCHANGED timers

\* The three handler lists of d get what then passes them; those that were
\* fired before call it at once.
AddsThen(d, t) ==
    LET progress == lists[<<d, "progress">>].memory
        on == IF state[d] = "resolved" THEN "done" ELSE "fail"
    IN  /\ thens' = IF state[d] = "pending"
                    THEN [thens EXCEPT ![d] = Append(@, t)] ELSE thens
        /\ timers' = timers
             \o (IF progress = NoData THEN <<>>
                 ELSE <<TimerOf(t, "progress", progress)>>)
             \o (IF state[d] = "pending" THEN <<>>
                 ELSE <<TimerOf(t, on, lists[<<d, on>>].memory)>>)

CallThen(d, nd) ==
    /\ Operation
    /\ Made(d) /\ New(nd)
    /\ state' = [state EXCEPT ![nd] = "pending"]
    /\ source' = [source EXCEPT ![nd] = d]
    /\ \E handled \in BOOLEAN :
          AddsThen(d, [to |-> nd, depth |-> 0, handled |-> handled])
    /\ UNCHANGED <<lists, stack, heard, emptied>>
    /\ UNCHANGED <<maxDepth, hooks, args, remaining, registered, answers>>

-----------------------------------------------------------------------------
(* then: resolve(depth, deferred, handler), run from a timer or a hook.    *)

\* A thenable is followed: its answers count from one level deeper.
Follow(nd) == maxDepth' = [maxDepth EXCEPT ![nd] = @ + 1]
HookOf(nd) == [to |-> nd, depth |-> maxDepth[nd] + 1]

\* then.call(returned, ...) of a foreign thenable, from process of this depth.
FollowsForeign(nd, s) ==
    /\ Follow(nd)
    /\ hooks' = hooks \cup {HookOf(nd)}
    /\ stack' = Append(s, ForeignFrame(HookOf(nd)))
    /\ UNCHANGED lists

\* The catch of process, with the stack s it was called from.
Caught(nd, depth, v, s) ==
    IF depth + 1 >= maxDepth[nd]
    THEN Fires(lists, <<nd, "fail">>, v, s)
    ELSE stack' = s /\ UNCHANGED lists

\* The next timer: process, at once or with the handler's frame on top.
FireTimer ==
    /\ Idle
    /\ timers # <<>>
    /\ timers' = Tail(timers)
    /\ LET t == Head(timers)
           here == <<ProcessFrame(t.to, t.depth)>>
           late == t.depth < maxDepth[t.to]
       IN  \/ /\ late
              /\ UNCHANGED <<lists, stack>>
           \/ /\ ~late /\ t.how = "call"
              /\ stack' = Append(here, HandlerFrame(t.to, t.v))
              /\ UNCHANGED lists
           \/ /\ ~late /\ t.how = "done"
              /\ Fires(lists, <<t.to, "done">>, t.v, here)
           \/ /\ ~late /\ t.how = "fail"
              /\ Caught(t.to, t.depth, t.v, <<>>)
           \/ /\ ~late /\ t.how = "progress"
              /\ Fires(lists, <<t.to, "progress">>, t.v, <<>>)
    /\ UNCHANGED <<heard, emptied, ops, state, thens, maxDepth, hooks, args, remaining>>
    /\ UNCHANGED historyVars

\* The handler returns a value: the deferred is resolved with it.
HandlerReturns ==
    /\ On("handler")
    /\ Fires(lists, <<Top.to, "done">>, Top.v, Front(stack))
    /\ UNCHANGED <<heard, emptied, ops, deferredVars, historyVars>>

\* It returns a jQuery promise: then registers two hooks with it.
HandlerReturnsPromise(e) ==
    /\ On("handler")
    /\ Operation
    /\ Made(e) /\ e # Top.to
    /\ Follow(Top.to)
    /\ AddsThen(e, [to |-> Top.to, depth |-> HookOf(Top.to).depth, handled |-> FALSE])
    /\ stack' = Front(stack)
    /\ UNCHANGED <<lists, heard, emptied, state, hooks, args, remaining, historyVars>>

HandlerReturnsForeign ==
    /\ On("handler")
    /\ Operation
    /\ FollowsForeign(Top.to, Front(stack))
    /\ UNCHANGED <<heard, emptied, state, thens, timers, args, remaining, historyVars>>

\* A foreign thenable has called a function or thrown, with a datum of its own.
NewAnswer == MaxOps + Len(answers) + 1
Answering(h) ==
    /\ Len(answers) < MaxAnswers
    /\ answers' = Append(answers, [hook |-> h, v |-> NewAnswer])

\* A foreign thenable calls one of its two functions, during its `then' or from
\* the event loop.  Whether the call still counts is for process to say.
Calls(h) ==
    /\ h \in hooks
    /\ Idle \/ (On("foreign") /\ Top.hook = h)
    /\ Answering(h)
    /\ UNCHANGED ops

\* Mutant of Heeded: older thenables still have a say.
HeededAlways(h) == TRUE

\* "Ignore double-resolution attempts"
Heeded(h) == h.depth >= maxDepth[h.to]

HookIgnored(h) ==
    /\ Calls(h)
    /\ ~Heeded(h)
    /\ UNCHANGED <<lists, stack, heard, emptied, deferredVars, registered, source>>

HookSettles(h) ==
    /\ Calls(h)
    /\ Heeded(h)
    /\ \/ Fires(lists, <<h.to, "done">>, NewAnswer,
                Append(stack, ProcessFrame(h.to, h.depth)))
       \/ Caught(h.to, h.depth, NewAnswer, stack)
    /\ UNCHANGED <<heard, emptied, deferredVars, registered, source>>

HookFollows(h) ==
    /\ Calls(h)
    /\ Heeded(h)
    /\ FollowsForeign(h.to, Append(stack, ProcessFrame(h.to, h.depth)))
    /\ UNCHANGED <<heard, emptied, state, thens, timers, args, remaining>>
    /\ UNCHANGED <<registered, source>>

\* process or a foreign `then' returns.
Returns ==
    /\ On("process") \/ On("foreign")
    /\ stack' = Front(stack)
    /\ UNCHANGED <<lists, heard, emptied, ops, deferredVars, historyVars>>

\* Code of the application or a foreign `then' throws (a handler also by
\* returning its own promise): the loops of fire on the way to the innermost
\* process, or to the event loop, are abandoned as they are.
Throws ==
    /\ \/ (On("body") \/ On("handler")) /\ Operation /\ UNCHANGED answers
       \/ On("foreign") /\ Answering(Top.hook) /\ UNCHANGED ops
    /\ LET catching == {k \in DOMAIN stack : stack[k].frame = "process"}
           k == Max(catching)
       IN  IF catching = {}
           THEN stack' = <<>> /\ UNCHANGED lists
           ELSE Caught(stack[k].to, stack[k].depth,
                       IF On("foreign") THEN NewAnswer ELSE ops + 1,
                       SubSeq(stack, 1, k - 1))
    /\ UNCHANGED <<heard, emptied, deferredVars, registered, source>>

-----------------------------------------------------------------------------
(* when, of two promises or values.                                        *)

CallWhen(m) ==
    /\ Operation
    /\ New(m)
    /\ \E a \in [1 .. 2 -> {0} \cup {d \in Deferreds : Made(d)}] :
          /\ a[1] + a[2] > 0
          /\ args' = [args EXCEPT ![m] = a]
    /\ remaining' = [remaining EXCEPT ![m] = 2]
    /\ state' = [state EXCEPT ![m] = "pending"]
    /\ stack' = Append(stack, WhenFrame(m, 2))
    /\ UNCHANGED <<lists, heard, emptied, thens, timers, maxDepth, hooks, historyVars>>

\* Mutant of Counted: the master is resolved with the first value.
CountedFirst(m, ls, v, s) ==
    /\ remaining' = [remaining EXCEPT ![m] = @ - 1]
    /\ Fires(ls, <<m, "done">>, v, s)

\* updateFunc: one argument less to wait for, in the lists ls.
Counted(m, ls, v, s) ==
    /\ remaining' = [remaining EXCEPT ![m] = @ - 1]
    /\ IF remaining[m] = 1
       THEN Fires(ls, <<m, "done">>, v, s)
       ELSE lists' = ls /\ stack' = s

\* adoptValue of the arguments, the last one first.
WhenAdopts ==
    /\ On("when")
    /\ LET m == Top.to
           i == Top.depth
           d == args[m][i]
           back == IF i = 1 THEN Front(stack)
                   ELSE Append(Front(stack), WhenFrame(m, i - 1))
           firing(on) == IF Replays(lists[<<d, on>>]) THEN <<FireFrame(<<d, on>>)>>
                         ELSE <<>>
       IN  IF d = 0
           THEN Counted(m, lists, 1, back)
           ELSE /\ lists' = [lists EXCEPT
                       ![<<d, "done">>] = Added(@, [kind |-> "update", n |-> m]),
                       ![<<d, "fail">>] = Added(@, [kind |-> "reject", n |-> m])]
                /\ stack' = back \o firing("done") \o firing("fail")
                /\ UNCHANGED remaining
    /\ UNCHANGED <<heard, emptied, ops, state, thens, timers, maxDepth, hooks, args>>
    /\ UNCHANGED historyVars

RunUpdate(d) ==
    LET l == <<d, "done">>
    IN  /\ Reaches(l, "update")
        /\ Counted(Reached(l), Passed(l), lists[l].memory, stack)
        /\ UNCHANGED <<heard, emptied, ops, state, thens, timers, maxDepth, hooks, args>>
        /\ UNCHANGED historyVars

RunReject(d) ==
    LET l == <<d, "fail">>
    IN  /\ Reaches(l, "reject")
        /\ Fires(Passed(l), <<Reached(l), "fail">>, lists[l].memory, stack)
        /\ UNCHANGED <<heard, emptied, ops, deferredVars, historyVars>>

-----------------------------------------------------------------------------
(* The specification.                                                      *)

ListStep(l) ==
    \/ ListAdd(l) \/ ListFire(l) \/ ListRemove(l)
    \/ ListEmpty(l) \/ ListDisable(l) \/ ListLock(l)

\* What the application may do next, if it likes.
Application ==
    \/ \E l \in FreeLists \cap DOMAIN lists :
          ListStep(l) /\ UNCHANGED <<deferredVars, historyVars>>
    \/ \E d \in Deferreds, on \in Ons : Answer(d, on) \/ Register(d, on)
    \/ \E d, nd \in Deferreds : CallThen(d, nd)
    \/ \E m \in Deferreds : CallWhen(m)
    \/ \E e \in Deferreds : HandlerReturnsPromise(e)
    \/ HandlerReturnsForeign
    \/ \E h \in hooks : HookIgnored(h) \/ HookSettles(h) \/ HookFollows(h)
    \/ Throws

\* What the interpreter goes on with.
Engine ==
    \/ /\ \/ \E l \in DOMAIN lists : RunCallback(l) \/ RoundEnds(l)
          \/ BodyReturns
       /\ UNCHANGED <<deferredVars, historyVars>>
    \/ \E d \in Deferreds, on \in Ons : RunPrologue(d, on)
    \/ \E d \in Deferreds : RunUpdate(d) \/ RunReject(d)
    \/ HandlerReturns \/ Returns \/ WhenAdopts \/ FireTimer

Next == Application \/ Engine

\* Functions return: the event loop comes to every timer.
Spec == Init /\ [][Next]_allVars /\ WF_allVars(Engine)

-----------------------------------------------------------------------------
(* Properties.                                                             *)

\* The callbacks registered with d for `on', and the calls of them.
RegisteredFor(d, on) == {n \in DOMAIN registered : registered[n] = [of |-> d, on |-> on]}
CallsOf(d, on) == {k \in DOMAIN heard : heard[k].of = <<d, on>>}

\* A list whose loop was abandoned by an exception.
Abandoned(l) == lists[l].firing /\ ~\E k \in DOMAIN stack : stack[k] = FireFrame(l)

\* The variables have their types, and a list with memory is caught up.
DeferredInv == DeferredTypeOK /\ CaughtUp

\* The callbacks of a deferred are called in the order they were registered in,
\* none twice and none left out, even if callbacks register callbacks; once the
\* stack is empty all were called, unless one of them threw.
HeardInOrder ==
    \A d \in Deferreds, on \in {"done", "fail"} :
        /\ \A j, k \in CallsOf(d, on) : j < k => heard[j].n < heard[k].n
        /\ \A k \in CallsOf(d, on) :
              /\ heard[k].n \in RegisteredFor(d, on)
              /\ \A n \in RegisteredFor(d, on) :
                    n < heard[k].n => \E j \in CallsOf(d, on) : heard[j].n = n
        /\ Idle /\ state[d] = Final(on) /\ ~Abandoned(<<d, on>>)
           => \A n \in RegisteredFor(d, on) : \E j \in CallsOf(d, on) : heard[j].n = n

\* A deferred that follows foreign thenables is settled by the first answer of
\* one of them: a second call, an exception after a call, or a late call of a
\* thenable that was answered by another thenable changes nothing.
FirstAnswerDecides ==
    \A d \in Deferreds, k \in DOMAIN answers :
        /\ answers[k].hook.to = d
        /\ \/ lists[<<d, "done">>].memory = answers[k].v
           \/ lists[<<d, "fail">>].memory = answers[k].v
        => \A j \in 1 .. k - 1 : answers[j].hook # answers[k].hook

\* What when returns is resolved only if all its arguments are, and rejected
\* only if one is; and it is settled when the arguments decide it, unless the
\* exception of a callback hides that from it.
WhenWaits ==
    \A m \in Deferreds :
        LET given == {args[m][i] : i \in DOMAIN args[m]} \ {0}
        IN  given # {} =>
              /\ state[m] = "resolved" => \A d \in given : state[d] = "resolved"
              /\ state[m] = "rejected" => \E d \in given : state[d] = "rejected"
              /\ /\ Idle /\ state[m] = "pending"
                 /\ \A d \in given, on \in Ons : ~Abandoned(<<d, on>>)
                 => /\ \E d \in given : state[d] = "pending"
                    /\ \A d \in given : state[d] # "rejected"

\* Deferreds are promises: how each was settled, the callbacks registered, and
\* what they were called with.
Settlement ==
    [d \in Deferreds |->
        IF state[d] \in Settled
        THEN [state |-> state[d],
              v |-> lists[<<d, IF state[d] = "resolved" THEN "done" ELSE "fail">>].memory]
        ELSE [state |-> "pending", v |-> 0]]

Asked ==
    [n \in DOMAIN registered |->
        [of |-> registered[n].of,
         on |-> IF registered[n].on = "progress" THEN "progress" ELSE Final(registered[n].on)]]

Answered(n) == {k \in DOMAIN heard : heard[k].n = n /\ heard[k].of[2] # "progress"}
AnswerTo ==
    [n \in 1 .. MaxOps |->
        IF FreeLists \cap DOMAIN lists # {} \/ Answered(n) = {} THEN 0
        ELSE IF \A j, k \in Answered(n) : j = k
             THEN heard[CHOOSE k \in Answered(n) : TRUE].v ELSE -1]

P == INSTANCE Promises WITH
        Promise <- Deferreds,
        Value <- 1 .. MaxOps + MaxAnswers,
        MaxRegs <- MaxOps,
        outcome <- Settlement,
        registered <- Asked,
        answer <- AnswerTo

ImplementsPromises == P!Spec

\* What then returns is settled in the end if what it was called on is, unless
\* it follows a thenable that does not answer.
ThenSettles ==
    \A d \in 2 .. MaxDeferred :
        source[d] # 0 /\ state[source[d]] \in Settled
            ~> state[d] \in Settled \/ maxDepth[d] > 0
=============================================================================
